----------------------------- MODULE KernelCache ----------------------------
(***************************************************************************)
(* The compile cache of HIP kernels (runtime/mod.rs): a directory that any *)
(* number of processes share, with no lock.  A kernel is compiled into a   *)
(* file named for the process and published by a rename under a name that  *)
(* is a digest of what it was compiled from.  The shared headers lie in    *)
(* the directory under fixed names, and their digest is part of the key.   *)
(*                                                                         *)
(* A process may be killed between any two steps and started again, of the *)
(* same build or of another.                                               *)
(***************************************************************************)
EXTENDS Naturals, FiniteSets

CONSTANTS Process, Kernel,
          Headers,                 \* versions of the shared headers, one a build
          Compilers,               \* versions of hipcc
          MaxStarts, MaxUpgrades,  \* bounds
          Mixed                    \* builds change while others run

ASSUME CacheAssumption ==
  /\ MaxStarts \in Nat /\ MaxUpgrades \in Nat /\ Mixed \in BOOLEAN
  /\ Kernel # {} /\ Headers # {} /\ Compilers # {} /\ "torn" \notin Headers

VARIABLES hipcc,                   \* the version installed
          header,                  \* the header file: a version, torn or none
          src, tmp,                \* files named for a process
          out,                     \* published entries, by key
          pc, build, hipcc_version, todo, kernel, included, loaded,
          starts, upgrades

files == <<header, src, tmp, out>>
vars == <<hipcc, files, pc, build, hipcc_version, todo, kernel, included, loaded,
          starts, upgrades>>

None == "none"
Torn == "torn"
Absent == [kernel |-> None, headers |-> None, hipcc |-> None]
HalfWritten == [Absent EXCEPT !.kernel = Torn]
Running == {"sync", "truncate", "write", "probe", "lookup", "compile", "hipcc", "cleanup", "publish"}

\* Mutant: the compiler is not part of the key.
KeyNoCompiler(p, k) == [kernel |-> k, headers |-> build[p], hipcc |-> None]
\* cache_key: source, compiler and the headers of the build.
Key(p, k) == [kernel |-> k, headers |-> build[p], hipcc |-> hipcc_version[p]]
Keys == [kernel : Kernel, headers : Headers, hipcc : Compilers \cup {None}]

\* Mutant: the process is not part of the name.
UniqueKeyOnly(p) == [key |-> Key(p, kernel[p]), pid |-> None]
\* The names of a process's own files.
Unique(p) == [key |-> Key(p, kernel[p]), pid |-> p]
Names == [key : Keys, pid : Process \cup {None}]

Init ==
  /\ hipcc \in Compilers
  /\ header = None /\ out = [k \in Keys |-> Absent]
  /\ src = {} /\ tmp = [n \in Names |-> Absent]
  /\ pc = [p \in Process |-> "down"]
  /\ build = [p \in Process |-> CHOOSE h \in Headers : TRUE]
  /\ hipcc_version = [p \in Process |-> None]
  /\ todo = [p \in Process |-> {}]
  /\ kernel = [p \in Process |-> CHOOSE k \in Kernel : TRUE]
  /\ included = [p \in Process |-> None]
  /\ loaded = [p \in Process |-> {}]
  /\ starts = 0 /\ upgrades = 0

Goto(p, where) == pc' = [pc EXCEPT ![p] = where]

\* A process starts, or starts again, with the headers of its build.
Start(p) ==
  /\ pc[p] \notin Running /\ starts < MaxStarts
  /\ \E h \in Headers :
       /\ Mixed \/ \A q \in Process : pc[q] \in Running => build[q] = h
       /\ build' = [build EXCEPT ![p] = h]
  /\ todo' = [todo EXCEPT ![p] = Kernel]
  /\ loaded' = [loaded EXCEPT ![p] = {}]
  /\ starts' = starts + 1
  /\ Goto(p, "sync")
  /\ UNCHANGED <<hipcc, files, hipcc_version, kernel, included, upgrades>>

\* Mutant: the header is written if it is not there.
StaleIfMissing(p) == header = None
\* sync_shared_headers: the file is written unless it reads as it should ...
Stale(p) == header # build[p]
ReadHeader(p) ==
  /\ pc[p] = "sync"
  /\ Goto(p, IF Stale(p) THEN "truncate" ELSE "probe")
  /\ UNCHANGED <<hipcc, files, build, hipcc_version, todo, kernel, included, loaded,
                 starts, upgrades>>

\* ... and fs::write empties it before it fills it.
TruncateHeader(p) ==
  /\ pc[p] = "truncate"
  /\ header' = Torn
  /\ Goto(p, "write")
  /\ UNCHANGED <<hipcc, src, tmp, out, build, hipcc_version, todo, kernel, included,
                 loaded, starts, upgrades>>

WriteHeader(p) ==
  /\ pc[p] = "write"
  /\ header' = build[p]
  /\ Goto(p, "probe")
  /\ UNCHANGED <<hipcc, src, tmp, out, build, hipcc_version, todo, kernel, included,
                 loaded, starts, upgrades>>

\* hipcc --version, once.
ProbeVersion(p) ==
  /\ pc[p] = "probe"
  /\ hipcc_version' = [hipcc_version EXCEPT ![p] = hipcc]
  /\ Goto(p, "lookup")
  /\ UNCHANGED <<hipcc, files, build, todo, kernel, included, loaded, starts, upgrades>>

Done(p) == pc[p] = "lookup" /\ todo[p] = {}

\* compile, the next kernel: an entry that exists is taken as it is.
Lookup(p) ==
  /\ pc[p] = "lookup"
  /\ \E k \in todo[p] :
       /\ kernel' = [kernel EXCEPT ![p] = k]
       /\ LET key == Key(p, k)
          IN IF out[key] # Absent
               THEN /\ loaded' = [loaded EXCEPT ![p] = @ \cup {[key |-> key, is |-> out[key]]}]
                    /\ todo' = [todo EXCEPT ![p] = @ \ {k}]
                    /\ Goto(p, "lookup")
               ELSE Goto(p, "compile") /\ UNCHANGED <<loaded, todo>>
  /\ UNCHANGED <<hipcc, files, build, hipcc_version, included, starts, upgrades>>

WriteSource(p) ==
  /\ pc[p] = "compile"
  /\ src' = src \cup {Unique(p)}
  /\ Goto(p, "hipcc")
  /\ included' = [included EXCEPT ![p] = None]
  /\ UNCHANGED <<hipcc, header, tmp, out, build, hipcc_version, todo, kernel, loaded,
                 starts, upgrades>>

\* hipcc reads the source and the header and begins to write its output.
HipccReads(p) ==
  /\ pc[p] = "hipcc" /\ included[p] = None
  /\ included' = [included EXCEPT ![p] = IF Unique(p) \in src THEN header ELSE Torn]
  /\ tmp' = [tmp EXCEPT ![Unique(p)] = HalfWritten]
  /\ UNCHANGED <<hipcc, header, src, out, pc, build, hipcc_version, todo, kernel, loaded,
                 starts, upgrades>>

\* It ends, in an error if what it read was not whole.  The source is removed.
HipccEnds(p) ==
  /\ pc[p] = "hipcc" /\ included[p] # None
  /\ src' = src \ {Unique(p)}
  /\ IF included[p] \in Headers
       THEN /\ tmp' = [tmp EXCEPT ![Unique(p)] =
                 [kernel |-> kernel[p], headers |-> included[p], hipcc |-> hipcc]]
            /\ Goto(p, "publish")
       ELSE Goto(p, "cleanup") /\ UNCHANGED tmp
  /\ UNCHANGED <<hipcc, header, out, build, hipcc_version, todo, kernel, included, loaded,
                 starts, upgrades>>

\* Mutant: the process tries again.
CleanupRetry(p) ==
  /\ pc[p] = "cleanup"
  /\ tmp' = [tmp EXCEPT ![Unique(p)] = Absent]
  /\ Goto(p, "lookup")
  /\ UNCHANGED <<hipcc, header, src, out, build, hipcc_version, todo, kernel, included,
                 loaded, starts, upgrades>>
\* hipcc failed: its output is removed and the process gives up.
Cleanup(p) ==
  /\ pc[p] = "cleanup"
  /\ tmp' = [tmp EXCEPT ![Unique(p)] = Absent]
  /\ Goto(p, "failed")
  /\ UNCHANGED <<hipcc, header, src, out, build, hipcc_version, todo, kernel, included,
                 loaded, starts, upgrades>>

\* The rename replaces what a peer has published; if it fails and there is such
\* an entry, that one is used, and if there is none the process gives up and
\* leaves its output.
Publish(p) ==
  /\ pc[p] = "publish"
  /\ LET key == Key(p, kernel[p])
         Use(entry) == /\ loaded' = [loaded EXCEPT ![p] = @ \cup {[key |-> key, is |-> entry]}]
                       /\ todo' = [todo EXCEPT ![p] = @ \ {kernel[p]}]
                       /\ Goto(p, "lookup")
     IN \/ /\ out' = [out EXCEPT ![key] = tmp[Unique(p)]]
           /\ tmp' = [tmp EXCEPT ![Unique(p)] = Absent]
           /\ Use(out'[key])
        \/ /\ out[key] # Absent
           /\ tmp' = [tmp EXCEPT ![Unique(p)] = Absent]
           /\ Use(out[key]) /\ UNCHANGED out
        \/ /\ out[key] = Absent
                    /\ Goto(p, "failed") /\ UNCHANGED <<out, tmp, loaded, todo>>
  /\ UNCHANGED <<hipcc, header, src, build, hipcc_version, kernel, included, starts, upgrades>>

Ready(p) ==
  /\ Done(p) /\ Goto(p, "ready")
  /\ UNCHANGED <<hipcc, files, build, hipcc_version, todo, kernel, included, loaded,
                 starts, upgrades>>

Step(p) == \/ ReadHeader(p) \/ TruncateHeader(p) \/ WriteHeader(p) \/ ProbeVersion(p)
           \/ Lookup(p) \/ WriteSource(p) \/ HipccReads(p) \/ HipccEnds(p) \/ Cleanup(p)
           \/ Publish(p) \/ Ready(p)

\* The process is killed; its files stay.
Crash(p) ==
  /\ pc[p] \in Running
  /\ Goto(p, "crashed")
  /\ UNCHANGED <<hipcc, files, build, hipcc_version, todo, kernel, included, loaded,
                 starts, upgrades>>

\* ROCm is upgraded.
Upgrade ==
  /\ upgrades < MaxUpgrades /\ upgrades' = upgrades + 1
  /\ Mixed \/ \A p \in Process : pc[p] \notin Running
  /\ \E v \in Compilers \ {hipcc} : hipcc' = v
  /\ UNCHANGED <<files, pc, build, hipcc_version, todo, kernel, included, loaded, starts>>

Next == (\E p \in Process : Start(p) \/ Step(p) \/ Crash(p)) \/ Upgrade

Spec == Init /\ [][Next]_vars /\ \A p \in Process : WF_vars(Step(p))
-----------------------------------------------------------------------------
Entry == [kernel : Kernel, headers : Headers, hipcc : Compilers]

\* Every published entry is whole: no reader ever sees an output hipcc is still
\* writing or a killed process left (the unique names and the rename in compile).
TypeOK ==
  /\ hipcc \in Compilers /\ header \in Headers \cup {Torn, None}
  /\ src \subseteq Names
  /\ \A k \in Keys : out[k] \in Entry \cup {Absent}
  /\ \A p \in Process : pc[p] \in Running \cup {"down", "ready", "failed", "crashed"}

\* What a process loads was compiled from its own kernel, headers and compiler,
\* whichever process published it, and however many builds and compilers earlier
\* (cache_key, "an edit invalidates cached .hsacos"), as long as the processes that
\* run together are of one build (~Mixed).
LoadsOwn == \A p \in Process : \A l \in loaded[p] : l.is = l.key

\* An entry, once published, is never missing and never another: a process that
\* saw it may open it at any later time; again for processes of one build at a time.
EntriesStay == [][\A k \in Keys : out[k] # Absent => out'[k] = out[k]]_vars

\* Every process that is not killed gets through its kernels or gives up.
Settles == \A p \in Process : pc[p] \in Running ~> pc[p] \notin Running
=============================================================================
