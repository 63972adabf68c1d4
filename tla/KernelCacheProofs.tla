-------------------------- MODULE KernelCacheProofs -------------------------
(***************************************************************************)
(* Proofs about the kernel cache, for any number of processes, kernels,    *)
(* builds and compilers.  The type invariant holds whatever is mixed with  *)
(* whatever; that a process loads what it asked for holds where builds and *)
(* the compiler change only while nothing runs.                            *)
(***************************************************************************)
EXTENDS KernelCache, TLAPS

-----------------------------------------------------------------------------
(* The inductive invariant                                                  *)

\* Where a process has the version of the compiler.
Probed == {"lookup", "compile", "hipcc", "cleanup", "publish"}
\* Where a process has read the header, or is about to write it.
Synced == Probed \cup {"probe", "write"}

\* The plain types of the variables.
Types ==
  /\ hipcc \in Compilers /\ header \in Headers \cup {Torn, None}
  /\ src \subseteq Names
  /\ tmp \in [Names -> Entry \cup {Absent, HalfWritten}]
  /\ out \in [Keys -> Entry \cup {Absent}]
  /\ pc \in [Process -> Running \cup {"down", "ready", "failed", "crashed"}]
  /\ build \in [Process -> Headers]
  /\ hipcc_version \in [Process -> Compilers \cup {None}]
  /\ todo \in [Process -> SUBSET Kernel]
  /\ kernel \in [Process -> Kernel]
  /\ included \in [Process -> Headers \cup {Torn, None}]
  /\ loaded \in [Process -> SUBSET [key : Keys, is : Entry]]

\* What is about to be published is whole.
TmpWhole == \A p \in Process : pc[p] = "publish" => tmp[Unique(p)] \in Entry

\* The processes that run are of one build ...
OneBuild ==
  \A p, q \in Process : pc[p] \in Running /\ pc[q] \in Running => build[p] = build[q]
\* ... so once one of them has seen to the header, it can only be the build's,
\* or torn while a peer writes the same again ...
HeaderOwn == \A p \in Process : pc[p] \in Synced => header \in {build[p], Torn}
\* ... and the compiler is the one that was asked for its version.
VersionOwn == \A p \in Process : pc[p] \in Probed => hipcc_version[p] = hipcc
\* hipcc has read the header of the process, or fails.
IncludedOwn ==
  \A p \in Process : pc[p] = "hipcc" => included[p] \in {build[p], Torn, None}
\* What is about to be published is what its name says.
TmpOwn == \A p \in Process : pc[p] = "publish" => tmp[Unique(p)] = Key(p, kernel[p])
\* What is published is what its name says.
OutOwn == \A k \in Keys : out[k] \in {k, Absent}

Own == OneBuild /\ HeaderOwn /\ VersionOwn /\ IncludedOwn /\ TmpOwn /\ OutOwn /\ LoadsOwn

IInv == Types /\ TmpWhole /\ (~Mixed => Own)

-----------------------------------------------------------------------------
(* Lemmas about the names                                                   *)

\* A process's names are names, and no other process has them.
LEMMA NamesAreOwn ==
  ASSUME Types, NEW p \in Process
  PROVE  /\ \A k \in Kernel : Key(p, k) \in Keys
         /\ Unique(p) \in Names
         /\ \A q \in Process : Unique(q) = Unique(p) => q = p
<1>1. \A k \in Kernel : Key(p, k) \in Keys
  BY DEF Types, Key, Keys
<1>2. kernel[p] \in Kernel
  BY DEF Types
<1>3. Unique(p) \in Names
  BY <1>1, <1>2 DEF Unique, Names
<1>4. QED
  BY <1>1, <1>3 DEF Unique

-----------------------------------------------------------------------------
(* Every step keeps the types and the outputs whole                         *)

\* hipcc ends: with an entry, if it read whole files.
LEMMA HipccEndsTypes ==
  ASSUME Types, TmpWhole, NEW p \in Process, HipccEnds(p)
  PROVE  Types' /\ TmpWhole'
<1>1. Unique(p) \in Names /\ kernel[p] \in Kernel /\ hipcc \in Compilers
  BY NamesAreOwn DEF Types
<1>2. src' \subseteq Names
  BY DEF HipccEnds, Types
<1>3. CASE included[p] \in Headers
  <2> DEFINE e == [kernel |-> kernel[p], headers |-> included[p], hipcc |-> hipcc]
  <2>1. e \in Entry
    BY <1>1, <1>3 DEF Entry
  <2>2. tmp' = [tmp EXCEPT ![Unique(p)] = e] /\ pc' = [pc EXCEPT ![p] = "publish"]
    BY <1>3 DEF HipccEnds, Goto
  <2> HIDE DEF e
  <2>3. tmp' \in [Names -> Entry \cup {Absent, HalfWritten}]
    BY <2>1, <2>2 DEF Types
  <2>4. Types'
    BY <1>2, <2>2, <2>3 DEF HipccEnds, Types, Running
  <2>5. TmpWhole'
    BY <1>1, <2>1, <2>2, NamesAreOwn DEF HipccEnds, TmpWhole, Types, Unique, Key
  <2>6. QED
    BY <2>4, <2>5
<1>4. CASE included[p] \notin Headers
  <2>1. tmp' = tmp /\ pc' = [pc EXCEPT ![p] = "cleanup"]
    BY <1>4 DEF HipccEnds, Goto
  <2>2. Types'
    BY <1>2, <2>1 DEF HipccEnds, Types, Running
  <2>3. TmpWhole'
    BY <2>1 DEF HipccEnds, TmpWhole, Types, Unique, Key
  <2>4. QED
    BY <2>2, <2>3
<1>5. QED
  BY <1>3, <1>4

\* What a rename does, in each of its outcomes: what is used, published and left.
LEMMA PublishFacts ==
  ASSUME Types, TmpWhole, NEW p \in Process, Publish(p)
  PROVE  /\ tmp' \in {tmp, [tmp EXCEPT ![Unique(p)] = Absent]}
         /\ \/ /\ \/ out' = [out EXCEPT ![Key(p, kernel[p])] = tmp[Unique(p)]]
                  \/ out' = out /\ out[Key(p, kernel[p])] # Absent
               /\ out'[Key(p, kernel[p])] \in Entry
               /\ loaded' = [loaded EXCEPT ![p] = @ \cup
                    {[key |-> Key(p, kernel[p]), is |-> out'[Key(p, kernel[p])]]}]
               /\ todo' = [todo EXCEPT ![p] = @ \ {kernel[p]}]
               /\ pc' = [pc EXCEPT ![p] = "lookup"]
            \/ /\ UNCHANGED <<out, loaded, todo>>
               /\ pc' = [pc EXCEPT ![p] = "failed"]
         /\ UNCHANGED <<hipcc, header, src, build, hipcc_version, kernel, included>>
<1>1. Unique(p) \in Names /\ Key(p, kernel[p]) \in Keys
  BY NamesAreOwn DEF Types
<1>2. tmp[Unique(p)] \in Entry
  BY DEF TmpWhole, Publish
<1>3. out \in [Keys -> Entry \cup {Absent}]
  BY DEF Types
<1>4. QED
  BY <1>1, <1>2, <1>3 DEF Publish, Goto

\* A rename keeps the types and what is about to be published whole.
LEMMA PublishTypes ==
  ASSUME Types, TmpWhole, NEW p \in Process, Publish(p)
  PROVE  Types' /\ TmpWhole'
<1>1. Unique(p) \in Names /\ Key(p, kernel[p]) \in Keys
  BY NamesAreOwn DEF Types
<1>2. tmp[Unique(p)] \in Entry
  BY DEF TmpWhole, Publish
<1>3. tmp' \in [Names -> Entry \cup {Absent, HalfWritten}]
  BY <1>1, PublishFacts DEF Types
<1>4. out' \in [Keys -> Entry \cup {Absent}]
  BY <1>1, <1>2, PublishFacts DEF Types
<1>5. loaded' \in [Process -> SUBSET [key : Keys, is : Entry]]
  BY <1>1, PublishFacts DEF Types
<1>6. todo' \in [Process -> SUBSET Kernel]
  BY PublishFacts DEF Types
<1>7. pc' \in [Process -> Running \cup {"down", "ready", "failed", "crashed"}]
  BY PublishFacts DEF Types, Running
<1>8. Types'
  BY <1>3, <1>4, <1>5, <1>6, <1>7, PublishFacts DEF Types
<1>9. \A q \in Process : pc'[q] = "publish" => q # p /\ pc[q] = "publish"
  BY PublishFacts DEF Types
<1>10. TmpWhole'
  BY <1>1, <1>9, PublishFacts, NamesAreOwn DEF TmpWhole, Types, Unique, Key
<1>11. QED
  BY <1>8, <1>10

\* A step of any process keeps the types, and what is about to be published whole.
LEMMA TypesStep ==
  ASSUME Types, TmpWhole, NEW p \in Process, Start(p) \/ Step(p) \/ Crash(p)
  PROVE  Types' /\ TmpWhole'
<1>1. CASE Start(p)
  <2>1. Types'
    BY <1>1, NamesAreOwn DEF Start, Goto, files, Types, Running
  <2>2. TmpWhole'
    BY <1>1, NamesAreOwn DEF Start, Goto, files, Types, Running, TmpWhole, Unique, Key
  <2>3. QED
    BY <2>1, <2>2
<1>2. CASE ReadHeader(p)
  <2>1. Types'
    BY <1>2, NamesAreOwn DEF ReadHeader, Goto, files, Types, Running
  <2>2. TmpWhole'
    BY <1>2, NamesAreOwn DEF ReadHeader, Goto, files, Types, Running, TmpWhole, Unique, Key
  <2>3. QED
    BY <2>1, <2>2
<1>3. CASE TruncateHeader(p)
  <2>1. Types'
    BY <1>3, NamesAreOwn DEF TruncateHeader, Goto, files, Types, Running
  <2>2. TmpWhole'
    BY <1>3, NamesAreOwn DEF TruncateHeader, Goto, files, Types, Running, TmpWhole, Unique, Key
  <2>3. QED
    BY <2>1, <2>2
<1>4. CASE WriteHeader(p)
  <2>1. Types'
    BY <1>4, NamesAreOwn DEF WriteHeader, Goto, files, Types, Running
  <2>2. TmpWhole'
    BY <1>4, NamesAreOwn DEF WriteHeader, Goto, files, Types, Running, TmpWhole, Unique, Key
  <2>3. QED
    BY <2>1, <2>2
<1>5. CASE ProbeVersion(p)
  <2>1. Types'
    BY <1>5, NamesAreOwn DEF ProbeVersion, Goto, files, Types, Running
  <2>2. TmpWhole'
    BY <1>5, NamesAreOwn DEF ProbeVersion, Goto, files, Types, Running, TmpWhole, Unique, Key
  <2>3. QED
    BY <2>1, <2>2
<1>6. CASE Lookup(p)
  <2>1. Types'
    BY <1>6, NamesAreOwn DEF Lookup, Goto, files, Types, Running
  <2>2. TmpWhole'
    BY <1>6, NamesAreOwn DEF Lookup, Goto, files, Types, Running, TmpWhole, Unique, Key
  <2>3. QED
    BY <2>1, <2>2
<1>7. CASE WriteSource(p)
  <2>1. Types'
    BY <1>7, NamesAreOwn DEF WriteSource, Goto, files, Types, Running
  <2>2. TmpWhole'
    BY <1>7, NamesAreOwn DEF WriteSource, Goto, files, Types, Running, TmpWhole, Unique, Key
  <2>3. QED
    BY <2>1, <2>2
<1>8. CASE HipccReads(p)
  <2>1. Types'
    BY <1>8, NamesAreOwn DEF HipccReads, Goto, files, Types, Running
  <2>2. TmpWhole'
    BY <1>8, NamesAreOwn DEF HipccReads, Goto, files, Types, Running, TmpWhole, Unique, Key
  <2>3. QED
    BY <2>1, <2>2
<1>9. CASE HipccEnds(p)
  BY <1>9, HipccEndsTypes
<1>10. CASE Cleanup(p)
  <2>1. Types'
    BY <1>10, NamesAreOwn DEF Cleanup, Goto, files, Types, Running
  <2>2. TmpWhole'
    BY <1>10, NamesAreOwn DEF Cleanup, Goto, files, Types, Running, TmpWhole, Unique, Key
  <2>3. QED
    BY <2>1, <2>2
<1>11. CASE Publish(p)
  BY <1>11, PublishTypes
<1>12. CASE Ready(p)
  <2>1. Types'
    BY <1>12, NamesAreOwn DEF Ready, Done, Goto, files, Types, Running
  <2>2. TmpWhole'
    BY <1>12, NamesAreOwn DEF Ready, Done, Goto, files, Types, Running, TmpWhole, Unique, Key
  <2>3. QED
    BY <2>1, <2>2
<1>13. CASE Crash(p)
  <2>1. Types'
    BY <1>13, NamesAreOwn DEF Crash, Goto, files, Types, Running
  <2>2. TmpWhole'
    BY <1>13, NamesAreOwn DEF Crash, Goto, files, Types, Running, TmpWhole, Unique, Key
  <2>3. QED
    BY <2>1, <2>2
<1>14. QED
  BY <1>1, <1>2, <1>3, <1>4, <1>5, <1>6, <1>7, <1>8, <1>9, <1>10, <1>11, <1>12, <1>13 DEF Step

-----------------------------------------------------------------------------
(* Every step keeps what a process has and what is published its own        *)

\* hipcc's output is what its name says if what it read was whole.
LEMMA HipccEndsOwn ==
  ASSUME Types, Own, NEW p \in Process, HipccEnds(p)
  PROVE  TmpOwn'
<1>1. Unique(p) \in Names /\ pc[p] = "hipcc"
  BY NamesAreOwn DEF HipccEnds
<1>2. included[p] \in {build[p], Torn, None} /\ included[p] # None
  BY <1>1 DEF Own, IncludedOwn, HipccEnds
<1>3. CASE included[p] \in Headers
  <2>1. included[p] = build[p]
    BY <1>2, <1>3, CacheAssumption DEF Torn
  <2>2. hipcc_version[p] = hipcc
    BY <1>1 DEF Own, VersionOwn, Probed
  <2>3. tmp' = [tmp EXCEPT ![Unique(p)] = Key(p, kernel[p])]
    BY <1>3, <2>1, <2>2 DEF HipccEnds, Key
  <2>4. /\ UNCHANGED <<build, hipcc_version, kernel>>
        /\ pc' = [pc EXCEPT ![p] = "publish"]
    BY <1>3 DEF HipccEnds, Goto
  <2>5. QED
    BY <1>1, <2>3, <2>4, NamesAreOwn DEF Own, TmpOwn, Types, Unique, Key
<1>4. CASE included[p] \notin Headers
  <2>1. /\ UNCHANGED <<tmp, build, hipcc_version, kernel>>
        /\ pc' = [pc EXCEPT ![p] = "cleanup"]
    BY <1>4 DEF HipccEnds, Goto
  <2>2. QED
    BY <2>1 DEF Own, TmpOwn, Types, Unique, Key
<1>5. QED
  BY <1>3, <1>4

\* What is published and what is loaded after a rename is what its name says.
LEMMA PublishOwn ==
  ASSUME Types, TmpWhole, Own, NEW p \in Process, Publish(p)
  PROVE  TmpOwn' /\ OutOwn' /\ LoadsOwn'
<1> DEFINE key == Key(p, kernel[p])
<1>1. Unique(p) \in Names /\ key \in Keys
  BY NamesAreOwn DEF Types
<1>2. tmp[Unique(p)] = key
  BY DEF Own, TmpOwn, Publish
<1> HIDE DEF key
<1>3. OutOwn'
  <2>1. out' \in {out, [out EXCEPT ![key] = key]}
    BY <1>2, PublishFacts DEF key
  <2>2. QED
    BY <1>1, <2>1 DEF Own, OutOwn, Types
<1>4. LoadsOwn'
  <2>1. CASE loaded' = loaded
    BY <2>1 DEF Own, LoadsOwn
  <2>2. CASE loaded' # loaded
    <3>1. /\ loaded' = [loaded EXCEPT ![p] = @ \cup {[key |-> key, is |-> out'[key]]}]
          /\ out'[key] \in Entry
      BY <2>2, PublishFacts DEF key
    <3>2. out'[key] = key
      <4>1. CASE out' = [out EXCEPT ![key] = key]
        BY <1>1, <4>1 DEF Types
      <4>2. CASE out' = out /\ out[key] # Absent
        BY <1>1, <4>2 DEF Own, OutOwn
      <4>3. QED
        BY <1>2, <2>2, <4>1, <4>2, PublishFacts DEF key
    <3>3. QED
      BY <3>1, <3>2 DEF Own, LoadsOwn, Types
  <2>3. QED
    BY <2>1, <2>2
<1>5. TmpOwn'
  <2>1. \A q \in Process : pc'[q] = "publish" => q # p /\ pc[q] = "publish"
    BY PublishFacts DEF Types
  <2>2. QED
    BY <1>1, <2>1, PublishFacts, NamesAreOwn, SMTT(30) DEF Own, TmpOwn, Types, Unique, Key
<1>6. QED
  BY <1>3, <1>4, <1>5

\* A step of any process keeps everything its own, if only one build runs.
LEMMA OwnStep ==
  ASSUME Types, TmpWhole, Own, ~Mixed, NEW p \in Process, Start(p) \/ Step(p) \/ Crash(p)
  PROVE  Own'
<1>1. CASE Start(p)
  <2>1. OneBuild'
    BY <1>1 DEF Start, Goto, files, Types, Own, OneBuild, Running
  <2>2. LoadsOwn'
    BY <1>1 DEF Start, Goto, files, Types, Own, LoadsOwn
  <2>3. HeaderOwn' /\ VersionOwn' /\ IncludedOwn' /\ TmpOwn' /\ OutOwn'
    BY <1>1 DEF Start, Goto, files, Types, Own, HeaderOwn, VersionOwn, IncludedOwn,
       TmpOwn, OutOwn, Synced, Probed, Running, Unique, Key
  <2>4. QED
    BY <2>1, <2>2, <2>3 DEF Own
<1>2. CASE ReadHeader(p)
  <2>1. HeaderOwn'
    BY <1>2 DEF ReadHeader, Goto, files, Types, Own, HeaderOwn, OneBuild, Synced,
       Probed, Running, Stale
  <2>2. OneBuild' /\ VersionOwn' /\ IncludedOwn' /\ TmpOwn' /\ OutOwn' /\ LoadsOwn'
    BY <1>2 DEF ReadHeader, Goto, files, Types, Own, OneBuild, VersionOwn,
       IncludedOwn, TmpOwn, OutOwn, LoadsOwn, Running, Probed, Unique, Key
  <2>3. QED
    BY <2>1, <2>2 DEF Own
<1>3. CASE TruncateHeader(p)
  <2>1. HeaderOwn'
    BY <1>3 DEF TruncateHeader, Goto, files, Types, Own, HeaderOwn, OneBuild,
       Synced, Probed, Running
  <2>2. OneBuild' /\ VersionOwn' /\ IncludedOwn' /\ TmpOwn' /\ OutOwn' /\ LoadsOwn'
    BY <1>3 DEF TruncateHeader, Goto, files, Types, Own, OneBuild, VersionOwn,
       IncludedOwn, TmpOwn, OutOwn, LoadsOwn, Running, Probed, Unique, Key
  <2>3. QED
    BY <2>1, <2>2 DEF Own
<1>4. CASE WriteHeader(p)
  <2>1. HeaderOwn'
    BY <1>4 DEF WriteHeader, Goto, files, Types, Own, HeaderOwn, OneBuild, Synced,
       Probed, Running
  <2>2. OneBuild' /\ VersionOwn' /\ IncludedOwn' /\ TmpOwn' /\ OutOwn' /\ LoadsOwn'
    BY <1>4 DEF WriteHeader, Goto, files, Types, Own, OneBuild, VersionOwn,
       IncludedOwn, TmpOwn, OutOwn, LoadsOwn, Running, Probed, Unique, Key
  <2>3. QED
    BY <2>1, <2>2 DEF Own
<1>5. CASE ProbeVersion(p)
  <2>1. VersionOwn'
    BY <1>5 DEF ProbeVersion, Goto, files, Types, Own, VersionOwn, Probed
  <2>2. OneBuild' /\ HeaderOwn' /\ IncludedOwn' /\ TmpOwn' /\ OutOwn' /\ LoadsOwn'
    BY <1>5 DEF ProbeVersion, Goto, files, Types, Own, OneBuild, HeaderOwn,
       IncludedOwn, TmpOwn, OutOwn, LoadsOwn, Running, Synced, Probed, Unique, Key
  <2>3. QED
    BY <2>1, <2>2 DEF Own
<1>6. CASE Lookup(p)
  <2>1. LoadsOwn'
    BY <1>6, NamesAreOwn DEF Lookup, Goto, files, Types, Own, LoadsOwn, OutOwn
  <2>2. OneBuild' /\ HeaderOwn' /\ VersionOwn' /\ IncludedOwn' /\ TmpOwn' /\ OutOwn'
    BY <1>6 DEF Lookup, Goto, files, Types, Own, OneBuild, HeaderOwn, VersionOwn,
       IncludedOwn, TmpOwn, OutOwn, Running, Synced, Probed, Unique, Key
  <2>3. QED
    BY <2>1, <2>2 DEF Own
<1>7. CASE WriteSource(p)
  <2>1. IncludedOwn'
    BY <1>7 DEF WriteSource, Goto, files, Types, Own, IncludedOwn
  <2>2. OneBuild' /\ HeaderOwn' /\ VersionOwn' /\ TmpOwn' /\ OutOwn' /\ LoadsOwn'
    BY <1>7 DEF WriteSource, Goto, files, Types, Own, OneBuild, HeaderOwn,
       VersionOwn, TmpOwn, OutOwn, LoadsOwn, Running, Synced, Probed, Unique, Key
  <2>3. QED
    BY <2>1, <2>2 DEF Own
<1>8. CASE HipccReads(p)
  <2>1. IncludedOwn'
    BY <1>8 DEF HipccReads, Goto, files, Types, Own, IncludedOwn, HeaderOwn, Synced,
       Probed
  <2>2. TmpOwn'
    BY <1>8, NamesAreOwn DEF HipccReads, Goto, files, Types, Own, TmpOwn, Unique,
       Key
  <2>3. OneBuild' /\ HeaderOwn' /\ VersionOwn' /\ OutOwn' /\ LoadsOwn'
    BY <1>8 DEF HipccReads, Goto, files, Types, Own, OneBuild, HeaderOwn,
       VersionOwn, OutOwn, LoadsOwn, Running, Synced, Probed
  <2>4. QED
    BY <2>1, <2>2, <2>3 DEF Own
<1>9. CASE HipccEnds(p)
  <2>1. TmpOwn'
    BY <1>9, HipccEndsOwn
  <2>2. OneBuild' /\ HeaderOwn' /\ VersionOwn' /\ IncludedOwn' /\ OutOwn' /\ LoadsOwn'
    BY <1>9 DEF HipccEnds, Goto, files, Types, Own, OneBuild, HeaderOwn, VersionOwn,
       IncludedOwn, OutOwn, LoadsOwn, Running, Synced, Probed
  <2>3. QED
    BY <2>1, <2>2 DEF Own
<1>10. CASE Cleanup(p)
  <2>1. TmpOwn'
    BY <1>10, NamesAreOwn DEF Cleanup, Goto, files, Types, Own, TmpOwn, Unique, Key
  <2>2. OneBuild' /\ HeaderOwn' /\ VersionOwn' /\ IncludedOwn' /\ OutOwn' /\ LoadsOwn'
    BY <1>10 DEF Cleanup, Goto, files, Types, Own, OneBuild, HeaderOwn, VersionOwn,
       IncludedOwn, OutOwn, LoadsOwn, Running, Synced, Probed
  <2>3. QED
    BY <2>1, <2>2 DEF Own
<1>11. CASE Publish(p)
  <2>1. TmpOwn' /\ OutOwn' /\ LoadsOwn'
    BY <1>11, PublishOwn
  <2>2. OneBuild' /\ HeaderOwn' /\ VersionOwn' /\ IncludedOwn'
    BY <1>11 DEF Publish, Goto, files, Types, Own, OneBuild, HeaderOwn, VersionOwn,
       IncludedOwn, Running, Synced, Probed
  <2>3. QED
    BY <2>1, <2>2 DEF Own
<1>12. CASE Ready(p)
  <2>1. OneBuild' /\ HeaderOwn' /\ VersionOwn' /\ IncludedOwn' /\ TmpOwn' /\ OutOwn' /\ LoadsOwn'
    BY <1>12 DEF Ready, Done, Goto, files, Types, Own, OneBuild, HeaderOwn,
       VersionOwn, IncludedOwn, TmpOwn, OutOwn, LoadsOwn, Running, Synced, Probed,
       Unique, Key
  <2>2. QED
    BY <2>1 DEF Own
<1>13. CASE Crash(p)
  <2>1. OneBuild' /\ HeaderOwn' /\ VersionOwn' /\ IncludedOwn' /\ TmpOwn' /\ OutOwn' /\ LoadsOwn'
    BY <1>13 DEF Crash, Goto, files, Types, Own, OneBuild, HeaderOwn, VersionOwn,
       IncludedOwn, TmpOwn, OutOwn, LoadsOwn, Running, Synced, Probed, Unique, Key
  <2>2. QED
    BY <2>1 DEF Own
<1>14. QED
  BY <1>1, <1>2, <1>3, <1>4, <1>5, <1>6, <1>7, <1>8, <1>9, <1>10, <1>11, <1>12, <1>13 DEF Step

-----------------------------------------------------------------------------
(* The theorems                                                             *)

\* A cache that starts empty satisfies the invariant.
LEMMA InitInvariant == Init => IInv
<1> SUFFICES ASSUME Init PROVE IInv
  OBVIOUS
<1>1. /\ (CHOOSE h \in Headers : TRUE) \in Headers
      /\ (CHOOSE k \in Kernel : TRUE) \in Kernel
  BY CacheAssumption
<1>2. Types
  BY <1>1 DEF Init, Types, Running
<1>3. TmpWhole /\ Own
  BY DEF Init, TmpWhole, Own, OneBuild, HeaderOwn, VersionOwn, IncludedOwn, TmpOwn, OutOwn,
         LoadsOwn, Running, Probed, Synced
<1>4. QED
  BY <1>2, <1>3 DEF IInv

\* Every step keeps the invariant.
LEMMA StepInvariant == IInv /\ [Next]_vars => IInv'
<1> SUFFICES ASSUME IInv, [Next]_vars PROVE IInv'
  OBVIOUS
<1>0. Types /\ TmpWhole /\ (~Mixed => Own)
  BY DEF IInv
<1>1. ASSUME NEW p \in Process, Start(p) \/ Step(p) \/ Crash(p)
      PROVE  IInv'
  BY <1>0, <1>1, TypesStep, OwnStep DEF IInv
<1>2. CASE Upgrade
  <2>1. Types'
    BY <1>0, <1>2 DEF Upgrade, files, Types
  <2>2. TmpWhole'
    BY <1>0, <1>2 DEF Upgrade, files, TmpWhole, Unique, Key
  <2>3. ~Mixed => Own'
    BY <1>0, <1>2 DEF Upgrade, files, Types, Own, OneBuild, HeaderOwn, VersionOwn, IncludedOwn,
                      TmpOwn, OutOwn, LoadsOwn, Unique, Key, Running, Probed, Synced
  <2>4. QED
    BY <2>1, <2>2, <2>3 DEF IInv
<1>3. CASE UNCHANGED vars
  <2>1. Types' /\ TmpWhole'
    BY <1>0, <1>3 DEF vars, files, Types, TmpWhole, Unique, Key
  <2>2. ~Mixed => Own'
    BY <1>0, <1>3 DEF vars, files, Own, OneBuild, HeaderOwn, VersionOwn, IncludedOwn,
                      TmpOwn, OutOwn, LoadsOwn, Unique, Key
  <2>3. QED
    BY <2>1, <2>2 DEF IInv
<1>4. QED
  BY <1>1, <1>2, <1>3 DEF Next

\* The invariant holds in every state of every behaviour.
LEMMA Invariance == Spec => []IInv
BY InitInvariant, StepInvariant, PTL DEF Spec

\* No reader ever sees an entry that is not whole, whatever builds and compilers
\* are mixed, and wherever processes are killed.
THEOREM TypeCorrect == Spec => []TypeOK
<1>1. IInv => TypeOK
  BY DEF IInv, Types, TypeOK
<1>2. QED
  BY <1>1, Invariance, PTL

\* A process loads what was compiled from its own kernel, headers and compiler,
\* if those change only while no process runs.
THEOREM LoadsCorrect ==
  ASSUME ~Mixed
  PROVE  Spec => []LoadsOwn
<1>1. IInv => LoadsOwn
  BY DEF IInv, Own
<1>2. QED
  BY <1>1, Invariance, PTL

\* An entry that is published is never replaced by another and never goes
\* missing, under the same condition.
THEOREM EntriesCorrect ==
  ASSUME ~Mixed
  PROVE  Spec => EntriesStay
<1>1. IInv /\ [Next]_vars => [\A k \in Keys : out[k] # Absent => out'[k] = out[k]]_vars
  <2> SUFFICES ASSUME IInv, [Next]_vars, NEW k \in Keys, out[k] # Absent
               PROVE  out'[k] = out[k]
    OBVIOUS
  <2>1. out[k] = k
    BY DEF IInv, Own, OutOwn
  <2>2. CASE out' = out
    BY <2>2
  <2>3. ASSUME NEW p \in Process, Publish(p)
        PROVE  out'[k] = out[k]
    <3>1. tmp[Unique(p)] = Key(p, kernel[p])
      BY <2>3 DEF IInv, Own, TmpOwn, Publish
    <3>2. out' = out \/ out' = [out EXCEPT ![Key(p, kernel[p])] = Key(p, kernel[p])]
      BY <2>3, <3>1, PublishFacts DEF IInv
    <3>3. QED
      BY <2>1, <3>2 DEF IInv, Types
  <2>4. QED
    BY <2>2, <2>3 DEF Next, vars, Start, Step, Crash, Upgrade, files, ReadHeader,
       TruncateHeader, WriteHeader, ProbeVersion, Lookup, WriteSource, HipccReads,
       HipccEnds, Cleanup, Ready
<1>2. QED
  BY <1>1, Invariance, PTL DEF Spec, EntriesStay
=============================================================================
