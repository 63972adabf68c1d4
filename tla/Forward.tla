------------------------------- MODULE Forward -------------------------------
(***************************************************************************)
(* The forwards of both runtimes, on the parameters they share: a state is  *)
(* that of one loaded model, of the family its file names.                  *)
(***************************************************************************)
EXTENDS Launches

CONSTANTS QwenModels, GemmaModels,      \* the models tried
          Taps, SmallRows, MoeChunk, Arrivals, ChainK,   \* see QwenForward
          Window, MaxVerify,                             \* see GemmaForward
          CtxChunk, BlockSize, BlockArg, WidthArg        \* see DflashForward
VARIABLES model, fed, drafted, gpu, answer, wanted, phase, dflash
vars == <<model, fed, drafted, gpu, answer, wanted, phase, dflash>>

Qwen == INSTANCE QwenForward WITH Models <- QwenModels
Gemma == INSTANCE DflashForward WITH Models <- GemmaModels

ASSUME ForwardAssumption ==
  LaunchParameters /\ Qwen!QwenParameters /\ Gemma!GemmaParameters /\ Gemma!DflashParameters

IsQwen == model.family = "qwen35"
Init == \/ Qwen!Init /\ dflash = Gemma!NoDflash
        \/ Gemma!DflashInit
Next == \/ IsQwen /\ Qwen!Next /\ UNCHANGED dflash
        \/ ~IsQwen /\ Gemma!DflashNext
Spec == Init /\ [][Next]_vars

\* What a call answers, and the rows and states it leaves on the device, are
\* those of the scalar model of the family, whichever calls came before.
MatchesReference == IF IsQwen THEN Qwen!MatchesReference ELSE Gemma!DflashMatches

\* A model that one path runs (prefill, decode, verify, drafts) is one that the
\* other paths run too, but for what the family's module excepts.
PathsAgree == IF IsQwen THEN Qwen!PathsAgree ELSE Gemma!DflashPathsAgree
=============================================================================
