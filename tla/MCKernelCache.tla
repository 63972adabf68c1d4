---------------------------- MODULE MCKernelCache ---------------------------
(* Two processes, one kernel, two builds with other headers, two compilers; *)
(* builds and the compiler change while nothing runs.                       *)
EXTENDS KernelCache
=============================================================================
