---------------------------- MODULE MCGraphForkLoop ----------------------------
(* One loop whose step b also feeds d, outside the loop.                   *)
EXTENDS MCGraphRun

ForkLoopOnly == {ForkLoop}
==============================================================================
