---------------------------- MODULE MCNotifier ------------------------------
(* Two waiters, one of which comes twice, and two notifiers, or three waiters and one *)
(* notifier; the epoch is 16 wide and starts one ticket before it wraps.   *)
EXTENDS Notifier, TLC

CONSTANTS w1, w2, w3, n1, n2

TwiceOrThree ==
  {w1 :> 2 @@ w2 :> 1 @@ w3 :> 0 @@ n1 :> 1 @@ n2 :> 1,
   w1 :> 1 @@ w2 :> 1 @@ w3 :> 1 @@ n1 :> 1 @@ n2 :> 0}
=============================================================================
