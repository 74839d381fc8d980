----------------------------- MODULE MCBuilding ------------------------------
(***************************************************************************)
(* Plans for two threads with flows of their own and a pool of two         *)
(* buckets, slabs of three blocks.                                         *)
(***************************************************************************)
EXTENDS GraphBuilding, TLC

CONSTANTS ta, tb, fa, ga, fb

MCThreads == {ta, tb}
MCFlows == {fa, ga, fb}
MCFlowsOf == ta :> {fa, ga} @@ tb :> {fb}
MCBuckets == {1, 2}
MCSlabs == <<<<<<1, 2, 3>>, <<4, 5, 6>>>>, <<<<7, 8, 9>>>>>>

MCRanges == {<<1>>, <<2, 1>>}
NoVectors == [nothrow |-> TRUE, this |-> <<>>, rhs |-> <<>>, capacity |-> 0]

\* Both threads create and destroy; tb has a Work already.
Pool ==
  [flows |-> fa :> <<>> @@ ga :> <<>> @@ fb :> <<1>>,
   types |-> 1 :> "basic", taken |-> <<1, 0>>, kinds |-> {<<"basic">>},
   may |-> ta :> {"emplace", "erase"} @@ tb :> {"emplace", "erase"},
   calls |-> ta :> 1 @@ tb :> 3, vectors |-> NoVectors]

\* ta alone, with Works of the types given (the first three blocks of bucket
\* 1, perhaps the first of bucket 2) and n calls of the groups S.
Alone(works, types, S, n) ==
  [flows |-> works @@ ga :> <<>> @@ fb :> <<>>, types |-> types,
   taken |-> <<3, IF 7 \in DOMAIN types THEN 1 ELSE 0>>,
   kinds |-> {<<"basic", "jump">>},
   may |-> ta :> S @@ tb :> {}, calls |-> ta :> n @@ tb :> 0,
   vectors |-> NoVectors]

Types(first) == 1 :> first @@ [i \in {2, 3} |-> "basic"]
More(first) == Types(first) @@ 7 :> "basic"

\* ta uses its vectors only.
OnlyVectors(nothrow, this, rhs, capacity, n) ==
  [Alone(fa :> <<1, 2, 3>>, Types("basic"), {"vector"}, n) EXCEPT !.vectors =
     [nothrow |-> nothrow, this |-> this, rhs |-> rhs, capacity |-> capacity]]

MCPlans ==
  LET one  == fa :> <<1, 2, 3>>
      pair == fa :> <<1, 2>> @@ fb :> <<3>>
      four == fa :> <<1, 2, 3, 7>>
      two  == fa :> <<1, 2, 3>> @@ ga :> <<7>>
  IN  {Pool,
       Alone(one, Types("jump"), {"connect", "disconnect"}, 3),
       Alone(four, More("basic"), {"connect"}, 2),
       Alone(two, More("jump"), {"connect", "erase", "clear", "move"}, 2),
       Alone(pair, Types("basic"), {"emplace", "erase", "clear", "move"}, 2),
       Alone(pair, Types("jump"), {"connect", "replace"}, 3),
       Alone(one, Types("multiBranch"), {"connect", "disconnect", "choose"}, 2),
       Alone(one, Types("jump"), {"connect", "choose"}, 2),
       Alone(pair, Types("branch"), {"connect", "choose"}, 2),
       Alone(pair, Types("multiJump"), {"connect", "choose"}, 2),
       Alone(pair, Types("basic"), {"request"}, 3)}
      \cup {OnlyVectors(nothrow, this, rhs, c, 2) : nothrow \in BOOLEAN,
               this \in {<<>>, <<2>>, <<1, 2>>}, rhs \in {<<1>>, <<1, 2>>}, c \in {0, 3}}
=============================================================================
