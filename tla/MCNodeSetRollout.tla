-------------------------- MODULE MCNodeSetRollout --------------------------
(* Instances of NodeSetRollout for TLC. *)
EXTENDS NodeSetRollout

CONSTANTS t1, t2, t3, h1, h2, h3, h4

GoodAndBad == {t1, t2, t3}
TwoGood == {t1, t2}
OneBad == {t3}
NoTemplate == {}
AllHashes == {h1, h2, h3, h4}

(* No two templates collide. *)
Injective ==
    [x \in GoodAndBad \X {0} |-> CASE x[1] = t1 -> h1 [] x[1] = t2 -> h2 [] x[1] = t3 -> h3]

(* t2 has the hash of t1, and another one after one collision. *)
Collide ==
    [x \in GoodAndBad \X (0..1) |->
       CASE x[1] = t3 -> h3
         [] x[1] = t1 -> IF x[2] = 0 THEN h1 ELSE h4
         [] x[1] = t2 -> IF x[2] = 0 THEN h1 ELSE h2]
=============================================================================
