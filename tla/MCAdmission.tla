----------------------------- MODULE MCAdmission ----------------------------
(* Small instances of Admission: two connections of one or of two nodes, to *)
(* a host with a policy.  A policy sees a token and capabilities alike: one *)
(* that may refuse for the latter stands for one that may for the former.   *)
EXTENDS Admission, TLC

CONSTANTS c1, c2, n1, n2, i1, i2, r1, r2, good, bad

\* The far ends: one node that connects again, or two nodes.
SameNode == c1 :> n1 @@ c2 :> n1
TwoNodes == c1 :> n1 @@ c2 :> n2

\* Every pair of a knot and a rope has a rope_id of its own, or all ropes that
\* connect share one.
Apart == i1 :> r1 @@ i2 :> r2
OneRope == i1 :> r1

TokenRequired ==
    [x \in Nodes \X Tokens \X CapSets |->
        IF x[2] = good THEN "ok" ELSE "InvalidToken"]

\* A validator that judges the capabilities of a node it does not know.
Custom ==
    [x \in Nodes \X Tokens \X CapSets |->
        IF x[2] # good THEN "InvalidToken"
        ELSE IF x[1] = n2 /\ x[3] = bad THEN "UnauthorizedCommand" ELSE "ok"]

=============================================================================
