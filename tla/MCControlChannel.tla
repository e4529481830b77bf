--------------------------- MODULE MCControlChannel -------------------------
(* Small instances of ControlChannel: which calls share a stream_id.        *)
EXTENDS ControlChannel, TLC

CONSTANTS c1, c2, s1

\* One call; two calls that reuse one stream_id.
OneCall == c1 :> s1
SameId == c1 :> s1 @@ c2 :> s1

\* With SameId the two calls are interchangeable.
SameIdSymmetry == Permutations({c1, c2})

=============================================================================
