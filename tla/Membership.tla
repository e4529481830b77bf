----------------------------- MODULE Membership -----------------------------
(***************************************************************************)
(* What admission promises to both ends (handle_connection and             *)
(* tie_the_knot in src/lib.rs, and the hub that keeps a map of senders),   *)
(* without tasks, queues or losses: a peer claims a rope_id once, is       *)
(* admitted under a fresh connection_id only if no check fails, is         *)
(* answered once and accordingly, and enters the hub's registry once and   *)
(* leaves it at most once after that.                                      *)
(*                                                                         *)
(* The registry is by rope_id alone: a connection that enters replaces     *)
(* another of its rope_id, and one that leaves takes out whichever is      *)
(* there.  The specification says exactly that and no more.                *)
(***************************************************************************)

CONSTANTS
    Conns, RopeIds, ErrorCodes,
    NoId,   \* absence of a connection_id
    NoConn  \* absence of a connection

VARIABLES
    claim,   \* what each peer asked for, and the checks that it fails
    id,      \* the connection_id it was admitted under
    told,    \* the answer it received
    known,   \* what the hub's application has heard of it
    senders  \* the registry

vars == <<claim, id, told, known, senders>>

Nothing == [type |-> "Nothing"]

Init ==
    /\ claim = [c \in Conns |-> Nothing]
    /\ id = [c \in Conns |-> NoId]
    /\ told = [c \in Conns |-> Nothing]
    /\ known = [c \in Conns |-> "stranger"]
    /\ senders = [r \in RopeIds |-> NoConn]

Ask(c) ==
    /\ claim[c] = Nothing
    /\ \E r \in RopeIds, failed \in SUBSET ErrorCodes :
           claim' = [claim EXCEPT ![c] =
                        [type |-> "Tie", rope_id |-> r, failed |-> failed]]
    /\ UNCHANGED <<id, told, known, senders>>

\* Under an id that no connection was ever admitted under.
Admit(c) ==
    /\ claim[c] # Nothing /\ claim[c].failed = {} /\ id[c] = NoId
    /\ id' = [id EXCEPT ![c] = id'[c]]
    /\ \A d \in Conns : id'[c] # id[d]
    /\ UNCHANGED <<claim, told, known, senders>>

Answer(c) ==
    /\ told[c] = Nothing
    /\ \/ /\ id[c] # NoId
          /\ told' = [told EXCEPT ![c] =
                         [type |-> "Welcome", connection_id |-> id[c]]]
       \/ /\ id[c] = NoId /\ claim[c] # Nothing
          /\ \E code \in claim[c].failed :
                 told' = [told EXCEPT ![c] = [type |-> "Reject", reason |-> code]]
    /\ UNCHANGED <<claim, id, known, senders>>

\* RopeConnected is handled.
Enter(c) ==
    /\ known[c] = "stranger" /\ id[c] # NoId
    /\ known' = [known EXCEPT ![c] = "member"]
    /\ senders' = [senders EXCEPT ![claim[c].rope_id] = c]
    /\ UNCHANGED <<claim, id, told>>

\* RopeDisconnected is handled.
Leave(c) ==
    /\ known[c] = "member"
    /\ known' = [known EXCEPT ![c] = "parted"]
    /\ senders' = [senders EXCEPT ![claim[c].rope_id] = NoConn]
    /\ UNCHANGED <<claim, id, told>>

Next == \E c \in Conns : Ask(c) \/ Admit(c) \/ Answer(c) \/ Enter(c) \/ Leave(c)

Spec == Init /\ [][Next]_vars

=============================================================================
