----------------------------- MODULE StreamGate -----------------------------
(***************************************************************************)
(* What stream gating promises, whatever tasks and queues carry it out     *)
(* (docs/RATIONALE.md section 7, docs/COMPLIANCE.md section 3): the host   *)
(* hands out at most one grant per create_stream call, and a unidirectional *)
(* stream is opened by spending one unspent grant given for the same       *)
(* stream_id.  Frames reach the application only over such a stream.       *)
(*                                                                         *)
(* The protocol correlates a StreamAccepted with a call by stream_id       *)
(* alone, so a call may spend the grant of an earlier call that used the   *)
(* same id.  The specification says exactly that and no more.              *)
(***************************************************************************)

CONSTANTS
    Calls,      \* the calls of KnotClient::create_stream on one connection
    StreamOf,   \* the stream_id argument of each call
    NoCall      \* stands for "no grant"

VARIABLES
    asked,      \* calls that have been made
    granted,    \* calls whose StreamOpen the host has announced
    spent,      \* for each call, the grant its unidirectional stream used
    delivered   \* calls whose stream delivered a frame to the application

vars == <<asked, granted, spent, delivered>>

Init ==
    /\ asked = {}
    /\ granted = {}
    /\ spent = [c \in Calls |-> NoCall]
    /\ delivered = {}

\* The application calls create_stream.
Ask(c) ==
    /\ c \notin asked
    /\ asked' = asked \cup {c}
    /\ UNCHANGED <<granted, spent, delivered>>

\* The host announces the stream to the application and grants it, once.
Grant(c) ==
    /\ c \in asked \ granted
    /\ granted' = granted \cup {c}
    /\ UNCHANGED <<asked, spent, delivered>>

\* Call c opens its stream with grant g, which nobody has spent.
Open(c, g) ==
    /\ c \in asked
    /\ spent[c] = NoCall
    /\ g \in granted
    /\ StreamOf[g] = StreamOf[c]
    /\ \A d \in Calls : spent[d] # g
    /\ spent' = [spent EXCEPT ![c] = g]
    /\ UNCHANGED <<asked, granted, delivered>>

\* A frame of c's stream reaches the application.
Deliver(c) ==
    /\ spent[c] # NoCall
    /\ delivered' = delivered \cup {c}
    /\ UNCHANGED <<asked, granted, spent>>

Next ==
    \E c \in Calls :
        \/ Ask(c)
        \/ Grant(c)
        \/ \E g \in Calls : Open(c, g)
        \/ Deliver(c)

Spec == Init /\ [][Next]_vars

=============================================================================
