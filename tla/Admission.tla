------------------------------ MODULE Admission ------------------------------
(***************************************************************************)
(* The handshakes of all connections of one host, and the registry its     *)
(* application keeps of them: tie_the_knot on each rope, the first half of *)
(* handle_connection on the host (src/lib.rs), and the map of senders that *)
(* the hub of examples/08_smart_home.rs maintains from the HubEvents which *)
(* all connections send into one channel.                                  *)
(*                                                                         *)
(* What happens between RopeConnected and RopeDisconnected is the matter   *)
(* of ControlChannel; here it is a connection that is served until its     *)
(* rope leaves or its transport fails.                                     *)
(*                                                                         *)
(* Abstractions.  A Tie is the facts the host looks at.  A JoinPolicy is   *)
(* the verdict it gives on a node, a token and a capability list, which    *)
(* covers ApproveAll, TokenRequired and Custom.  A connection_id is the    *)
(* value drawn from CONNECTION_COUNTER.                                    *)
(*                                                                         *)
(* An operator named Mut... is a deliberately wrong variant of the         *)
(* definition after it; nothing uses it but the mutation runs.             *)
(***************************************************************************)
EXTENDS Integers, Sequences, FiniteSets

CONSTANTS
    Conns,       \* connections that ropes open to the host
    Nodes,       \* authenticated transport identities
    NodeOf,      \* the node at the far end of each connection
    Foreign,     \* connections whose peer is not tie_the_knot
    Identities,  \* pairs of a knot_id and a rope_id
    RopeIds,     \* assigned_rope_ids
    AssignedId,  \* format!("{}_{}", knot_id, rope_id): not injective
    Tokens, CapSets,
    JoinPolicy,  \* its verdict on a node, a token and a capability list
    CapValidator,\* the capability lists cap_validator accepts
    NoConn       \* absence of a connection

ErrorCodes == {"InvalidToken", "DuplicateRopeId", "UnsupportedCapability",
               "UnauthorizedCommand", "StreamRejected", "ProtocolVersionMismatch"}

\* The connection_id of an Envelope sent before one is drawn.
pending == -1

\* Version 2 stands for every version but 1.
Ties == [type : {"Tie"}, node : Nodes, version : {1, 2}, identity : Identities,
         token : Tokens, caps : CapSets]

\* What a peer has not sent yet; a first message that is no Tie or not parsed.
Nothing == [type |-> "Nothing"]
Other   == [type |-> "Other"]

Welcome(id) == [type |-> "Welcome", connection_id |-> id]
Reject(code) == [type |-> "Reject", reason |-> code]

Answers == {Nothing} \cup [type : {"Welcome"}, connection_id : Nat]
                     \cup [type : {"Reject"}, reason : ErrorCodes]

Events == [type : {"RopeConnected", "RopeDisconnected"}, conn : Conns]

ASSUME AdmissionAssumption ==
    /\ NoConn \notin Conns
    /\ NodeOf \in [Conns -> Nodes] /\ Foreign \subseteq Conns
    /\ AssignedId \in [Identities -> RopeIds]
    /\ JoinPolicy \in [Nodes \X Tokens \X CapSets -> {"ok"} \cup ErrorCodes]
    /\ CapValidator \subseteq CapSets

VARIABLES
    \* host, per connection
    host,          \* where handle_connection is
    reason,        \* the code of the Reject it decided on
    connection_id, \* drawn for the Welcome
    CONNECTION_COUNTER,
    \* rope, per connection
    first,         \* the first message the peer sent
    rope,          \* where tie_the_knot is
    told,          \* the answer the peer received
    \* control stream and transport
    reply,         \* the host's answer on the wire
    lost,          \* connections whose transport has failed
    \* the host's application
    events,        \* HubEvents of all connections, not yet handled
    senders        \* whose control_sender the application holds per rope_id

hostVars == <<host, reason, connection_id, CONNECTION_COUNTER>>
ropeVars == <<rope, told, first>>
hubVars == <<events, senders>>
vars == <<hostVars, ropeVars, reply, lost, hubVars>>

TypeOK ==
    /\ host \in [Conns -> {"handshake", "rejecting", "approved", "welcomed",
                           "serving", "served", "gone"}]
    /\ reason \in [Conns -> {"ok"} \cup ErrorCodes]
    /\ connection_id \in [Conns -> Nat \cup {pending}]
    /\ CONNECTION_COUNTER \in Nat
    /\ first \in [Conns -> Ties \cup {Nothing, Other}]
    /\ rope \in [Conns -> {"idle", "tying", "joined", "left", "rejected", "failed"}]
    /\ told \in [Conns -> Answers] /\ reply \in [Conns -> Answers]
    /\ lost \subseteq Conns
    /\ events \in Seq(Events)
    /\ senders \in [RopeIds -> Conns \cup {NoConn}]

Init ==
    /\ host = [c \in Conns |-> "handshake"]
    /\ reason = [c \in Conns |-> "ok"]
    /\ connection_id = [c \in Conns |-> pending] /\ CONNECTION_COUNTER = 0
    /\ first = [c \in Conns |-> Nothing]
    /\ rope = [c \in Conns |-> "idle"]
    /\ told = [c \in Conns |-> Nothing]
    /\ reply = [c \in Conns |-> Nothing]
    /\ lost = {}
    /\ events = <<>>
    /\ senders = [r \in RopeIds |-> NoConn]

RopeId(c) == AssignedId[first[c].identity]

RopeGone(c) == rope[c] \in {"left", "rejected", "failed"}

Send(type, c) == events' = Append(events, [type |-> type, conn |-> c])

HostGoes(c, state) == host' = [host EXCEPT ![c] = state]

-----------------------------------------------------------------------------
(* handle_connection, up to the loop over streams                          *)

\* The capability validator is not asked when a policy has judged the list.
MutVerdict(c) ==
    LET tie    == first[c]
        policy == JoinPolicy[<<NodeOf[c], tie.token, tie.caps>>]
    IN  IF tie.node # NodeOf[c] THEN "InvalidToken"
        ELSE IF tie.version # 1 THEN "ProtocolVersionMismatch"
        ELSE policy

\* The checks in the code's order; the first that fails names the reason.
Verdict(c) ==
    LET tie    == first[c]
        policy == JoinPolicy[<<NodeOf[c], tie.token, tie.caps>>]
    IN  IF tie.node # NodeOf[c]              THEN "InvalidToken"
        ELSE IF tie.version # 1              THEN "ProtocolVersionMismatch"
        ELSE IF policy # "ok"                THEN policy
        ELSE IF tie.caps \notin CapValidator THEN "UnsupportedCapability"
        ELSE "ok"

HostReadTie(c) ==
    /\ host[c] = "handshake"
    /\ first[c].type = "Tie"
    /\ reason' = [reason EXCEPT ![c] = Verdict(c)]
    /\ HostGoes(c, IF Verdict(c) = "ok" THEN "approved" ELSE "rejecting")
    /\ UNCHANGED <<connection_id, CONNECTION_COUNTER, ropeVars, reply, lost,
                   hubVars>>

\* No handshake: the connection ends first, or begins with another message.
HostNoTie(c) ==
    /\ host[c] = "handshake"
    /\ first[c] = Other \/ c \in lost \/ RopeGone(c)
    /\ HostGoes(c, "gone")
    /\ UNCHANGED <<reason, connection_id, CONNECTION_COUNTER, ropeVars, reply,
                   lost, hubVars>>

\* The refusal is left for the peer to discover: the connection is not closed
\* before the peer hangs up.
MutHostReject(c) ==
    /\ host[c] = "rejecting"
    /\ c \in lost \/ RopeGone(c)
    /\ HostGoes(c, "gone")
    /\ UNCHANGED <<reason, connection_id, CONNECTION_COUNTER, ropeVars, reply,
                   lost, hubVars>>

\* Whether the Reject can be written is not looked at; the connection closes.
HostReject(c) ==
    /\ host[c] = "rejecting"
    /\ \/ reply' = [reply EXCEPT ![c] = Reject(reason[c])]
       \/ (c \in lost \/ RopeGone(c)) /\ UNCHANGED reply
    /\ HostGoes(c, "gone")
    /\ UNCHANGED <<reason, connection_id, CONNECTION_COUNTER, ropeVars, lost,
                   hubVars>>

\* The number of connections now served.
MutFreshId == Cardinality({c \in Conns : host[c] \in {"welcomed", "serving"}})

\* The counter is one ahead of the ids it has given.
MutFreshIdEarly == CONNECTION_COUNTER - 1

\* CONNECTION_COUNTER.fetch_add(1)
FreshId == CONNECTION_COUNTER

\* An id is drawn before the Welcome is written.
DrawId(c) ==
    /\ host[c] = "approved"
    /\ connection_id' = [connection_id EXCEPT ![c] = FreshId]
    /\ CONNECTION_COUNTER' = CONNECTION_COUNTER + 1

\* The Welcome may be written although nobody is left to read it.
HostWelcome(c) ==
    /\ DrawId(c)
    /\ reply' = [reply EXCEPT ![c] = Welcome(FreshId)]
    /\ HostGoes(c, "welcomed")
    /\ UNCHANGED <<reason, ropeVars, lost, hubVars>>

\* A rope that cannot be welcomed is reported as disconnected.
MutHostWelcomeFails(c) ==
    /\ DrawId(c)
    /\ c \in lost \/ RopeGone(c)
    /\ HostGoes(c, "gone")
    /\ Send("RopeDisconnected", c)
    /\ UNCHANGED <<reason, ropeVars, reply, lost, senders>>

HostWelcomeFails(c) ==
    /\ DrawId(c)
    /\ c \in lost \/ RopeGone(c)
    /\ HostGoes(c, "gone")
    /\ UNCHANGED <<reason, ropeVars, reply, lost, hubVars>>

\* RopeConnected, then the session directory.
HostServe(c) ==
    /\ host[c] = "welcomed"
    /\ Send("RopeConnected", c)
    /\ HostGoes(c, "serving")
    /\ UNCHANGED <<reason, connection_id, CONNECTION_COUNTER, ropeVars, reply,
                   lost, senders>>

\* The same when create_dir_all fails: no RopeDisconnected will follow.
HostServeFails(c) ==
    /\ host[c] = "welcomed"
    /\ Send("RopeConnected", c)
    /\ HostGoes(c, "gone")
    /\ UNCHANGED <<reason, connection_id, CONNECTION_COUNTER, ropeVars, reply,
                   lost, senders>>

\* No RopeDisconnected while another connection serves the rope_id.
MutHostEnds(c) ==
    /\ host[c] = "serving"
    /\ c \in lost \/ RopeGone(c)
    /\ IF \E d \in Conns \ {c} : host[d] = "serving" /\ RopeId(d) = RopeId(c)
       THEN UNCHANGED events
       ELSE Send("RopeDisconnected", c)
    /\ HostGoes(c, "served")
    /\ UNCHANGED <<reason, connection_id, CONNECTION_COUNTER, ropeVars, reply,
                   lost, senders>>

\* The accept loop or the control reader ends.
HostEnds(c) ==
    /\ host[c] = "serving"
    /\ c \in lost \/ RopeGone(c)
    /\ Send("RopeDisconnected", c)
    /\ HostGoes(c, "served")
    /\ UNCHANGED <<reason, connection_id, CONNECTION_COUNTER, ropeVars, reply,
                   lost, senders>>

-----------------------------------------------------------------------------
(* tie_the_knot                                                            *)

RopeGoes(c, state) == rope' = [rope EXCEPT ![c] = state]

\* tie_the_knot announces its own node and version 1.
SendTie(c) ==
    /\ rope[c] = "idle"
    /\ c \notin lost
    /\ \E m \in Ties : /\ c \notin Foreign => m.node = NodeOf[c] /\ m.version = 1
                       /\ first' = [first EXCEPT ![c] = m]
    /\ RopeGoes(c, "tying")
    /\ UNCHANGED <<hostVars, told, reply, lost, hubVars>>

\* A peer that does not speak the protocol.
SendOther(c) ==
    /\ rope[c] = "idle"
    /\ c \in Foreign \ lost
    /\ first' = [first EXCEPT ![c] = Other]
    /\ RopeGoes(c, "tying")
    /\ UNCHANGED <<hostVars, told, reply, lost, hubVars>>

ReceiveWelcome(c) ==
    /\ rope[c] = "tying"
    /\ reply[c].type = "Welcome"
    /\ told' = [told EXCEPT ![c] = reply[c]]
    /\ RopeGoes(c, "joined")
    /\ UNCHANGED <<hostVars, first, reply, lost, hubVars>>

ReceiveReject(c) ==
    /\ rope[c] = "tying"
    /\ reply[c].type = "Reject"
    /\ told' = [told EXCEPT ![c] = reply[c]]
    /\ RopeGoes(c, "rejected")
    /\ UNCHANGED <<hostVars, first, reply, lost, hubVars>>

\* The host has closed the connection, or it is lost: the Tie cannot be sent,
\* or its answer is never read, even when it was written.
TieFails(c) ==
    /\ rope[c] \in {"idle", "tying"}
    /\ c \in lost \/ host[c] = "gone"
    /\ RopeGoes(c, "failed")
    /\ UNCHANGED <<hostVars, told, first, reply, lost, hubVars>>

\* The caller drops the tie_the_knot future.
GiveUp(c) ==
    /\ rope[c] \in {"idle", "tying"}
    /\ RopeGoes(c, "failed")
    /\ UNCHANGED <<hostVars, told, first, reply, lost, hubVars>>

\* The KnotClient is dropped.
Leave(c) ==
    /\ rope[c] = "joined"
    /\ RopeGoes(c, "left")
    /\ UNCHANGED <<hostVars, told, first, reply, lost, hubVars>>

Lose(c) ==
    /\ c \notin lost
    /\ lost' = lost \cup {c}
    /\ UNCHANGED <<hostVars, ropeVars, reply, hubVars>>

-----------------------------------------------------------------------------
(* The application's on_event callback handles one event at a time: it     *)
(* inserts the sender under the rope_id, or removes what is under it.      *)

OnEvent ==
    /\ events # <<>>
    /\ LET e == Head(events) IN
           senders' = [senders EXCEPT ![RopeId(e.conn)] =
                           IF e.type = "RopeConnected" THEN e.conn ELSE NoConn]
    /\ events' = Tail(events)
    /\ UNCHANGED <<hostVars, ropeVars, reply, lost>>

-----------------------------------------------------------------------------

HandleConnection(c) ==
    \/ HostReadTie(c) \/ HostNoTie(c) \/ HostReject(c) \/ HostWelcome(c)
    \/ HostWelcomeFails(c) \/ HostServe(c) \/ HostServeFails(c) \/ HostEnds(c)

TieTheKnot(c) == ReceiveWelcome(c) \/ ReceiveReject(c) \/ TieFails(c)

Next ==
    \/ \E c \in Conns :
           \/ HandleConnection(c) \/ TieTheKnot(c)
           \/ SendTie(c) \/ SendOther(c) \/ GiveUp(c) \/ Leave(c) \/ Lose(c)
    \/ OnEvent

Spec == Init /\ [][Next]_vars

\* Tasks run until they end; what a rope's application does is its choice.
Fairness ==
    /\ \A c \in Conns : WF_vars(HandleConnection(c)) /\ WF_vars(TieTheKnot(c))
    /\ WF_vars(OnEvent)

FairSpec == Spec /\ Fairness

-----------------------------------------------------------------------------
(* Safety                                                                  *)

\* No two admissions share a connection_id, also when handshakes overlap, when
\* one of them fails after its id was drawn, or when an earlier connection is
\* gone; and the id a rope was told is the one the host knows it by.
UniqueConnectionIds ==
    /\ \A c, d \in Conns :
           connection_id[c] = connection_id[d] /\ connection_id[c] # pending => c = d
    /\ \A c \in Conns : told[c].type = "Welcome" => told[c] = Welcome(connection_id[c])

\* The checks a Tie can fail, with the code it is then refused with.
Failed(c) ==
    LET tie    == first[c]
        policy == JoinPolicy[<<NodeOf[c], tie.token, tie.caps>>]
    IN  {code \in ErrorCodes :
            \/ code = "InvalidToken" /\ tie.node # NodeOf[c]
            \/ code = "ProtocolVersionMismatch" /\ tie.version # 1
            \/ code = policy
            \/ code = "UnsupportedCapability" /\ tie.caps \notin CapValidator}

\* Both ends agree on who was admitted, and rightly so: the application only
\* ever hears of a peer, and a peer is only told of an id, when the peer's Tie
\* fails no check; and a peer is only refused with the code of a check it fails.
AdmissionIsRight ==
    \A c \in Conns :
        /\ host[c] \in {"serving", "served"} \/ told[c].type = "Welcome"
               => first[c].type = "Tie" /\ Failed(c) = {}
        /\ told[c].type = "Reject" => told[c].reason \in Failed(c)
        /\ \A i \in DOMAIN events : events[i].conn = c => told[c].type # "Reject"

Queued(type, c) ==
    \E i \in DOMAIN events : events[i] = [type |-> type, conn |-> c]

\* RopeConnected has been sent: to the end, or until create_dir_all failed.
WasAnnounced(c) ==
    host[c] \in {"serving", "served"} \/ (host[c] = "gone" /\ reply[c].type = "Welcome")

\* The registry holds the sender of a connection that is served under a served
\* rope_id, so that a rope alone under its own can be reached by itself,
\* whatever handshakes for the rope_id are refused, abandoned or lost
\* meanwhile.  Only another connection that was announced and is over puts an
\* end to that: the event of its end erases the rope_id, and one that
\* create_dir_all failed for, which has no such event, leaves its dead sender.
ServedIsReachable ==
    events = <<>> =>
        \A c \in Conns :
            /\ host[c] = "serving"
            /\ \A d \in Conns :
                   WasAnnounced(d) /\ RopeId(d) = RopeId(c) => host[d] = "serving"
            => \E d \in Conns : /\ senders[RopeId(c)] = d
                                /\ RopeId(d) = RopeId(c) /\ host[d] = "serving"

\* What the application has heard of a connection.
Known(c) ==
    IF ~WasAnnounced(c) \/ Queued("RopeConnected", c) THEN "stranger"
    ELSE IF host[c] = "served" /\ ~Queued("RopeDisconnected", c) THEN "parted"
    ELSE "member"

\* The application holds no sender of a connection whose end it has handled,
\* nor of one it has not heard of, however the events of connections that share
\* a rope_id fall between one another.
PartedAreForgotten ==
    \A r \in RopeIds : senders[r] # NoConn => Known(senders[r]) = "member"

\* Refinement: handshakes, replies, the counter and the queue of events
\* together keep the promise of Membership.
Members == INSTANCE Membership WITH
    claim <- [c \in Conns |->
                 IF first[c].type = "Tie"
                 THEN [type |-> "Tie", rope_id |-> RopeId(c), failed |-> Failed(c)]
                 ELSE Nothing],
    id    <- connection_id,
    NoId  <- pending,
    known <- [c \in Conns |-> Known(c)]

MembershipSpec == Members!Spec

-----------------------------------------------------------------------------
(* Liveness                                                                *)

\* tie_the_knot has no timeout, and still ends: the host answers whatever it
\* is sent, or hangs up on it.
HandshakeEnds == \A c \in Conns : rope[c] = "tying" ~> rope[c] # "tying"

\* Once a served connection has ended, the application comes to hold no sender
\* of it, and stays so, whatever connections of the same rope_id come and go.
DepartedForgotten ==
    \A c \in Conns :
        host[c] = "served" ~> [](\A r \in RopeIds : senders[r] # c)

-----------------------------------------------------------------------------
(* Statements of the documentation that the code does not keep: checked to *)
(* be violated.                                                            *)

\* docs/WIRE.md: a Tie for a rope_id of an active connection is refused with
\* DuplicateRopeId.  handle_connection keeps no table of rope_ids.
RopeIdHasOneNode ==
    \A c, d \in Conns :
        host[c] = "serving" /\ host[d] = "serving" /\ RopeId(c) = RopeId(d)
            => NodeOf[c] = NodeOf[d]

\* docs/COMPLIANCE.md: a rope that reconnects takes the registry entry over.
\* The RopeDisconnected of its old connection, which names the rope_id only,
\* removes the entry of the new one.
ReconnectedIsReachable ==
    events = <<>> =>
        \A c \in Conns : host[c] = "serving" => senders[RopeId(c)] # NoConn

=============================================================================
