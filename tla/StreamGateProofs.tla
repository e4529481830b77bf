-------------------------- MODULE StreamGateProofs --------------------------
(***************************************************************************)
(* A grant is spent once and its arrival wakes who waits for it, for any   *)
(* calls and any sharing of stream_ids among them; and ControlChannel      *)
(* implements StreamGate.                                                  *)
(***************************************************************************)
EXTENDS ControlChannelProofs

-----------------------------------------------------------------------------
(* The inductive invariant.  None of the safety properties is inductive     *)
(* alone: that a grant is spent once needs every request and every accept   *)
(* to be in one place only, wherever the tasks have carried it.             *)

\* Requests under way, and grants under way, by the place they are in.
Requested == In(control_rx, "StreamOpen")
Arriving == In(c2h, "StreamOpen")
Announcing == {accepting} \ {NoCall}
Accepted == In(control_sender_rx, "StreamAccepted")
Returning == In(h2c, "StreamAccepted")
Opened == In(hub_events, "StreamOpened")
Unsent == {c \in Calls : call[c] \in {"idle", "registered"}}

\* No queue holds two requests, or two grants, of one call.
NoDuplicates ==
    /\ Once(control_rx, "StreamOpen")
    /\ Once(c2h, "StreamOpen")
    /\ Once(control_sender_rx, "StreamAccepted")
    /\ Once(h2c, "StreamAccepted")

\* A call's request is in one place, and in none before it is sent or after
\* the host has announced the stream.
RequestInOnePlace ==
    /\ Requested \cap Arriving = {} /\ Requested \cap Unsent = {}
    /\ Requested \cap Opened = {} /\ Arriving \cap Unsent = {}
    /\ Arriving \cap Opened = {} /\ Unsent \cap Opened = {}
    /\ Requested \subseteq Calls /\ Arriving \subseteq Calls
    /\ Opened \subseteq Calls

\* A grant follows the announcement and is in one place, until it is used.
GrantInOnePlace ==
    /\ Announcing \cap Accepted = {} /\ Announcing \cap Returning = {}
    /\ Announcing \cap Used = {} /\ Accepted \cap Returning = {}
    /\ Accepted \cap Used = {} /\ Returning \cap Used = {}
    /\ Announcing \subseteq Opened /\ Accepted \subseteq Opened
    /\ Returning \subseteq Opened /\ Used \subseteq Opened

WaitersMatch ==
    \A s \in StreamIds :
        pending_streams[s] # NoCall => StreamOf[pending_streams[s]] = s

GrantInv ==
    /\ NoDuplicates
    /\ RequestInOnePlace
    /\ GrantInOnePlace
    /\ WaitersMatch
    /\ GrantsSpentOnce

-----------------------------------------------------------------------------
(* Steps that leave every request and grant where it is, or drop some.      *)

tokens == <<control_rx, c2h, accepting, control_sender_rx, h2c>>

\* Requests and grants may vanish anywhere without harm to GrantInv.
LEMMA GrantFrame ==
    ASSUME GrantInv, NoDuplicates', WaitersMatch',
           Requested' \subseteq Requested, Arriving' \subseteq Arriving,
           Announcing' \subseteq Announcing, Accepted' \subseteq Accepted,
           Returning' \subseteq Returning,
           Opened' = Opened, Unsent' \subseteq Unsent,
           UNCHANGED granted_by
    PROVE  GrantInv'
<1>1. Used' = Used
  BY DEF Used
<1>2. RequestInOnePlace'
  BY DEF GrantInv, RequestInOnePlace
<1>3. GrantInOnePlace'
  BY <1>1 DEF GrantInv, GrantInOnePlace
<1>4. GrantsSpentOnce'
  BY DEF GrantInv, GrantsSpentOnce
<1> QED
  BY <1>2, <1>3, <1>4 DEF GrantInv

\* Requests and grants are where they were when no queue has changed.
LEMMA TokensUnchanged ==
    ASSUME UNCHANGED tokens
    PROVE  /\ Requested' = Requested /\ Arriving' = Arriving
           /\ Announcing' = Announcing /\ Accepted' = Accepted
           /\ Returning' = Returning
           /\ NoDuplicates => NoDuplicates'
  BY DEF tokens, Requested, Arriving, Announcing, Accepted, Returning,
         NoDuplicates

\* No message moves; the log gains no StreamOpened; no call is made.
LEMMA GrantStutter ==
    ASSUME GrantInv, UNCHANGED <<tokens, pending_streams, granted_by>>,
           Opened' = Opened, Unsent' \subseteq Unsent
    PROVE  GrantInv'
<1>1. WaitersMatch'
  BY DEF GrantInv, WaitersMatch
<1> QED
  BY <1>1, TokensUnchanged, GrantFrame DEF GrantInv

\* One queue changes, keeping what it holds of requests and grants or losing
\* some of it.
LEMMA GrantQueueStep ==
    ASSUME GrantInv, UNCHANGED <<accepting, pending_streams, granted_by, call>>,
           Opened' = Opened,
           Requested' \subseteq Requested, Once(control_rx', "StreamOpen"),
           Arriving' \subseteq Arriving, Once(c2h', "StreamOpen"),
           Accepted' \subseteq Accepted, Once(control_sender_rx', "StreamAccepted"),
           Returning' \subseteq Returning, Once(h2c', "StreamAccepted")
    PROVE  GrantInv'
<1>1. WaitersMatch'
  BY DEF GrantInv, WaitersMatch
<1>2. NoDuplicates'
  BY DEF NoDuplicates
<1>3. Announcing' = Announcing /\ Unsent' = Unsent
  BY DEF Announcing, Unsent
<1> QED
  BY <1>1, <1>2, <1>3, GrantFrame

-----------------------------------------------------------------------------
(* Every step preserves GrantInv: first the steps that move no message.     *)

\* What an action of a task says of the variables GrantInv is about.
grantVars == <<tokens, pending_streams, granted_by>>

\* An event other than StreamOpened announces no stream.
LEMMA EventsOther ==
    ASSUME TypeInv, NEW e \in HubEvents, e.type # "StreamOpened",
           hub_events' = Append(hub_events, e)
    PROVE  Opened' = Opened
<1>1. In(Append(hub_events, e), "StreamOpened") =
          In(hub_events, "StreamOpened")
            \cup (IF e.type = "StreamOpened" THEN {e.call} ELSE {})
  BY LogAppend DEF TypeInv, TypeOK
<1> QED
  BY <1>1 DEF Opened

\* RopeDisconnected announces no stream.
LEMMA AnnounceGoneOther ==
    ASSUME TypeInv, AnnounceGone
    PROVE  Opened' = Opened
<1>1. CASE flag_reader
  BY <1>1 DEF AnnounceGone, Opened
<1>2. CASE ~flag_reader
  <2>1. hub_events' = Append(hub_events, Plain("RopeDisconnected"))
    BY <1>2 DEF AnnounceGone
  <2>2. Plain("RopeDisconnected") \in HubEvents
        /\ Plain("RopeDisconnected").type # "StreamOpened"
    BY EventLaws, MessageFields
  <2> QED
    BY <2>1, <2>2, EventsOther
<1> QED
  BY <1>1, <1>2

\* The steps of the tasks that touch no request and no grant, or drop some.
LEMMA GrantQuietStep ==
    ASSUME TypeInv, GrantInv,
           \/ HostWelcomeFails \/ HostServe \/ HostServeFails
           \/ AcceptUni \/ AcceptEnds \/ HostReadEnds
           \/ TieFails \/ GiveUp \/ ClientReadEnds \/ NextEvent
           \/ CloneTx \/ DropClone \/ DropClient \/ HubDropSender \/ Lose
           \/ \E c \in Calls :
                  HandleStream(c) \/ AwaitFails(c) \/ OpenUni(c)
                  \/ OpenUniFails(c) \/ SendConfig(c) \/ SendConfigFails(c)
                  \/ SendOpenFails(c)
                  \/ Cancel(c) \/ WriteFrame(c) \/ DropStream(c)
           \/ UNCHANGED vars
    PROVE  GrantInv'
<1> USE DEF conn, hostTasks, hub, hostVars, clientTasks, clientVars,
              callVars, ropeVars, frames, uniVars, pipes, budgets, env,
            grantVars, tokens, TypeInv
<1>1. CASE HostWelcomeFails
  <2>1. UNCHANGED <<grantVars, hub_events, call>>
    BY <1>1 DEF HostWelcomeFails
  <2> QED
    BY <2>1, GrantStutter DEF Opened, Unsent
<1>2. CASE AcceptUni
  <2>1. UNCHANGED <<grantVars, hub_events, call>>
    BY <1>2 DEF AcceptUni
  <2> QED
    BY <2>1, GrantStutter DEF Opened, Unsent
<1>3. CASE TieFails
  <2>1. UNCHANGED <<grantVars, hub_events, call>>
    BY <1>3 DEF TieFails, AbandonTie
  <2> QED
    BY <2>1, GrantStutter DEF Opened, Unsent
<1>4. CASE GiveUp
  <2>1. UNCHANGED <<grantVars, hub_events, call>>
    BY <1>4 DEF GiveUp, AbandonTie
  <2> QED
    BY <2>1, GrantStutter DEF Opened, Unsent
<1>5. CASE ClientReadEnds
  <2>1. UNCHANGED <<grantVars, hub_events, call>>
    BY <1>5 DEF ClientReadEnds
  <2> QED
    BY <2>1, GrantStutter DEF Opened, Unsent
<1>6. CASE NextEvent
  <2>1. UNCHANGED <<grantVars, hub_events, call>>
    BY <1>6 DEF NextEvent
  <2> QED
    BY <2>1, GrantStutter DEF Opened, Unsent
<1>7. CASE CloneTx
  <2>1. UNCHANGED <<grantVars, hub_events, call>>
    BY <1>7 DEF CloneTx
  <2> QED
    BY <2>1, GrantStutter DEF Opened, Unsent
<1>8. CASE DropClone
  <2>1. UNCHANGED <<grantVars, hub_events, call>>
    BY <1>8 DEF DropClone
  <2> QED
    BY <2>1, GrantStutter DEF Opened, Unsent
<1>9. CASE DropClient
  <2>1. UNCHANGED <<grantVars, hub_events, call>>
    BY <1>9 DEF DropClient
  <2> QED
    BY <2>1, GrantStutter DEF Opened, Unsent
<1>10. CASE HubDropSender
  <2>1. UNCHANGED <<grantVars, hub_events, call>>
    BY <1>10 DEF HubDropSender
  <2> QED
    BY <2>1, GrantStutter DEF Opened, Unsent
<1>11. CASE Lose
  <2>1. UNCHANGED <<grantVars, hub_events, call>>
    BY <1>11 DEF Lose
  <2> QED
    BY <2>1, GrantStutter DEF Opened, Unsent
<1>12. CASE HostServe
  <2>1. /\ UNCHANGED <<grantVars, call>>
        /\ hub_events' = Append(hub_events, Message("RopeConnected", NoCall))
    BY <1>12 DEF HostServe, Announce
  <2>2. Message("RopeConnected", NoCall) \in HubEvents
        /\ Message("RopeConnected", NoCall).type # "StreamOpened"
    BY EventLaws, MessageFields
  <2>3. Opened' = Opened
    BY <2>1, <2>2, EventsOther
  <2> QED
    BY <2>1, <2>3, GrantStutter DEF Unsent
<1>13. CASE HostServeFails
  <2>1. /\ UNCHANGED <<grantVars, call>>
        /\ hub_events' = Append(hub_events, Message("RopeConnected", NoCall))
    BY <1>13 DEF HostServeFails, Announce
  <2>2. Message("RopeConnected", NoCall) \in HubEvents
        /\ Message("RopeConnected", NoCall).type # "StreamOpened"
    BY EventLaws, MessageFields
  <2>3. Opened' = Opened
    BY <2>1, <2>2, EventsOther
  <2> QED
    BY <2>1, <2>3, GrantStutter DEF Unsent
<1>14. CASE AcceptEnds
  <2>1. UNCHANGED <<grantVars, call>> /\ AnnounceGone
    BY <1>14 DEF AcceptEnds
  <2>2. Opened' = Opened
    BY <2>1, AnnounceGoneOther
  <2> QED
    BY <2>1, <2>2, GrantStutter DEF Unsent
<1>15. CASE HostReadEnds
  <2>1. UNCHANGED <<grantVars, call>> /\ AnnounceGone
    BY <1>15 DEF HostReadEnds
  <2>2. Opened' = Opened
    BY <2>1, AnnounceGoneOther
  <2> QED
    BY <2>1, <2>2, GrantStutter DEF Unsent
<1>16. ASSUME NEW c \in Calls, HandlerFrame(c)
      PROVE  GrantInv'
  <2>1. /\ UNCHANGED <<grantVars, call>>
        /\ hub_events' = Append(hub_events, Message("FrameReceived", c))
    BY <1>16 DEF HandlerFrame, Announce
  <2>2. Message("FrameReceived", c) \in HubEvents
        /\ Message("FrameReceived", c).type # "StreamOpened"
    BY EventLaws, MessageFields
  <2>3. Opened' = Opened
    BY <2>1, <2>2, EventsOther
  <2> QED
    BY <2>1, <2>3, GrantStutter DEF Unsent
<1>17. ASSUME NEW c \in Calls, HandleStream(c), ~HandlerFrame(c)
      PROVE  GrantInv'
  <2>1. UNCHANGED <<grantVars, hub_events, call>>
    BY <1>17 DEF HandleStream, HandlerOpens, HandlerEnds, HandlerNoConfig,
                HandlerFails, HandlerStep
  <2> QED
    BY <2>1, GrantStutter DEF Opened, Unsent
<1>18. ASSUME NEW c \in Calls, WriteFrame(c)
      PROVE  GrantInv'
  <2>1. UNCHANGED <<grantVars, hub_events, call>>
    BY <1>18 DEF WriteFrame
  <2> QED
    BY <2>1, GrantStutter DEF Opened, Unsent
<1>19. ASSUME NEW c \in Calls,
             \/ AwaitFails(c) \/ OpenUni(c) \/ OpenUniFails(c)
             \/ SendConfig(c) \/ SendConfigFails(c) \/ SendOpenFails(c)
             \/ Cancel(c) \/ DropStream(c)
      PROVE  GrantInv'
  <2>1. UNCHANGED <<grantVars, hub_events>>
    BY <1>19 DEF AwaitFails, OpenUni, OpenUniFails, SendConfig,
                SendConfigFails, SendOpenFails, Cancel, DropStream, CallStep
  <2>2. PICK state \in {"configuring", "open", "closed", "failed", "cancelled"} :
            call' = [call EXCEPT ![c] = state]
    BY <1>19 DEF AwaitFails, OpenUni, OpenUniFails, SendConfig,
                SendConfigFails, SendOpenFails, Cancel, DropStream, CallStep,
                SetCall
  <2>3. Unsent' \subseteq Unsent
    BY <2>2 DEF Unsent, TypeOK
  <2> QED
    BY <2>1, <2>3, GrantStutter DEF Opened
<1>20. CASE UNCHANGED vars
  <2>1. UNCHANGED <<grantVars, hub_events, call>>
    BY <1>20 DEF vars
  <2> QED
    BY <2>1, GrantStutter DEF Opened, Unsent
<1> HIDE DEF TypeInv
<1> QED
  BY <1>1, <1>2, <1>3, <1>4, <1>5, <1>6, <1>7, <1>8, <1>9, <1>10, <1>11, <1>12, <1>13, <1>14, <1>15, <1>16, <1>17, <1>18, <1>19, <1>20

-----------------------------------------------------------------------------
(* The steps that move messages but no request and no grant, or lose some.  *)

\* Carrying other messages over the control stream moves no request or grant.
LEMMA GrantOtherMessage ==
    ASSUME TypeInv, GrantInv,
           \/ HostWelcome \/ HostReadPing \/ HostReadEvent \/ HostReadOther
           \/ HostSendEnds \/ HubSend
           \/ ReceiveWelcome \/ ClientWriteEnds
           \/ ClientReadPing \/ ClientReadPong \/ ClientReadOther \/ ClientSend
    PROVE  GrantInv'
<1> USE DEF conn, hostTasks, hub, hostVars, clientTasks, clientVars,
              callVars, ropeVars, frames, uniVars, pipes, budgets, env
<1>q. /\ c2h \in MessageQueue /\ h2c \in MessageQueue
      /\ control_rx \in MessageQueue /\ control_sender_rx \in MessageQueue
  BY DEF TypeInv, TypeOK
<1>o. /\ Once(control_rx, "StreamOpen") /\ Once(c2h, "StreamOpen")
      /\ Once(control_sender_rx, "StreamAccepted")
      /\ Once(h2c, "StreamAccepted")
  BY DEF GrantInv, NoDuplicates
<1>1. CASE HostWelcome
  <2>1. /\ h2c' = Enqueue(h2c, TRUE, Plain("Welcome"))
        /\ UNCHANGED <<control_rx, c2h, accepting, control_sender_rx,
                       pending_streams, granted_by, call, hub_events>>
    BY <1>1 DEF HostWelcome, Enqueue
  <2>2. Returning' = Returning /\ Once(h2c', "StreamAccepted")
    BY <1>q, <1>o, <2>1, EnqueueOther, MessageLaws, MessageFields DEF Returning
  <2> QED
    BY <1>o, <2>1, <2>2, GrantQueueStep DEF Requested, Arriving, Accepted, Opened
<1>2. ASSUME NEW type, type # "StreamOpen", HostReads(type)
      PROVE  Arriving' = Arriving /\ Once(c2h', "StreamOpen")
  <2>1. c2h # <<>> /\ Head(c2h).type = type /\ c2h' = Tail(c2h)
    BY <1>2 DEF HostReads
  <2> QED
    BY <1>q, <1>o, <1>2, <2>1, TailOther DEF Arriving
<1>3. CASE HostReadPing
  <2>1. /\ control_sender_rx' = Enqueue(control_sender_rx, host_sender, Plain("Pong"))
        /\ UNCHANGED <<control_rx, accepting, h2c, pending_streams, granted_by,
                       call, hub_events>>
    BY <1>3 DEF HostReadPing
  <2>2. Arriving' = Arriving /\ Once(c2h', "StreamOpen")
    BY <1>2, <1>3 DEF HostReadPing
  <2>3. Accepted' = Accepted /\ Once(control_sender_rx', "StreamAccepted")
    BY <1>q, <1>o, <2>1, EnqueueOther, MessageLaws, MessageFields DEF Accepted
  <2> QED
    BY <1>o, <2>1, <2>2, <2>3, GrantQueueStep DEF Requested, Returning, Opened
<1>4. CASE HostReadEvent
  <2>1. /\ UNCHANGED <<control_rx, accepting, control_sender_rx, h2c,
                       pending_streams, granted_by, call>>
        /\ hub_events' = Append(hub_events, Message("EventReceived", NoCall))
    BY <1>4 DEF HostReadEvent, Announce
  <2>2. Arriving' = Arriving /\ Once(c2h', "StreamOpen")
    BY <1>2, <1>4 DEF HostReadEvent
  <2>3. Opened' = Opened
    BY <2>1, EventsOther, EventLaws, MessageFields
  <2> QED
    BY <1>o, <2>1, <2>2, <2>3, GrantQueueStep DEF Requested, Accepted, Returning
<1>5. CASE HostReadOther
  <2>1. UNCHANGED <<control_rx, accepting, control_sender_rx, h2c,
                    pending_streams, granted_by, call, hub_events>>
    BY <1>5 DEF HostReadOther
  <2>2. PICK type \in {"Ack", "Pong"} : HostReads(type)
    BY <1>5 DEF HostReadOther
  <2>3. Arriving' = Arriving /\ Once(c2h', "StreamOpen")
    BY <1>2, <2>2
  <2> QED
    BY <1>o, <2>1, <2>3, GrantQueueStep
    DEF Requested, Accepted, Returning, Opened
<1>6. CASE HostSendEnds
  <2>1. /\ control_sender_rx' = <<>>
        /\ UNCHANGED <<control_rx, c2h, accepting, h2c, pending_streams,
                       granted_by, call, hub_events>>
    BY <1>6 DEF HostSendEnds
  <2>2. Accepted' = {} /\ Once(control_sender_rx', "StreamAccepted")
    BY <2>1, EmptyQueue DEF Accepted
  <2> QED
    BY <1>o, <2>1, <2>2, GrantQueueStep DEF Requested, Arriving, Returning, Opened
<1>7. CASE HubSend
  <2>1. PICK kind \in HubKinds :
            control_sender_rx' = Enqueue(control_sender_rx, host_sender, Plain(kind))
    BY <1>7 DEF HubSend
  <2>2. UNCHANGED <<control_rx, c2h, accepting, h2c, pending_streams,
                    granted_by, call, hub_events>>
    BY <1>7 DEF HubSend
  <2>3. Plain(kind) \in Messages /\ Plain(kind).type # "StreamAccepted"
    BY MessageLaws, MessageFields, ConstantsAssumption DEF ConstantsAssumption
  <2>4. Accepted' = Accepted /\ Once(control_sender_rx', "StreamAccepted")
    BY <1>q, <1>o, <2>1, <2>3, EnqueueOther DEF Accepted
  <2> QED
    BY <1>o, <2>2, <2>4, GrantQueueStep DEF Requested, Arriving, Returning, Opened
<1>8. ASSUME h2c # <<>>, Head(h2c).type # "StreamAccepted", h2c' = Tail(h2c)
      PROVE  Returning' = Returning /\ Once(h2c', "StreamAccepted")
  BY <1>q, <1>o, <1>8, TailOther DEF Returning
<1>9. CASE ReceiveWelcome
  <2>1. UNCHANGED <<control_rx, c2h, accepting, control_sender_rx,
                    pending_streams, granted_by, call, hub_events>>
    BY <1>9 DEF ReceiveWelcome
  <2>2. Returning' = Returning /\ Once(h2c', "StreamAccepted")
    BY <1>8, <1>9 DEF ReceiveWelcome
  <2> QED
    BY <1>o, <2>1, <2>2, GrantQueueStep DEF Requested, Arriving, Accepted, Opened
<1>10. CASE ClientWriteEnds
  <2>1. /\ control_rx' = <<>>
        /\ UNCHANGED <<c2h, accepting, control_sender_rx, h2c, pending_streams,
                       granted_by, call, hub_events>>
    BY <1>10 DEF ClientWriteEnds
  <2>2. Requested' = {} /\ Once(control_rx', "StreamOpen")
    BY <2>1, EmptyQueue DEF Requested
  <2> QED
    BY <1>o, <2>1, <2>2, GrantQueueStep DEF Arriving, Accepted, Returning, Opened
<1>11. CASE ClientReadPing
  <2>1. /\ control_rx' = Enqueue(control_rx, client_writer, Plain("Pong"))
        /\ UNCHANGED <<c2h, accepting, control_sender_rx, pending_streams,
                       granted_by, call, hub_events>>
    BY <1>11 DEF ClientReadPing
  <2>2. Returning' = Returning /\ Once(h2c', "StreamAccepted")
    BY <1>8, <1>11 DEF ClientReadPing, ClientReads
  <2>3. Requested' = Requested /\ Once(control_rx', "StreamOpen")
    BY <1>q, <1>o, <2>1, EnqueueOther, MessageLaws, MessageFields DEF Requested
  <2> QED
    BY <1>o, <2>1, <2>2, <2>3, GrantQueueStep DEF Arriving, Accepted, Opened
<1>12. CASE ClientReadPong \/ ClientReadOther
  <2>1. UNCHANGED <<control_rx, c2h, accepting, control_sender_rx,
                    pending_streams, granted_by, call, hub_events>>
    BY <1>12 DEF ClientReadPong, ClientReadOther
  <2>2. Returning' = Returning /\ Once(h2c', "StreamAccepted")
    BY <1>8, <1>12 DEF ClientReadPong, ClientReadOther, ClientReads
  <2> QED
    BY <1>o, <2>1, <2>2, GrantQueueStep DEF Requested, Arriving, Accepted, Opened
<1>13. CASE ClientSend
  <2>1. PICK kind \in ClientKinds :
            control_rx' = Enqueue(control_rx, client_writer, Plain(kind))
    BY <1>13 DEF ClientSend
  <2>2. UNCHANGED <<c2h, accepting, control_sender_rx, h2c, pending_streams,
                    granted_by, call, hub_events>>
    BY <1>13 DEF ClientSend
  <2>3. Plain(kind) \in Messages /\ Plain(kind).type # "StreamOpen"
    BY MessageLaws, MessageFields, ConstantsAssumption DEF ConstantsAssumption
  <2>4. Requested' = Requested /\ Once(control_rx', "StreamOpen")
    BY <1>q, <1>o, <2>1, <2>3, EnqueueOther DEF Requested
  <2> QED
    BY <1>o, <2>2, <2>4, GrantQueueStep DEF Arriving, Accepted, Returning, Opened
<1> QED
  BY <1>1, <1>3, <1>4, <1>5, <1>6, <1>7, <1>9, <1>10, <1>11, <1>12, <1>13

-----------------------------------------------------------------------------
(* The steps on the route of a request and of its grant, in order.          *)

\* A call registers before it has a request anywhere.
LEMMA GrantRegister ==
    ASSUME TypeInv, GrantInv, NEW c \in Calls, Register(c)
    PROVE  GrantInv'
<1> USE DEF conn, hostTasks, hub, hostVars, clientTasks, clientVars,
              callVars, ropeVars, frames, uniVars, pipes, budgets, env
<1>1. /\ UNCHANGED <<tokens, granted_by, hub_events>>
      /\ call[c] = "idle" /\ call' = [call EXCEPT ![c] = "registered"]
      /\ pending_streams' = [pending_streams EXCEPT ![StreamOf[c]] = c]
  BY DEF Register, SetCall, tokens
<1>2. Unsent' = Unsent
  BY <1>1 DEF Unsent, TypeInv, TypeOK
<1>3. WaitersMatch'
  BY <1>1, ConstantsAssumption
  DEF ConstantsAssumption, GrantInv, WaitersMatch, TypeInv, TypeOK
<1>4. Opened' = Opened
  BY <1>1 DEF Opened
<1> QED
  BY <1>1, <1>2, <1>3, <1>4, TokensUnchanged, GrantFrame DEF GrantInv

\* Sending StreamOpen puts the request in its first place.
LEMMA GrantSendOpen ==
    ASSUME TypeInv, GrantInv, NEW c \in Calls, SendOpen(c)
    PROVE  GrantInv'
<1> USE DEF conn, hostTasks, hub, hostVars, clientTasks, clientVars,
              callVars, ropeVars, frames, uniVars, pipes, budgets, env
<1>1. /\ UNCHANGED <<c2h, accepting, control_sender_rx, h2c, hub_events,
                     pending_streams, granted_by>>
      /\ call[c] = "registered" /\ call' = [call EXCEPT ![c] = "waiting"]
      /\ control_rx' = Append(control_rx, Message("StreamOpen", c))
  BY DEF SendOpen, SetCall
<1>2. c \in Unsent /\ Unsent' \subseteq Unsent \ {c}
  BY <1>1 DEF Unsent, TypeInv, TypeOK
<1>3. c \notin Requested /\ c \notin Arriving /\ c \notin Opened
  BY <1>2 DEF GrantInv, RequestInOnePlace
<1>4. control_rx \in MessageQueue /\ Once(control_rx, "StreamOpen")
  BY DEF TypeInv, TypeOK, GrantInv, NoDuplicates
<1>5. Requested' = Requested \cup {c} /\ Once(control_rx', "StreamOpen")
  <2>1. /\ Message("StreamOpen", c) \in Messages
        /\ Message("StreamOpen", c).type = "StreamOpen"
        /\ Message("StreamOpen", c).call = c
    BY MessageLaws, MessageFields
  <2>2. /\ In(control_rx', "StreamOpen") = In(control_rx, "StreamOpen") \cup {c}
        /\ c \notin In(control_rx, "StreamOpen") => Once(control_rx', "StreamOpen")
    BY <1>1, <1>4, <2>1, AppendToken
  <2> QED
    BY <1>3, <2>2 DEF Requested
<1>6. /\ Arriving' = Arriving /\ Announcing' = Announcing
      /\ Accepted' = Accepted /\ Returning' = Returning
      /\ Opened' = Opened /\ Used' = Used
  BY <1>1 DEF Arriving, Announcing, Accepted, Returning, Opened, Used
<1>7. RequestInOnePlace'
  BY <1>2, <1>3, <1>5, <1>6 DEF GrantInv, RequestInOnePlace
<1>8. GrantInOnePlace' /\ NoDuplicates' /\ WaitersMatch' /\ GrantsSpentOnce'
  BY <1>1, <1>5, <1>6
  DEF GrantInv, GrantInOnePlace, NoDuplicates, WaitersMatch, GrantsSpentOnce
<1> QED
  BY <1>7, <1>8 DEF GrantInv

\* The writer task moves a request to the wire, in order.
LEMMA GrantClientWrite ==
    ASSUME TypeInv, GrantInv, ClientWrite
    PROVE  GrantInv'
<1> USE DEF conn, hostTasks, hub, hostVars, clientTasks, clientVars,
              callVars, ropeVars, frames, uniVars, pipes, budgets, env
<1> DEFINE m == Head(control_rx)
<1>1. /\ UNCHANGED <<accepting, control_sender_rx, h2c, hub_events, call,
                     pending_streams, granted_by>>
      /\ control_rx # <<>> /\ control_rx' = Tail(control_rx)
      /\ c2h' = Append(c2h, m)
  BY DEF ClientWrite
<1>2. /\ control_rx \in MessageQueue /\ c2h \in MessageQueue
      /\ m \in Messages
      /\ Once(control_rx, "StreamOpen") /\ Once(c2h, "StreamOpen")
      /\ Once(control_sender_rx, "StreamAccepted") /\ Once(h2c, "StreamAccepted")
  BY <1>1, QueueLaws DEF TypeInv, TypeOK, GrantInv, NoDuplicates
<1>3. CASE m.type # "StreamOpen"
  <2>1. Requested' = Requested /\ Once(control_rx', "StreamOpen")
    BY <1>1, <1>2, <1>3, TailOther DEF Requested
  <2>2. Arriving' = Arriving /\ Once(c2h', "StreamOpen")
    BY <1>1, <1>2, <1>3, EnqueueOther DEF Arriving, Enqueue
  <2> QED
    BY <1>1, <1>2, <2>1, <2>2, GrantQueueStep DEF Accepted, Returning, Opened
<1>4. CASE m.type = "StreamOpen"
  <2>1. /\ Requested = Requested' \cup {m.call} /\ m.call \notin Requested'
        /\ Once(control_rx', "StreamOpen")
    BY <1>1, <1>2, <1>4, TailToken DEF Requested
  <2>2. m.call \notin Arriving
    BY <2>1 DEF GrantInv, RequestInOnePlace
  <2>3. Arriving' = Arriving \cup {m.call} /\ Once(c2h', "StreamOpen")
    BY <1>1, <1>2, <1>4, <2>2, AppendToken DEF Arriving
  <2>4. /\ Announcing' = Announcing /\ Unsent' = Unsent
        /\ Accepted' = Accepted /\ Returning' = Returning
        /\ Opened' = Opened /\ Used' = Used
    BY <1>1 DEF Announcing, Unsent, Accepted, Returning, Opened, Used
  <2>5. RequestInOnePlace'
    BY <2>1, <2>3, <2>4 DEF GrantInv, RequestInOnePlace
  <2>6. GrantInOnePlace'
    BY <2>4 DEF GrantInv, GrantInOnePlace
  <2>7. NoDuplicates' /\ WaitersMatch' /\ GrantsSpentOnce'
    BY <1>1, <1>2, <2>1, <2>3
    DEF GrantInv, NoDuplicates, WaitersMatch, GrantsSpentOnce
  <2> QED
    BY <2>5, <2>6, <2>7 DEF GrantInv
<1> QED
  BY <1>3, <1>4

\* The host turns a request into an announcement, which is a grant.
LEMMA GrantHostReadOpen ==
    ASSUME TypeInv, GrantInv, HostReadOpen
    PROVE  /\ GrantInv'
           /\ Head(c2h).call \in Arriving
           /\ Opened' = Opened \cup {Head(c2h).call}
<1> USE DEF conn, hostTasks, hub, hostVars, clientTasks, clientVars,
              callVars, ropeVars, frames, uniVars, pipes, budgets, env
<1> DEFINE c == Head(c2h).call
<1>1. /\ UNCHANGED <<control_rx, control_sender_rx, h2c, call,
                     pending_streams, granted_by>>
      /\ c2h # <<>> /\ Head(c2h).type = "StreamOpen" /\ c2h' = Tail(c2h)
      /\ accepting = NoCall /\ accepting' = c
      /\ hub_events' = Append(hub_events, Message("StreamOpened", c))
  BY DEF HostReadOpen, HostReads, Announce
<1>2. c2h \in MessageQueue /\ Once(c2h, "StreamOpen") /\ hub_events \in EventLog
  BY DEF TypeInv, TypeOK, GrantInv, NoDuplicates
<1>3. /\ Arriving = Arriving' \cup {c} /\ c \notin Arriving'
      /\ Once(c2h', "StreamOpen")
  BY <1>1, <1>2, TailToken DEF Arriving
<1>4. c \in Calls /\ c # NoCall /\ c \notin Opened /\ c \notin Requested
      /\ c \notin Unsent
  BY <1>3, ConstantsAssumption DEF ConstantsAssumption, GrantInv, RequestInOnePlace
<1>5. Opened' = Opened \cup {c}
  <2>1. Message("StreamOpened", c) \in HubEvents
    BY <1>4, EventLaws
  <2>2. In(Append(hub_events, Message("StreamOpened", c)), "StreamOpened") =
            In(hub_events, "StreamOpened") \cup {c}
    BY <1>2, <2>1, LogAppend, MessageFields
  <2> QED
    BY <1>1, <2>2 DEF Opened
<1>6. Announcing = {} /\ Announcing' = {c}
  BY <1>1, <1>4 DEF Announcing
<1>7. /\ Requested' = Requested /\ Unsent' = Unsent
      /\ Accepted' = Accepted /\ Returning' = Returning /\ Used' = Used
  BY <1>1 DEF Requested, Unsent, Accepted, Returning, Used
<1>8. RequestInOnePlace'
  BY <1>3, <1>4, <1>5, <1>7 DEF GrantInv, RequestInOnePlace
<1>9. GrantInOnePlace'
  BY <1>4, <1>5, <1>6, <1>7 DEF GrantInv, GrantInOnePlace
<1>10. NoDuplicates' /\ WaitersMatch' /\ GrantsSpentOnce'
  BY <1>1, <1>3 DEF GrantInv, NoDuplicates, WaitersMatch, GrantsSpentOnce
<1> QED
  BY <1>3, <1>5, <1>8, <1>9, <1>10 DEF GrantInv

\* Announcing turns into a StreamAccepted on its way.
LEMMA GrantHostAccept ==
    ASSUME TypeInv, GrantInv, HostAccept
    PROVE  GrantInv'
<1> USE DEF conn, hostTasks, hub, hostVars, clientTasks, clientVars,
              callVars, ropeVars, frames, uniVars, pipes, budgets, env
<1>1. /\ UNCHANGED <<control_rx, c2h, h2c, call, hub_events, pending_streams,
                     granted_by>>
      /\ accepting # NoCall /\ accepting' = NoCall
      /\ control_sender_rx' = Enqueue(control_sender_rx, host_sender,
                                      Message("StreamAccepted", accepting))
  BY DEF HostAccept
<1>2. /\ control_sender_rx \in MessageQueue /\ accepting \in Calls \cup {NoCall}
      /\ Once(control_sender_rx, "StreamAccepted")
  BY DEF TypeInv, TypeOK, GrantInv, NoDuplicates
<1>3. Announcing = {accepting} /\ Announcing' = {}
  BY <1>1 DEF Announcing
<1>4. accepting \notin Accepted /\ accepting \in Opened
      /\ accepting \notin Returning /\ accepting \notin Used
  BY <1>3 DEF GrantInv, GrantInOnePlace
<1>5. /\ Accepted' \subseteq Accepted \cup {accepting}
      /\ Once(control_sender_rx', "StreamAccepted")
  <2>1. Message("StreamAccepted", accepting) \in Messages
    BY <1>2, MessageLaws
  <2>2. CASE host_sender
    <3>1. control_sender_rx' =
              Append(control_sender_rx, Message("StreamAccepted", accepting))
      BY <1>1, <2>2 DEF Enqueue
    <3> QED
      BY <1>2, <1>4, <2>1, <3>1, AppendToken, MessageFields DEF Accepted
  <2>3. CASE ~host_sender
    BY <1>1, <1>2, <2>3 DEF Enqueue, Accepted
  <2> QED
    BY <2>2, <2>3
<1>6. /\ Requested' = Requested /\ Arriving' = Arriving /\ Unsent' = Unsent
      /\ Returning' = Returning /\ Opened' = Opened /\ Used' = Used
  BY <1>1 DEF Requested, Arriving, Unsent, Returning, Opened, Used
<1>7. RequestInOnePlace'
  BY <1>6 DEF GrantInv, RequestInOnePlace
<1>8. GrantInOnePlace'
  BY <1>3, <1>4, <1>5, <1>6 DEF GrantInv, GrantInOnePlace
<1>9. NoDuplicates' /\ WaitersMatch' /\ GrantsSpentOnce'
  BY <1>1, <1>5 DEF GrantInv, NoDuplicates, WaitersMatch, GrantsSpentOnce
<1> QED
  BY <1>7, <1>8, <1>9 DEF GrantInv

\* The host's sender task moves a grant to the wire, in order.
LEMMA GrantHostSend ==
    ASSUME TypeInv, GrantInv, HostSend
    PROVE  GrantInv'
<1> USE DEF conn, hostTasks, hub, hostVars, clientTasks, clientVars,
              callVars, ropeVars, frames, uniVars, pipes, budgets, env
<1> DEFINE m == Head(control_sender_rx)
<1>1. /\ UNCHANGED <<control_rx, c2h, accepting, hub_events, call,
                     pending_streams, granted_by>>
      /\ control_sender_rx # <<>> /\ control_sender_rx' = Tail(control_sender_rx)
      /\ h2c' = Append(h2c, m)
  BY DEF HostSend
<1>2. /\ control_sender_rx \in MessageQueue /\ h2c \in MessageQueue
      /\ m \in Messages
      /\ Once(control_rx, "StreamOpen") /\ Once(c2h, "StreamOpen")
      /\ Once(control_sender_rx, "StreamAccepted") /\ Once(h2c, "StreamAccepted")
  BY <1>1, QueueLaws DEF TypeInv, TypeOK, GrantInv, NoDuplicates
<1>3. CASE m.type # "StreamAccepted"
  <2>1. Accepted' = Accepted /\ Once(control_sender_rx', "StreamAccepted")
    BY <1>1, <1>2, <1>3, TailOther DEF Accepted
  <2>2. Returning' = Returning /\ Once(h2c', "StreamAccepted")
    BY <1>1, <1>2, <1>3, EnqueueOther DEF Returning, Enqueue
  <2> QED
    BY <1>1, <1>2, <2>1, <2>2, GrantQueueStep DEF Requested, Arriving, Opened
<1>4. CASE m.type = "StreamAccepted"
  <2>1. /\ Accepted = Accepted' \cup {m.call} /\ m.call \notin Accepted'
        /\ Once(control_sender_rx', "StreamAccepted")
    BY <1>1, <1>2, <1>4, TailToken DEF Accepted
  <2>2. m.call \notin Returning
    BY <2>1 DEF GrantInv, GrantInOnePlace
  <2>3. Returning' = Returning \cup {m.call} /\ Once(h2c', "StreamAccepted")
    BY <1>1, <1>2, <1>4, <2>2, AppendToken DEF Returning
  <2>4. /\ Requested' = Requested /\ Arriving' = Arriving /\ Unsent' = Unsent
        /\ Announcing' = Announcing /\ Opened' = Opened /\ Used' = Used
    BY <1>1 DEF Requested, Arriving, Unsent, Announcing, Opened, Used
  <2>5. RequestInOnePlace'
    BY <2>4 DEF GrantInv, RequestInOnePlace
  <2>6. GrantInOnePlace'
    BY <2>1, <2>3, <2>4 DEF GrantInv, GrantInOnePlace
  <2>7. NoDuplicates' /\ WaitersMatch' /\ GrantsSpentOnce'
    BY <1>1, <1>2, <2>1, <2>3
    DEF GrantInv, NoDuplicates, WaitersMatch, GrantsSpentOnce
  <2> QED
    BY <2>5, <2>6, <2>7 DEF GrantInv
<1> QED
  BY <1>3, <1>4

\* The client's reader spends the grant on the waiter it removes, or on none.
LEMMA GrantClientReadAccepted ==
    ASSUME TypeInv, GrantInv, ClientReadAccepted
    PROVE  GrantInv'
<1> USE DEF conn, hostTasks, hub, hostVars, clientTasks, clientVars,
              callVars, ropeVars, frames, uniVars, pipes, budgets, env
<1> DEFINE g == Head(h2c).call
           w == pending_streams[StreamOf[g]]
<1>1. /\ UNCHANGED <<control_rx, c2h, accepting, control_sender_rx, hub_events,
                     call>>
      /\ h2c # <<>> /\ Head(h2c).type = "StreamAccepted" /\ h2c' = Tail(h2c)
      /\ Wake(w, g)
      /\ pending_streams' = [pending_streams EXCEPT ![StreamOf[g]] = NoCall]
  BY DEF ClientReadAccepted, ClientReads
<1>2. /\ h2c \in MessageQueue /\ Once(h2c, "StreamAccepted")
      /\ pending_streams \in [StreamIds -> Calls \cup {NoCall}]
      /\ granted_by \in [Calls -> Calls \cup {NoCall}]
  BY DEF TypeInv, TypeOK, GrantInv, NoDuplicates
<1>3. /\ Returning = Returning' \cup {g} /\ g \notin Returning'
      /\ Once(h2c', "StreamAccepted")
  BY <1>1, <1>2, TailToken DEF Returning
<1>4. /\ g \in Calls /\ g \in Opened /\ g \notin Announcing
      /\ g \notin Accepted /\ g \notin Used
  BY <1>3 DEF GrantInv, RequestInOnePlace, GrantInOnePlace
<1>5. g # NoCall /\ StreamOf[g] \in StreamIds /\ w \in Calls \cup {NoCall}
  BY <1>2, <1>4, ConstantsAssumption DEF ConstantsAssumption
<1>6. /\ \A c \in Calls : \/ granted_by'[c] = granted_by[c]
                          \/ c = w /\ granted_by'[c] = g
  BY <1>1, <1>2, <1>5 DEF Wake
<1>7. Used' \subseteq Used \cup {g}
  BY <1>6 DEF Used
<1>8. /\ Requested' = Requested /\ Arriving' = Arriving /\ Unsent' = Unsent
      /\ Announcing' = Announcing /\ Accepted' = Accepted /\ Opened' = Opened
  BY <1>1 DEF Requested, Arriving, Unsent, Announcing, Accepted, Opened
<1>9. RequestInOnePlace'
  BY <1>8 DEF GrantInv, RequestInOnePlace
<1>10. GrantInOnePlace'
  BY <1>3, <1>4, <1>7, <1>8 DEF GrantInv, GrantInOnePlace
<1>11. NoDuplicates'
  BY <1>1, <1>3 DEF GrantInv, NoDuplicates
<1>12. WaitersMatch'
  BY <1>1, <1>2, <1>5 DEF GrantInv, WaitersMatch
<1>13. GrantsSpentOnce'
  <2>1. \A c \in Calls : granted_by[c] # g
    BY <1>4, <1>5 DEF Used
  <2>2. ASSUME NEW c \in Calls, NEW d \in Calls, granted_by'[c] = granted_by'[d],
               granted_by'[c] # NoCall
        PROVE  c = d
    BY <1>6, <2>1, <2>2 DEF GrantInv, GrantsSpentOnce
  <2>3. w # NoCall => StreamOf[w] = StreamOf[g]
    BY <1>5 DEF GrantInv, WaitersMatch
  <2>4. ASSUME NEW c \in Calls, granted_by'[c] # NoCall
        PROVE  StreamOf[granted_by'[c]] = StreamOf[c]
    <3>1. CASE granted_by'[c] = granted_by[c]
      BY <2>4, <3>1 DEF GrantInv, GrantsSpentOnce
    <3>2. CASE c = w /\ granted_by'[c] = g
      BY <2>3, <3>2, ConstantsAssumption DEF ConstantsAssumption
    <3> QED
      BY <1>6, <3>1, <3>2
  <2> QED
    BY <2>2, <2>4 DEF GrantsSpentOnce
<1> QED
  BY <1>9, <1>10, <1>11, <1>12, <1>13 DEF GrantInv

-----------------------------------------------------------------------------

\* No request and no grant exists initially.
LEMMA GrantInit == Init => GrantInv
<1> SUFFICES ASSUME Init PROVE GrantInv
  OBVIOUS
<1>1. NoDuplicates
  BY EmptyQueue DEF Init, NoDuplicates
<1>2. /\ Requested = {} /\ Arriving = {} /\ Announcing = {} /\ Accepted = {}
      /\ Returning = {} /\ Opened = {}
  BY EmptyQueue
  DEF Init, Requested, Arriving, Announcing, Accepted, Returning, Opened
<1>3. Used = {}
  BY DEF Init, Used
<1>4. RequestInOnePlace /\ GrantInOnePlace
  BY <1>2, <1>3 DEF RequestInOnePlace, GrantInOnePlace
<1>5. WaitersMatch /\ GrantsSpentOnce
  BY DEF Init, WaitersMatch, GrantsSpentOnce
<1> QED
  BY <1>1, <1>4, <1>5 DEF GrantInv

\* Every step keeps every request and every grant in one place.
LEMMA GrantStep == TypeInv /\ GrantInv /\ [Next]_vars => GrantInv'
<1> SUFFICES ASSUME TypeInv, GrantInv, [Next]_vars PROVE GrantInv'
  OBVIOUS
<1>1. CASE \/ HostReadOpen \/ HostAccept \/ HostSend \/ ClientWrite
           \/ ClientReadAccepted \/ \E c \in Calls : Register(c) \/ SendOpen(c)
  BY <1>1, GrantHostReadOpen, GrantHostAccept, GrantHostSend, GrantClientWrite,
     GrantClientReadAccepted, GrantRegister, GrantSendOpen
<1>2. CASE \/ HostWelcome \/ HostReadPing \/ HostReadEvent \/ HostReadOther
           \/ HostSendEnds \/ HubSend
           \/ ReceiveWelcome \/ ClientWriteEnds
           \/ ClientReadPing \/ ClientReadPong \/ ClientReadOther \/ ClientSend
  BY <1>2, GrantOtherMessage
<1>3. CASE \/ HostWelcomeFails \/ HostServe \/ HostServeFails
           \/ AcceptUni \/ AcceptEnds \/ HostReadEnds
           \/ TieFails \/ GiveUp \/ ClientReadEnds \/ NextEvent
           \/ CloneTx \/ DropClone \/ DropClient \/ HubDropSender \/ Lose
           \/ \E c \in Calls :
                  HandleStream(c) \/ AwaitFails(c) \/ OpenUni(c)
                  \/ OpenUniFails(c) \/ SendConfig(c) \/ SendConfigFails(c)
                  \/ SendOpenFails(c)
                  \/ Cancel(c) \/ WriteFrame(c) \/ DropStream(c)
           \/ UNCHANGED vars
  BY <1>3, GrantQuietStep
<1> QED
  BY <1>1, <1>2, <1>3, Zenon
  DEF Next, HandleConnection, HostReader, HostSender, TieTheKnot,
      ClientWriter, ClientReader, CreateStream, Application

\* Requests and grants are in one place always, whichever task holds them.
THEOREM GrantInvariance == Spec => [](TypeInv /\ GrantInv)
<1>1. TypeInv /\ GrantInv /\ [Next]_vars => GrantInv'
  BY GrantStep
<1>2. Init => GrantInv
  BY GrantInit
<1>3. Spec => []TypeInv
  BY TypeInvariance
<1> QED
  BY <1>1, <1>2, <1>3, PTL DEF Spec

\* No StreamAccepted wakes two calls, and a call is woken only by an accept of
\* its own stream_id (lib.rs create_stream and the client's reader), however
\* many calls share an id, retry it or cancel.
THEOREM GrantsAreSpentOnce == Spec => []GrantsSpentOnce
<1>1. GrantInv => GrantsSpentOnce
  BY DEF GrantInv
<1> QED
  BY <1>1, GrantInvariance, PTL

-----------------------------------------------------------------------------
(* No accept is lost while its waiter waits.  NoLostWakeup is not inductive: *)
(* a call may be made before the host's tasks are spawned, so the request   *)
(* has to be followed from there, and the host must not accept anything     *)
(* while it has no sender task.                                             *)

\* The host has its tasks still to spawn, and has done nothing of theirs.
Preparing == phase \in {"welcoming", "welcomed"}

Spawning ==
    /\ Preparing => ~host_reader /\ ~host_sender /\ accepting = NoCall
    /\ client = "tying" => control_tx = {} /\ \A c \in Calls : call[c] = "idle"

Waits(c) ==
    /\ call[c] = "waiting" /\ granted_by[c] = NoCall
    /\ pending_streams[StreamOf[c]] = c

\* Each task on the route from the caller and back runs, or is still to come.
RouteRuns ==
    /\ client_writer /\ client_reader
    /\ Preparing \/ (host_reader /\ host_sender)

UnderWay == Requested \cup Arriving \cup Announcing \cup Accepted \cup Returning

WakeInv ==
    /\ Spawning
    /\ \A c \in Calls : Waits(c) /\ RouteRuns => c \in UnderWay

\* Calls keep waiting, tasks keep running, and nothing under way gets lost.
LEMMA WakeFrame ==
    ASSUME WakeInv, Spawning',
           RouteRuns' => RouteRuns /\ UnderWay \subseteq UnderWay',
           \A c \in Calls : Waits(c)' => Waits(c)
    PROVE  WakeInv'
  BY DEF WakeInv

\* A step that changes no call leaves the waiting ones waiting.
LEMMA WaitsUnchanged ==
    ASSUME UNCHANGED callVars
    PROVE  \A c \in Calls : Waits(c)' = Waits(c)
  BY DEF callVars, Waits

\* A route that has lost a task does not run again.
LEMMA RouteStep ==
    ASSUME TypeInv, Spawning, [Next]_vars
    PROVE  /\ Spawning'
           /\ client # "tying" /\ RouteRuns' => RouteRuns
<1> USE DEF conn, hostTasks, hub, hostVars, clientTasks, clientVars,
            callVars, ropeVars, frames, uniVars, pipes, budgets, env,
            Spawning, RouteRuns, Preparing
<1>1. CASE HandleConnection
  <2>1. CASE HostWelcome \/ AcceptUni
    BY <2>1 DEF HostWelcome, AcceptUni
  <2>2. CASE HostWelcomeFails \/ HostServe \/ HostServeFails
    BY <2>2 DEF HostWelcomeFails, HostServe, HostServeFails
  <2>3. CASE AcceptEnds
    BY <2>3 DEF AcceptEnds
  <2> QED
    BY <1>1, <2>1, <2>2, <2>3 DEF HandleConnection
<1>2. CASE HostReader \/ HostSender
  BY <1>2 DEF HostReader, HostReadOpen, HostAccept, HostReadPing, HostReadEvent,
              HostReadOther, HostReadEnds, HostReads, HostSender, HostSend,
              HostSendEnds
<1>3. CASE TieTheKnot \/ ClientWriter \/ ClientReader
  BY <1>3 DEF TieTheKnot, ReceiveWelcome, TieFails, AbandonTie, ClientWriter,
              ClientWrite, ClientWriteEnds, ClientReader, ClientReadAccepted,
              ClientReadPing, ClientReadPong, ClientReadOther, ClientReadEnds
<1>4. ASSUME NEW c \in Calls, HandleStream(c)
      PROVE  /\ Spawning'
             /\ RouteRuns' => RouteRuns
  BY <1>4 DEF HandleStream, HandlerOpens, HandlerFrame, HandlerEnds,
              HandlerNoConfig, HandlerFails, HandlerStep
<1>5. ASSUME NEW c \in Calls,
             CreateStream(c) \/ Register(c) \/ Cancel(c) \/ DropStream(c)
      PROVE  /\ Spawning'
             /\ RouteRuns' => RouteRuns
  <2>1. UNCHANGED <<phase, host_reader, host_sender, accepting, client,
                    client_reader, client_writer, control_tx>>
    BY <1>5 DEF CreateStream, SendOpen, SendOpenFails, AwaitFails, OpenUni,
                OpenUniFails, SendConfig, SendConfigFails, Register, Cancel,
                DropStream, CallStep
  <2>2. client # "tying"
    BY <1>5 DEF CreateStream, SendOpen, SendOpenFails, AwaitFails, OpenUni,
                OpenUniFails, SendConfig, SendConfigFails, Register, Cancel,
                DropStream, Woken
  <2> QED
    BY <2>1, <2>2
<1>6. CASE \/ GiveUp \/ ClientSend \/ NextEvent \/ CloneTx \/ DropClone
           \/ DropClient \/ HubSend \/ HubDropSender \/ Lose \/ UNCHANGED vars
           \/ \E c \in Calls : WriteFrame(c)
  BY <1>6 DEF GiveUp, AbandonTie, ClientSend, NextEvent, CloneTx, DropClone,
              DropClient, HubSend, HubDropSender, Lose, WriteFrame, vars
<1> HIDE DEF Spawning, RouteRuns
<1> QED
  BY <1>1, <1>2, <1>3, <1>4, <1>5, <1>6, Zenon DEF Next, Application

\* Steps that move no message, and put no call to wait.
LEMMA WakeQuietStep ==
    ASSUME TypeInv, WakeInv, Spawning', client # "tying", RouteRuns' => RouteRuns,
           \/ HostWelcomeFails \/ HostServe \/ HostServeFails
           \/ AcceptUni \/ AcceptEnds \/ HostReadEnds
           \/ TieFails \/ GiveUp \/ ClientReadEnds \/ NextEvent
           \/ CloneTx \/ DropClone \/ DropClient \/ HubDropSender \/ Lose
           \/ \E c \in Calls :
                  HandleStream(c) \/ AwaitFails(c) \/ OpenUni(c)
                  \/ OpenUniFails(c) \/ SendConfig(c) \/ SendConfigFails(c)
                  \/ SendOpenFails(c) \/ Register(c)
                  \/ Cancel(c) \/ WriteFrame(c) \/ DropStream(c)
           \/ UNCHANGED vars
    PROVE  WakeInv'
<1> USE DEF conn, hostTasks, hub, hostVars, clientTasks, clientVars,
            callVars, ropeVars, frames, uniVars, pipes, budgets, env, tokens
<1>1. ASSUME UNCHANGED tokens, \A c \in Calls : Waits(c)' => Waits(c)
      PROVE  WakeInv'
  <2>1. UnderWay' = UnderWay
    BY <1>1, TokensUnchanged DEF UnderWay
  <2> QED
    BY <1>1, <2>1, WakeFrame
<1>2. CASE \/ HostWelcomeFails \/ HostServe \/ HostServeFails
           \/ AcceptUni \/ AcceptEnds \/ HostReadEnds
           \/ TieFails \/ GiveUp \/ ClientReadEnds \/ NextEvent
           \/ CloneTx \/ DropClone \/ DropClient \/ HubDropSender \/ Lose
           \/ \E c \in Calls : HandleStream(c) \/ WriteFrame(c)
           \/ UNCHANGED vars
  <2>1. UNCHANGED <<tokens, callVars>>
    BY <1>2 DEF HostWelcomeFails, HostServe, HostServeFails, AcceptUni,
                AcceptEnds, HostReadEnds, TieFails, GiveUp, AbandonTie,
                ClientReadEnds, NextEvent, CloneTx, DropClone, DropClient,
                HubDropSender, Lose, HandleStream, HandlerOpens, HandlerFrame,
                HandlerEnds, HandlerNoConfig, HandlerFails, HandlerStep,
                WriteFrame, vars
  <2> QED
    BY <1>1, <2>1, WaitsUnchanged
<1>3. ASSUME NEW d \in Calls,
             \/ AwaitFails(d) \/ OpenUni(d) \/ OpenUniFails(d)
             \/ SendConfig(d) \/ SendConfigFails(d) \/ SendOpenFails(d)
             \/ Register(d) \/ Cancel(d) \/ DropStream(d)
      PROVE  WakeInv'
  <2>1. PICK state \in {"registered", "configuring", "open", "closed", "failed",
                        "cancelled"} :
            call' = [call EXCEPT ![d] = state]
    BY <1>3 DEF AwaitFails, OpenUni, OpenUniFails, SendConfig, SendConfigFails,
                SendOpenFails, Register, Cancel, DropStream, CallStep, SetCall
  <2>2. /\ UNCHANGED <<tokens, granted_by>>
        /\ \/ UNCHANGED pending_streams
           \/ pending_streams' = [pending_streams EXCEPT ![StreamOf[d]] = d]
    BY <1>3 DEF AwaitFails, OpenUni, OpenUniFails, SendConfig, SendConfigFails,
                SendOpenFails, Register, Cancel, DropStream, CallStep
  <2>3. ASSUME NEW c \in Calls, Waits(c)' PROVE Waits(c)
    <3>1. c # d /\ call[c] = "waiting"
      BY <2>1, <2>3 DEF Waits, TypeInv, TypeOK
    <3>2. StreamOf[c] \in StreamIds /\ StreamOf[d] \in StreamIds
      BY ConstantsAssumption DEF ConstantsAssumption
    <3>3. pending_streams[StreamOf[c]] = c
      BY <2>2, <2>3, <3>1, <3>2 DEF Waits, TypeInv, TypeOK
    <3> QED
      BY <2>2, <2>3, <3>1, <3>3 DEF Waits
  <2> QED
    BY <1>1, <2>2, <2>3
<1> QED
  BY <1>2, <1>3

\* No call is made before tie_the_knot has returned.
LEMMA CallsStayIdle ==
    ASSUME TypeInv, [Next]_vars, NEW c \in Calls, call[c] = "idle",
           control_tx = {}
    PROVE  call'[c] = "idle"
<1> USE DEF conn, hostTasks, hub, hostVars, clientTasks, clientVars,
            callVars, ropeVars, frames, uniVars, pipes, budgets, env
<1>1. ASSUME NEW d \in Calls, CreateStream(d) \/ Cancel(d) \/ DropStream(d)
      PROVE  call'[c] = "idle"
  <2>1. call[d] # "idle"
    BY <1>1 DEF CreateStream, SendOpen, SendOpenFails, AwaitFails, OpenUni,
                OpenUniFails, SendConfig, SendConfigFails, Cancel, DropStream,
                Woken
  <2>2. PICK state : call' = [call EXCEPT ![d] = state]
    BY <1>1 DEF CreateStream, SendOpen, SendOpenFails, AwaitFails, OpenUni,
                OpenUniFails, SendConfig, SendConfigFails, Cancel, DropStream,
                CallStep, SetCall
  <2> QED
    BY <2>1, <2>2 DEF TypeInv, TypeOK
<1>2. ASSUME NEW d \in Calls PROVE ~Register(d)
  BY DEF Register
<1>3. CASE HandleConnection \/ HostReader \/ HostSender
  BY <1>3 DEF HandleConnection, HostWelcome, HostWelcomeFails, HostServe,
              HostServeFails, AcceptUni, AcceptEnds,
              HostReader, HostReadOpen, HostAccept, HostReadPing, HostReadEvent,
              HostReadOther, HostReadEnds, HostSender, HostSend, HostSendEnds
<1>4. CASE TieTheKnot \/ ClientWriter \/ ClientReader
  BY <1>4 DEF TieTheKnot, ReceiveWelcome, TieFails, AbandonTie, ClientWriter,
              ClientWrite, ClientWriteEnds, ClientReader, ClientReadAccepted,
              ClientReadPing, ClientReadPong, ClientReadOther, ClientReadEnds
<1>5. ASSUME NEW d \in Calls, HandleStream(d) \/ WriteFrame(d)
      PROVE  UNCHANGED call
  BY <1>5 DEF HandleStream, HandlerOpens, HandlerFrame, HandlerEnds,
              HandlerNoConfig, HandlerFails, HandlerStep, WriteFrame
<1>6. CASE \/ GiveUp \/ ClientSend \/ NextEvent \/ CloneTx \/ DropClone
           \/ DropClient \/ HubSend \/ HubDropSender \/ Lose \/ UNCHANGED vars
  BY <1>6 DEF GiveUp, AbandonTie, ClientSend, NextEvent, CloneTx, DropClone,
              DropClient, HubSend, HubDropSender, Lose, vars
<1> QED
  BY <1>1, <1>2, <1>3, <1>4, <1>5, <1>6, Zenon DEF Next, Application

\* What is in a queue stays when something is put behind it.
LEMMA EnqueueKeeps ==
    ASSUME NEW q \in MessageQueue, NEW m \in Messages, NEW running, NEW type
    PROVE  In(q, type) \subseteq In(Enqueue(q, running, m), type)
<1>1. CASE m.type = type
  BY <1>1, AppendToken DEF Enqueue
<1>2. CASE m.type # type
  BY <1>2, EnqueueOther
<1> QED
  BY <1>1, <1>2

\* Steps of the control tasks that carry other messages, or end a task.
LEMMA WakeOtherMessage ==
    ASSUME TypeInv, WakeInv, Spawning', client # "tying", RouteRuns' => RouteRuns,
           \/ HostWelcome \/ HostReadPing \/ HostReadEvent \/ HostReadOther
           \/ HostSendEnds \/ HubSend \/ ClientWriteEnds
           \/ ClientReadPing \/ ClientReadPong \/ ClientReadOther \/ ClientSend
    PROVE  WakeInv'
<1> USE DEF conn, hostTasks, hub, hostVars, clientTasks, clientVars,
            callVars, ropeVars, frames, uniVars, pipes, budgets, env
<1>q. /\ c2h \in MessageQueue /\ h2c \in MessageQueue
      /\ control_rx \in MessageQueue /\ control_sender_rx \in MessageQueue
  BY DEF TypeInv, TypeOK
<1>1. CASE HostSendEnds \/ ClientWriteEnds
  <2>1. ~RouteRuns' /\ UNCHANGED callVars
    BY <1>1 DEF HostSendEnds, ClientWriteEnds, RouteRuns, Preparing, WakeInv, Spawning
  <2> QED
    BY <2>1, WaitsUnchanged, WakeFrame
<1>2. ASSUME UNCHANGED <<callVars, accepting>>,
             Requested \subseteq Requested', Arriving \subseteq Arriving',
             Accepted \subseteq Accepted', Returning \subseteq Returning'
      PROVE  WakeInv'
  <2>1. UnderWay \subseteq UnderWay'
    BY <1>2 DEF UnderWay, Announcing
  <2> QED
    BY <1>2, <2>1, WaitsUnchanged, WakeFrame
<1>3. CASE HostWelcome
  <2>1. /\ h2c' = Enqueue(h2c, TRUE, Plain("Welcome"))
        /\ UNCHANGED <<callVars, accepting, control_rx, c2h, control_sender_rx>>
    BY <1>3 DEF HostWelcome, Enqueue
  <2>2. Returning \subseteq Returning'
    BY <1>q, <2>1, EnqueueKeeps, MessageLaws DEF Returning
  <2> QED
    BY <1>2, <2>1, <2>2 DEF Requested, Arriving, Accepted
<1>4. ASSUME NEW type, type # "StreamOpen", HostReads(type)
      PROVE  Arriving' = Arriving
  <2>1. c2h # <<>> /\ Head(c2h).type = type /\ c2h' = Tail(c2h)
    BY <1>4 DEF HostReads
  <2> QED
    BY <1>q, <1>4, <2>1, TailOther DEF Arriving
<1>5. ASSUME NEW type, type # "StreamAccepted", ClientReads(type)
      PROVE  Returning' = Returning
  <2>1. h2c # <<>> /\ Head(h2c).type = type /\ h2c' = Tail(h2c)
    BY <1>5 DEF ClientReads
  <2> QED
    BY <1>q, <1>5, <2>1, TailOther DEF Returning
<1>6. CASE HostReadPing
  <2>1. /\ control_sender_rx' = Enqueue(control_sender_rx, host_sender, Plain("Pong"))
        /\ UNCHANGED <<callVars, accepting, control_rx, h2c>>
    BY <1>6 DEF HostReadPing
  <2>2. Arriving' = Arriving
    BY <1>4, <1>6 DEF HostReadPing
  <2>3. Accepted \subseteq Accepted'
    BY <1>q, <2>1, EnqueueKeeps, MessageLaws DEF Accepted
  <2> QED
    BY <1>2, <2>1, <2>2, <2>3 DEF Requested, Returning
<1>7. CASE HostReadEvent \/ HostReadOther
  <2>1. UNCHANGED <<callVars, accepting, control_rx, h2c, control_sender_rx>>
    BY <1>7 DEF HostReadEvent, HostReadOther
  <2>2. Arriving' = Arriving
    BY <1>4, <1>7 DEF HostReadEvent, HostReadOther
  <2> QED
    BY <1>2, <2>1, <2>2 DEF Requested, Returning, Accepted
<1>8. CASE HubSend
  <2>1. PICK kind \in HubKinds :
            control_sender_rx' = Enqueue(control_sender_rx, host_sender, Plain(kind))
    BY <1>8 DEF HubSend
  <2>2. UNCHANGED <<callVars, accepting, control_rx, c2h, h2c>>
    BY <1>8 DEF HubSend
  <2>3. Plain(kind) \in Messages
    BY ConstantsAssumption, MessageLaws DEF ConstantsAssumption
  <2>4. Accepted \subseteq Accepted'
    BY <1>q, <2>1, <2>3, EnqueueKeeps DEF Accepted
  <2> QED
    BY <1>2, <2>2, <2>4 DEF Requested, Arriving, Returning
<1>9. CASE ClientReadPing
  <2>1. /\ control_rx' = Enqueue(control_rx, client_writer, Plain("Pong"))
        /\ UNCHANGED <<callVars, accepting, c2h, control_sender_rx>>
    BY <1>9 DEF ClientReadPing
  <2>2. Returning' = Returning
    BY <1>5, <1>9 DEF ClientReadPing
  <2>3. Requested \subseteq Requested'
    BY <1>q, <2>1, EnqueueKeeps, MessageLaws DEF Requested
  <2> QED
    BY <1>2, <2>1, <2>2, <2>3 DEF Arriving, Accepted
<1>10. CASE ClientReadPong \/ ClientReadOther
  <2>1. UNCHANGED <<callVars, accepting, control_rx, c2h, control_sender_rx>>
    BY <1>10 DEF ClientReadPong, ClientReadOther
  <2>2. Returning' = Returning
    BY <1>5, <1>10 DEF ClientReadPong, ClientReadOther
  <2> QED
    BY <1>2, <2>1, <2>2 DEF Requested, Arriving, Accepted
<1>11. CASE ClientSend
  <2>1. PICK kind \in ClientKinds :
            control_rx' = Enqueue(control_rx, client_writer, Plain(kind))
    BY <1>11 DEF ClientSend
  <2>2. UNCHANGED <<callVars, accepting, c2h, h2c, control_sender_rx>>
    BY <1>11 DEF ClientSend
  <2>3. Plain(kind) \in Messages
    BY ConstantsAssumption, MessageLaws DEF ConstantsAssumption
  <2>4. Requested \subseteq Requested'
    BY <1>q, <2>1, <2>3, EnqueueKeeps DEF Requested
  <2> QED
    BY <1>2, <2>2, <2>4 DEF Arriving, Accepted, Returning
<1> QED
  BY <1>1, <1>3, <1>6, <1>7, <1>8, <1>9, <1>10, <1>11

\* A request, and the accept it becomes, is handed from task to task.
LEMMA WakeHandOver ==
    ASSUME TypeInv, WakeInv, Spawning', client # "tying", RouteRuns' => RouteRuns,
           HostReadOpen \/ HostAccept \/ HostSend \/ ClientWrite
    PROVE  WakeInv'
<1> USE DEF conn, hostTasks, hub, hostVars, clientTasks, clientVars,
            callVars, ropeVars, frames, uniVars, pipes, budgets, env
<1>q. /\ c2h \in MessageQueue /\ h2c \in MessageQueue
      /\ control_rx \in MessageQueue /\ control_sender_rx \in MessageQueue
      /\ accepting \in Calls \cup {NoCall}
  BY DEF TypeInv, TypeOK
<1>1. CASE HostReadOpen
  <2>1. /\ UNCHANGED <<callVars, control_rx, control_sender_rx, h2c>>
        /\ c2h # <<>> /\ Head(c2h).type = "StreamOpen" /\ c2h' = Tail(c2h)
        /\ accepting = NoCall /\ accepting' = Head(c2h).call
    BY <1>1 DEF HostReadOpen, HostReads
  <2>2. Arriving = Arriving' \cup {Head(c2h).call}
    BY <1>q, <2>1, TailToken DEF Arriving
  <2>3. /\ Requested' = Requested /\ Accepted' = Accepted
        /\ Returning' = Returning
    BY <2>1 DEF Requested, Accepted, Returning
  <2>4. UnderWay \ {NoCall} \subseteq UnderWay'
    BY <2>1, <2>2, <2>3 DEF UnderWay, Announcing
  <2>5. \A c \in Calls : c # NoCall
    BY ConstantsAssumption DEF ConstantsAssumption
  <2> QED
    BY <2>1, <2>4, <2>5, WaitsUnchanged DEF WakeInv
<1>2. CASE HostAccept
  <2>1. /\ UNCHANGED <<callVars, control_rx, c2h, h2c>>
        /\ accepting # NoCall /\ accepting' = NoCall
        /\ control_sender_rx' = Enqueue(control_sender_rx, host_sender,
                                        Message("StreamAccepted", accepting))
        /\ UNCHANGED <<phase, host_sender>>
    BY <1>2 DEF HostAccept
  <2>2. RouteRuns => host_sender
    BY <2>1 DEF RouteRuns, WakeInv, Spawning
  <2>3. ASSUME host_sender PROVE Accepted' = Accepted \cup {accepting}
    <3>1. Message("StreamAccepted", accepting) \in Messages
      BY <1>q, MessageLaws
    <3> QED
      BY <1>q, <2>1, <2>3, <3>1, AppendToken, MessageFields DEF Accepted, Enqueue
  <2>4. /\ Requested' = Requested /\ Arriving' = Arriving
        /\ Returning' = Returning
    BY <2>1 DEF Requested, Arriving, Returning
  <2>5. RouteRuns => UnderWay \subseteq UnderWay'
    BY <2>2, <2>3, <2>4 DEF UnderWay, Announcing
  <2> QED
    BY <2>1, <2>5, WaitsUnchanged, WakeFrame
<1>3. ASSUME NEW q \in MessageQueue, NEW r \in MessageQueue, NEW type, q # <<>>
      PROVE  In(q, type) \cup In(r, type)
                \subseteq In(Tail(q), type) \cup In(Append(r, Head(q)), type)
  <2>1. Head(q) \in Messages
    BY <1>3, QueueLaws
  <2>2. CASE Head(q).type = type
    BY <1>3, <2>1, <2>2, TailToken, AppendToken
  <2>3. CASE Head(q).type # type
    <3>1. In(Tail(q), type) = In(q, type)
      BY <1>3, <2>3, TailOther
    <3>2. In(r, type) \subseteq In(Append(r, Head(q)), type)
      BY <2>1, EnqueueKeeps DEF Enqueue
    <3> QED
      BY <3>1, <3>2
  <2> QED
    BY <2>2, <2>3
<1>4. CASE HostSend
  <2>1. /\ UNCHANGED <<callVars, accepting, control_rx, c2h>>
        /\ control_sender_rx # <<>>
        /\ control_sender_rx' = Tail(control_sender_rx)
        /\ h2c' = Append(h2c, Head(control_sender_rx))
    BY <1>4 DEF HostSend
  <2>2. Accepted \cup Returning \subseteq Accepted' \cup Returning'
    BY <1>q, <1>3, <2>1 DEF Accepted, Returning
  <2>3. UnderWay \subseteq UnderWay'
    BY <2>1, <2>2 DEF UnderWay, Announcing, Requested, Arriving
  <2> QED
    BY <2>1, <2>3, WaitsUnchanged, WakeFrame
<1>5. CASE ClientWrite
  <2>1. /\ UNCHANGED <<callVars, accepting, control_sender_rx, h2c>>
        /\ control_rx # <<>> /\ control_rx' = Tail(control_rx)
        /\ c2h' = Append(c2h, Head(control_rx))
    BY <1>5 DEF ClientWrite
  <2>2. Requested \cup Arriving \subseteq Requested' \cup Arriving'
    BY <1>q, <1>3, <2>1 DEF Requested, Arriving
  <2>3. UnderWay \subseteq UnderWay'
    BY <2>1, <2>2 DEF UnderWay, Announcing, Accepted, Returning
  <2> QED
    BY <2>1, <2>3, WaitsUnchanged, WakeFrame
<1> QED
  BY <1>1, <1>2, <1>4, <1>5

\* A call begins to wait with its request queued.
LEMMA WakeSendOpen ==
    ASSUME TypeInv, WakeInv, Spawning', RouteRuns' => RouteRuns,
           NEW d \in Calls, SendOpen(d)
    PROVE  WakeInv'
<1> USE DEF conn, hostTasks, hub, hostVars, clientTasks, clientVars,
            callVars, ropeVars, frames, uniVars, pipes, budgets, env
<1>1. /\ control_rx' = Append(control_rx, Message("StreamOpen", d))
      /\ call' = [call EXCEPT ![d] = "waiting"]
      /\ UNCHANGED <<accepting, control_sender_rx, c2h, h2c, pending_streams,
                     granted_by>>
  BY DEF SendOpen, SetCall
<1>2. Requested' = Requested \cup {d}
  <2>1. Message("StreamOpen", d) \in Messages /\ control_rx \in MessageQueue
    BY MessageLaws DEF TypeInv, TypeOK
  <2> QED
    BY <1>1, <2>1, AppendToken, MessageFields DEF Requested
<1>3. UnderWay \cup {d} \subseteq UnderWay'
  BY <1>1, <1>2 DEF UnderWay, Announcing, Arriving, Accepted, Returning
<1>4. ASSUME NEW c \in Calls, c # d, Waits(c)' PROVE Waits(c)
  BY <1>1, <1>4 DEF Waits, TypeInv, TypeOK
<1> QED
  BY <1>3, <1>4 DEF WakeInv

\* An accept that arrives takes the waiter out, or wakes it.
LEMMA WakeClientReadAccepted ==
    ASSUME TypeInv, GrantInv, WakeInv, Spawning', RouteRuns' => RouteRuns,
           ClientReadAccepted
    PROVE  WakeInv'
<1> USE DEF conn, hostTasks, hub, hostVars, clientTasks, clientVars,
            callVars, ropeVars, frames, uniVars, pipes, budgets, env
<1> DEFINE g == Head(h2c).call
           w == pending_streams[StreamOf[g]]
<1>1. /\ UNCHANGED <<control_rx, c2h, accepting, control_sender_rx, call>>
      /\ h2c # <<>> /\ Head(h2c).type = "StreamAccepted" /\ h2c' = Tail(h2c)
      /\ Wake(w, g)
      /\ pending_streams' = [pending_streams EXCEPT ![StreamOf[g]] = NoCall]
  BY DEF ClientReadAccepted, ClientReads
<1>2. /\ h2c \in MessageQueue
      /\ pending_streams \in [StreamIds -> Calls \cup {NoCall}]
      /\ granted_by \in [Calls -> Calls \cup {NoCall}]
  BY DEF TypeInv, TypeOK
<1>3. Returning = Returning' \cup {g}
  BY <1>1, <1>2, TailToken DEF Returning
<1>4. UnderWay \subseteq UnderWay' \cup {g}
  BY <1>1, <1>3 DEF UnderWay, Announcing, Requested, Arriving, Accepted
<1>5. StreamOf[g] \in StreamIds
  <2>1. g \in Calls
    BY <1>3 DEF GrantInv, RequestInOnePlace, GrantInOnePlace
  <2> QED
    BY <2>1, ConstantsAssumption DEF ConstantsAssumption
<1>6. ASSUME NEW c \in Calls, Waits(c)'
      PROVE  Waits(c) /\ c # g
  <2>1. StreamOf[c] \in StreamIds /\ c # NoCall
    BY ConstantsAssumption DEF ConstantsAssumption
  <2>2. StreamOf[c] # StreamOf[g] /\ pending_streams[StreamOf[c]] = c
    BY <1>1, <1>2, <1>6, <2>1, <1>5 DEF Waits
  <2>3. granted_by[c] = NoCall
    <3>1. granted_by'[c] = NoCall
      BY <1>6 DEF Waits
    <3>2. CASE granted_by' = granted_by
      BY <3>1, <3>2
    <3>3. CASE w # NoCall /\ granted_by' = [granted_by EXCEPT ![w] = g]
      <4>1. CASE c # w
        BY <1>2, <3>1, <3>3, <4>1
      <4>2. CASE c = w
        <5>1. StreamOf[w] = StreamOf[g]
          BY <1>5, <3>3 DEF GrantInv, WaitersMatch
        <5> QED
          BY <2>2, <4>2, <5>1
      <4> QED
        BY <4>1, <4>2
    <3> QED
      BY <1>1, <3>2, <3>3 DEF Wake
  <2> QED
    BY <1>1, <1>6, <2>2, <2>3 DEF Waits
<1> QED
  BY <1>4, <1>6 DEF WakeInv

\* No step loses an accept, or a request, of a call that waits for it.
LEMMA WakeStep == TypeInv /\ GrantInv /\ WakeInv /\ [Next]_vars => WakeInv'
<1> SUFFICES ASSUME TypeInv, GrantInv, WakeInv, [Next]_vars PROVE WakeInv'
  OBVIOUS
<1>1. Spawning' /\ (client # "tying" /\ RouteRuns' => RouteRuns)
  BY RouteStep DEF WakeInv
<1>2. CASE client = "tying"
  <2>1. ASSUME NEW c \in Calls, Waits(c)' PROVE FALSE
    <3>1. call[c] = "idle" /\ control_tx = {}
      BY <1>2 DEF WakeInv, Spawning
    <3> QED
      BY <2>1, <3>1, CallsStayIdle DEF Waits
  <2> QED
    BY <1>1, <2>1 DEF WakeInv
<1>3. CASE client # "tying"
  <2>1. CASE \/ HostReadOpen \/ HostAccept \/ HostSend \/ ClientWrite
             \/ ClientReadAccepted \/ \E c \in Calls : SendOpen(c)
    BY <1>1, <1>3, <2>1, WakeHandOver, WakeClientReadAccepted, WakeSendOpen
  <2>2. CASE \/ HostWelcome \/ HostReadPing \/ HostReadEvent \/ HostReadOther
             \/ HostSendEnds \/ HubSend \/ ClientWriteEnds
             \/ ClientReadPing \/ ClientReadPong \/ ClientReadOther \/ ClientSend
    BY <1>1, <1>3, <2>2, WakeOtherMessage
  <2>3. CASE \/ HostWelcomeFails \/ HostServe \/ HostServeFails
             \/ AcceptUni \/ AcceptEnds \/ HostReadEnds
             \/ TieFails \/ GiveUp \/ ClientReadEnds \/ NextEvent
             \/ CloneTx \/ DropClone \/ DropClient \/ HubDropSender \/ Lose
             \/ \E c \in Calls :
                    HandleStream(c) \/ AwaitFails(c) \/ OpenUni(c)
                    \/ OpenUniFails(c) \/ SendConfig(c) \/ SendConfigFails(c)
                    \/ SendOpenFails(c) \/ Register(c)
                    \/ Cancel(c) \/ WriteFrame(c) \/ DropStream(c)
             \/ UNCHANGED vars
    BY <1>1, <1>3, <2>3, WakeQuietStep
  <2>4. ~ReceiveWelcome
    BY <1>3 DEF ReceiveWelcome
  <2> QED
    BY <2>1, <2>2, <2>3, <2>4, Zenon
    DEF Next, HandleConnection, HostReader, HostSender, TieTheKnot,
        ClientWriter, ClientReader, CreateStream, Application
<1> QED
  BY <1>2, <1>3

\* A call that waits and is still the registered waiter of its stream_id has
\* its request or its accept under way as long as the tasks on the route run
\* (lib.rs create_stream, both control readers and both writers), for any
\* number of calls and sizes of the pipes.
THEOREM WakeupsAreNotLost == Spec => []NoLostWakeup
<1>1. Init => WakeInv
  BY DEF Init, WakeInv, Spawning, Preparing, Waits
<1>2. TypeInv /\ GrantInv /\ WakeInv /\ [Next]_vars => WakeInv'
  BY WakeStep
<1>3. WakeInv => NoLostWakeup
  BY DEF WakeInv, NoLostWakeup, Waits, RouteRuns, UnderWay, Requested, Arriving,
         Announcing, Accepted, Returning
<1> QED
  BY <1>1, <1>2, <1>3, GrantInvariance, PTL DEF Spec

-----------------------------------------------------------------------------
(* ControlChannel implements StreamGate: with an invariant that ties a      *)
(* unidirectional stream, its handler and the grant that paid for it        *)
(* together, every step is a step of StreamGate or a stutter.               *)

\* Calls that have not got as far as opening their stream.
Early == {c \in Calls : call[c] \in {"idle", "registered", "waiting"}}

Asked == {c \in Calls : call[c] # "idle"}

\* A stream has a handler from open_uni on, hence a grant; the queue and the
\* handlers agree on which streams wait to be accepted; a stream is dropped
\* unaccepted only by a failed transport.
StreamInv ==
    /\ \A c \in Early : handler[c] = "none"
    /\ \A c \in Calls : handler[c] # "none" => granted_by[c] # NoCall
    /\ \A c \in Calls : frames_seen[c] # 0 => handler[c] # "none"
    /\ \A i \in DOMAIN uni_queue : handler[uni_queue[i]] # "none"
    /\ \A c \in Calls :
           handler[c] = "queued" => \E i \in DOMAIN uni_queue : uni_queue[i] = c
    /\ NoStrandedStream

streamVars == <<handler, granted_by, uni_queue, frames_seen>>

-----------------------------------------------------------------------------
(* Steps that touch no stream.                                              *)

\* The steps that touch no stream and announce none.
Quiet ==
    \/ HostWelcome \/ HostWelcomeFails \/ HostServe \/ HostServeFails
    \/ HostAccept \/ HostReadPing \/ HostReadEvent \/ HostReadOther
    \/ HostReadEnds \/ HostSend \/ HostSendEnds
    \/ HubSend \/ HubDropSender
    \/ ReceiveWelcome \/ TieFails \/ GiveUp
    \/ ClientWrite \/ ClientWriteEnds
    \/ ClientReadPing \/ ClientReadPong \/ ClientReadOther
    \/ ClientReadEnds
    \/ ClientSend \/ NextEvent \/ CloneTx \/ DropClone \/ DropClient
    \/ Lose
    \/ \E c \in Calls :
           \/ SendOpen(c) \/ SendOpenFails(c) \/ AwaitFails(c)
           \/ OpenUniFails(c) \/ SendConfig(c) \/ SendConfigFails(c)
           \/ Cancel(c) \/ WriteFrame(c) \/ DropStream(c)
    \/ UNCHANGED vars

\* The Quiet steps leave all that StreamInv speaks of alone.
LEMMA QuietStep ==
    ASSUME TypeInv, Quiet
    PROVE  /\ UNCHANGED streamVars /\ (lost => lost')
           /\ Early' \subseteq Early /\ Asked' = Asked /\ Opened' = Opened
<1> USE DEF conn, hostTasks, hub, hostVars, clientTasks, clientVars,
            callVars, ropeVars, frames, uniVars, pipes, budgets, env,
            streamVars
<1>1. ASSUME UNCHANGED <<streamVars, lost, call, hub_events>>
      PROVE  /\ UNCHANGED streamVars /\ (lost => lost')
             /\ Early' \subseteq Early /\ Asked' = Asked /\ Opened' = Opened
  BY <1>1 DEF Early, Asked, Opened
<1>2. CASE \/ HostWelcome \/ HostWelcomeFails \/ HostAccept \/ HostReadPing
           \/ HostReadOther \/ HostSend \/ HostSendEnds
           \/ HubSend \/ HubDropSender
  <2>1. UNCHANGED <<streamVars, lost, call, hub_events>>
    BY <1>2 DEF HostWelcome, HostWelcomeFails, HostAccept, HostReadPing,
                HostReadOther, HostSend, HostSendEnds, HubSend, HubDropSender
  <2> QED
    BY <1>1, <2>1
<1>3. CASE \/ ReceiveWelcome \/ TieFails \/ GiveUp
           \/ ClientWrite \/ ClientWriteEnds
           \/ ClientReadPing \/ ClientReadPong \/ ClientReadOther
           \/ ClientReadEnds
  <2>1. UNCHANGED <<streamVars, lost, call, hub_events>>
    BY <1>3 DEF ReceiveWelcome, TieFails, GiveUp, AbandonTie, ClientWrite,
                ClientWriteEnds, ClientReadPing, ClientReadPong,
                ClientReadOther, ClientReadEnds
  <2> QED
    BY <1>1, <2>1
<1>4. CASE \/ ClientSend \/ NextEvent \/ CloneTx \/ DropClone \/ DropClient
           \/ UNCHANGED vars
  <2>1. UNCHANGED <<streamVars, lost, call, hub_events>>
    BY <1>4 DEF ClientSend, NextEvent, CloneTx, DropClone, DropClient, vars
  <2> QED
    BY <1>1, <2>1
<1>5. CASE Lose
  <2>1. UNCHANGED <<streamVars, call, hub_events>> /\ lost'
    BY <1>5 DEF Lose
  <2> QED
    BY <2>1 DEF Early, Asked, Opened
<1>6. CASE HostServe \/ HostServeFails \/ HostReadEvent \/ HostReadEnds
  <2>1. UNCHANGED <<streamVars, lost, call>>
    BY <1>6 DEF HostServe, HostServeFails, HostReadEvent, HostReadEnds
  <2>2. CASE HostServe \/ HostServeFails
    <3>1. hub_events' = Append(hub_events, Message("RopeConnected", NoCall))
      BY <2>2 DEF HostServe, HostServeFails, Announce
    <3>2. Opened' = Opened
      BY <3>1, EventsOther, EventLaws, MessageFields
    <3> QED
      BY <2>1, <3>2 DEF Early, Asked
  <2>3. CASE HostReadEvent
    <3>1. hub_events' = Append(hub_events, Message("EventReceived", NoCall))
      BY <2>3 DEF HostReadEvent, Announce
    <3>2. Opened' = Opened
      BY <3>1, EventsOther, EventLaws, MessageFields
    <3> QED
      BY <2>1, <3>2 DEF Early, Asked
  <2>4. CASE HostReadEnds
    <3>1. Opened' = Opened
      BY <2>4, AnnounceGoneOther DEF HostReadEnds
    <3> QED
      BY <2>1, <3>1 DEF Early, Asked
  <2> QED
    BY <1>6, <2>2, <2>3, <2>4
<1>7. ASSUME NEW c \in Calls, WriteFrame(c)
      PROVE  /\ UNCHANGED streamVars /\ (lost => lost')
             /\ Early' \subseteq Early /\ Asked' = Asked /\ Opened' = Opened
  <2>1. UNCHANGED <<streamVars, lost, call, hub_events>>
    BY <1>7 DEF WriteFrame
  <2> QED
    BY <1>1, <2>1
<1>8. ASSUME NEW c \in Calls,
             \/ SendOpen(c) \/ SendOpenFails(c) \/ AwaitFails(c)
             \/ OpenUniFails(c) \/ SendConfig(c) \/ SendConfigFails(c)
             \/ Cancel(c) \/ DropStream(c)
      PROVE  /\ UNCHANGED streamVars /\ (lost => lost')
             /\ Early' \subseteq Early /\ Asked' = Asked /\ Opened' = Opened
  <2>1. UNCHANGED <<streamVars, lost, hub_events>>
    BY <1>8 DEF SendOpen, SendOpenFails, AwaitFails, OpenUniFails, SendConfig,
                SendConfigFails, Cancel, DropStream, CallStep
  <2>2. PICK state \in {"waiting", "open", "closed", "failed", "cancelled"} :
            /\ call' = [call EXCEPT ![c] = state]
            /\ call[c] # "idle"
            /\ state = "waiting" => call[c] = "registered"
    BY <1>8 DEF SendOpen, SendOpenFails, AwaitFails, OpenUniFails, SendConfig,
                SendConfigFails, Cancel, DropStream, CallStep, SetCall, Woken
  <2>3. Early' \subseteq Early /\ Asked' = Asked
    BY <2>2 DEF Early, Asked, TypeInv, TypeOK
  <2> QED
    BY <2>1, <2>3 DEF Opened
<1> QED
  BY <1>2, <1>3, <1>4, <1>5, <1>6, <1>7, <1>8 DEF Quiet

-----------------------------------------------------------------------------
(* Steps of the streams.                                                    *)

\* StreamInv holds on while no stream moves and no call goes back.
LEMMA StreamFrame ==
    ASSUME StreamInv, UNCHANGED streamVars, lost => lost', Early' \subseteq Early
    PROVE  StreamInv'
<1>1. (\E c \in Calls : handler'[c] = "dropped") => lost'
  BY DEF StreamInv, NoStrandedStream, streamVars
<1> QED
  BY <1>1 DEF StreamInv, NoStrandedStream, streamVars

\* A handler that is past the queue takes a step of its own.
LEMMA HandlerInv ==
    ASSUME TypeInv, StreamInv, NEW c \in Calls,
           handler[c] \in {"accepted", "recording"},
           NEW state \in {"accepted", "recording", "ended", "failed"},
           handler' = [handler EXCEPT ![c] = state],
           UNCHANGED <<call, granted_by, uni_queue, lost>>,
           \A d \in Calls : d # c => frames_seen'[d] = frames_seen[d]
    PROVE  StreamInv'
<1>1. \A d \in Calls : /\ d # c => handler'[d] = handler[d]
                       /\ handler'[c] = state
  BY DEF TypeInv, TypeOK
<1>2. \A i \in DOMAIN uni_queue : uni_queue[i] \in Calls
  BY DEF TypeInv, TypeOK, UniQueue
<1>3. Early' = Early /\ \A d \in Early : d \in Calls
  BY DEF Early
<1>4. \A d \in Early : handler'[d] = "none"
  BY <1>1, <1>3 DEF StreamInv
<1>5. \A d \in Calls : handler'[d] # "none" => granted_by[d] # NoCall
  BY <1>1 DEF StreamInv
<1>6. \A d \in Calls : frames_seen'[d] # 0 => handler'[d] # "none"
  BY <1>1 DEF StreamInv
<1>7. \A i \in DOMAIN uni_queue : handler'[uni_queue[i]] # "none"
  BY <1>1, <1>2 DEF StreamInv
<1>8. \A d \in Calls : handler'[d] = "queued" =>
                           \E i \in DOMAIN uni_queue : uni_queue[i] = d
  BY <1>1 DEF StreamInv
<1>9. NoStrandedStream'
  BY <1>1 DEF StreamInv, NoStrandedStream
<1> QED
  BY <1>3, <1>4, <1>5, <1>6, <1>7, <1>8, <1>9 DEF StreamInv

\* A handler's own steps keep StreamInv.
LEMMA HandleStreamInv ==
    ASSUME TypeInv, StreamInv, NEW c \in Calls, HandleStream(c)
    PROVE  StreamInv'
<1> USE DEF conn, hostTasks, hub, hostVars, clientTasks, clientVars,
            callVars, ropeVars, frames, uniVars, pipes, budgets, env
<1>1. CASE HandlerFrame(c)
  <2>1. /\ handler[c] = "recording" /\ handler' = handler
        /\ UNCHANGED <<call, granted_by, uni_queue, lost>>
        /\ frames_seen' = [frames_seen EXCEPT ![c] = @ + 1]
    BY <1>1 DEF HandlerFrame
  <2>2. handler' = [handler EXCEPT ![c] = "recording"]
    BY <2>1 DEF TypeInv, TypeOK
  <2>3. \A d \in Calls : d # c => frames_seen'[d] = frames_seen[d]
    BY <2>1 DEF TypeInv, TypeOK
  <2> QED
    BY <2>1, <2>2, <2>3, HandlerInv
<1>2. CASE ~HandlerFrame(c)
  <2>1. PICK state \in {"recording", "ended", "failed"} :
            handler' = [handler EXCEPT ![c] = state]
    BY <1>2 DEF HandleStream, HandlerOpens, HandlerEnds, HandlerNoConfig,
                HandlerFails, HandlerStep
  <2>2. /\ handler[c] \in {"accepted", "recording"}
        /\ UNCHANGED <<call, granted_by, uni_queue, lost, frames_seen>>
    BY <1>2 DEF HandleStream, HandlerOpens, HandlerEnds, HandlerNoConfig,
                HandlerFails, HandlerStep
  <2> QED
    BY <2>1, <2>2, HandlerInv
<1> QED
  BY <1>1, <1>2

\* Accepting a stream moves it from the queue to a handler.
LEMMA AcceptUniInv ==
    ASSUME TypeInv, StreamInv, AcceptUni
    PROVE  StreamInv'
<1> USE DEF conn, hostTasks, hub, hostVars, clientTasks, clientVars,
            callVars, ropeVars, frames, uniVars, pipes, budgets, env
<1> DEFINE h == Head(uni_queue)
<1>1. /\ uni_queue # <<>> /\ uni_queue' = Tail(uni_queue)
      /\ handler' = [handler EXCEPT ![h] = "accepted"]
      /\ UNCHANGED <<call, granted_by, frames_seen, lost>>
  BY DEF AcceptUni
<1>2. /\ Len(uni_queue) \in Nat \ {0} /\ DOMAIN uni_queue = 1..Len(uni_queue)
      /\ h = uni_queue[1] /\ h \in Calls
      /\ DOMAIN Tail(uni_queue) = 1..(Len(uni_queue) - 1)
      /\ \A i \in DOMAIN Tail(uni_queue) : Tail(uni_queue)[i] = uni_queue[i + 1]
      /\ \A i \in DOMAIN uni_queue : uni_queue[i] \in Calls
  BY <1>1 DEF TypeInv, TypeOK, UniQueue
<1>3. handler[h] # "none"
  BY <1>2 DEF StreamInv
<1>4. \A d \in Calls : /\ d # h => handler'[d] = handler[d]
                       /\ handler'[h] = "accepted"
  BY <1>1, <1>2 DEF TypeInv, TypeOK
<1>5. Early' = Early /\ \A d \in Early : d \in Calls /\ handler[d] = "none"
  BY <1>1 DEF Early, StreamInv
<1>6. \A d \in Early : handler'[d] = "none"
  BY <1>3, <1>4, <1>5
<1>7. \A d \in Calls : /\ handler'[d] # "none" => granted_by'[d] # NoCall
                       /\ frames_seen'[d] # 0 => handler'[d] # "none"
  BY <1>1, <1>3, <1>4 DEF StreamInv
<1>8. \A i \in DOMAIN uni_queue' : handler'[uni_queue'[i]] # "none"
  BY <1>1, <1>2, <1>4 DEF StreamInv
<1>9. ASSUME NEW d \in Calls, handler'[d] = "queued"
      PROVE  \E i \in DOMAIN uni_queue' : uni_queue'[i] = d
  <2>1. d # h /\ handler[d] = "queued"
    BY <1>4, <1>9
  <2>2. PICK j \in DOMAIN uni_queue : uni_queue[j] = d
    BY <2>1 DEF StreamInv
  <2>3. j # 1 /\ j - 1 \in DOMAIN Tail(uni_queue) /\ j - 1 + 1 = j
    BY <1>2, <2>1, <2>2
  <2>4. Tail(uni_queue)[j - 1] = d
    BY <1>2, <2>2, <2>3
  <2> QED
    BY <1>1, <2>3, <2>4
<1>10. NoStrandedStream'
  BY <1>1, <1>4 DEF StreamInv, NoStrandedStream
<1> QED
  BY <1>5, <1>6, <1>7, <1>8, <1>9, <1>10 DEF StreamInv

\* The accept loop ends only on a failed transport, which strands streams.
LEMMA AcceptEndsInv ==
    ASSUME TypeInv, StreamInv, AcceptEnds
    PROVE  StreamInv'
<1> USE DEF conn, hostTasks, hub, hostVars, clientTasks, clientVars,
            callVars, ropeVars, frames, uniVars, pipes, budgets, env
<1>1. /\ AcceptFails /\ uni_queue' = <<>>
      /\ handler' = [c \in Calls |-> IF handler[c] = "queued"
                                     THEN "dropped" ELSE handler[c]]
      /\ UNCHANGED <<call, granted_by, frames_seen, lost>>
  BY DEF AcceptEnds
<1>2. \A d \in Calls : /\ handler'[d] # "queued"
                       /\ (handler'[d] = "none") <=> (handler[d] = "none")
                       /\ handler'[d] = "dropped" =>
                              handler[d] \in {"queued", "dropped"}
  BY <1>1
<1>3. Early' = Early /\ \A d \in Early : d \in Calls
  BY <1>1 DEF Early
<1>4. /\ \A c \in Early : handler'[c] = "none"
      /\ \A c \in Calls : /\ handler'[c] # "none" => granted_by'[c] # NoCall
                          /\ frames_seen'[c] # 0 => handler'[c] # "none"
  BY <1>1, <1>2, <1>3 DEF StreamInv
<1>5. DOMAIN uni_queue' = {}
  BY <1>1
<1>6. NoStrandedStream'
  <2>1. ASSUME NEW c \in Calls, handler[c] = "queued", ~lost
        PROVE  FALSE
    <3>1. uni_queue = <<>>
      BY <1>1, <2>1 DEF AcceptFails
    <3> QED
      BY <2>1, <3>1 DEF StreamInv
  <2> QED
    BY <1>1, <1>2, <2>1 DEF StreamInv, NoStrandedStream
<1> QED
  BY <1>2, <1>3, <1>4, <1>5, <1>6 DEF StreamInv

\* Only a call that holds a grant opens a stream.
LEMMA OpenUniInv ==
    ASSUME TypeInv, StreamInv, NEW c \in Calls, OpenUni(c)
    PROVE  StreamInv'
<1> USE DEF conn, hostTasks, hub, hostVars, clientTasks, clientVars,
            callVars, ropeVars, frames, uniVars, pipes, budgets, env
<1>1. /\ call[c] = "waiting" /\ granted_by[c] # NoCall
      /\ uni_queue' = Append(uni_queue, c)
      /\ handler' = [handler EXCEPT ![c] = "queued"]
      /\ call' = [call EXCEPT ![c] = "configuring"]
      /\ UNCHANGED <<granted_by, frames_seen, lost>>
  BY DEF OpenUni, Woken, SetCall
<1>2. \A d \in Calls : /\ d # c => handler'[d] = handler[d]
                       /\ handler'[c] = "queued"
  BY <1>1 DEF TypeInv, TypeOK
<1>3. Early' \subseteq Early \ {c} /\ \A d \in Early : d \in Calls
  BY <1>1 DEF Early, TypeInv, TypeOK
<1>4. /\ Len(uni_queue) \in Nat /\ DOMAIN uni_queue = 1..Len(uni_queue)
      /\ DOMAIN uni_queue' = 1..(Len(uni_queue) + 1)
      /\ \A i \in DOMAIN uni_queue : uni_queue'[i] = uni_queue[i]
                                     /\ uni_queue[i] \in Calls
      /\ uni_queue'[Len(uni_queue) + 1] = c
  BY <1>1 DEF TypeInv, TypeOK, UniQueue
<1>5. \A d \in Early' : handler'[d] = "none"
  BY <1>2, <1>3 DEF StreamInv
<1>6. \A d \in Calls : /\ handler'[d] # "none" => granted_by'[d] # NoCall
                       /\ frames_seen'[d] # 0 => handler'[d] # "none"
  BY <1>1, <1>2 DEF StreamInv
<1>7. \A i \in DOMAIN uni_queue' : handler'[uni_queue'[i]] # "none"
  <2> SUFFICES ASSUME NEW i \in DOMAIN uni_queue'
               PROVE  handler'[uni_queue'[i]] # "none"
    OBVIOUS
  <2>1. CASE i \in DOMAIN uni_queue
    BY <1>2, <1>4, <2>1 DEF StreamInv
  <2>2. CASE i = Len(uni_queue) + 1
    BY <1>2, <1>4, <2>2
  <2> QED
    BY <1>4, <2>1, <2>2
<1>8. ASSUME NEW d \in Calls, handler'[d] = "queued"
      PROVE  \E i \in DOMAIN uni_queue' : uni_queue'[i] = d
  <2>1. CASE d = c
    BY <1>4, <2>1
  <2>2. CASE d # c
    <3>1. PICK i \in DOMAIN uni_queue : uni_queue[i] = d
      BY <1>2, <1>8, <2>2 DEF StreamInv
    <3> QED
      BY <1>4, <3>1
  <2> QED
    BY <2>1, <2>2
<1>9. NoStrandedStream'
  BY <1>1, <1>2 DEF StreamInv, NoStrandedStream
<1> QED
  BY <1>5, <1>6, <1>7, <1>8, <1>9 DEF StreamInv

\* A grant spent now is not that of a call whose stream exists already.
LEMMA ReadAcceptedInv ==
    ASSUME TypeInv, GrantInv, StreamInv, ClientReadAccepted
    PROVE  /\ StreamInv'
           /\ \A d \in Calls : handler[d] # "none" => granted_by'[d] = granted_by[d]
           /\ UNCHANGED <<handler, frames_seen, call, hub_events>>
<1> USE DEF conn, hostTasks, hub, hostVars, clientTasks, clientVars,
            callVars, ropeVars, frames, uniVars, pipes, budgets, env
<1> DEFINE g == Head(h2c).call
           w == pending_streams[StreamOf[g]]
<1>1. /\ UNCHANGED <<handler, uni_queue, frames_seen, lost, call, hub_events>>
      /\ Wake(w, g)
  BY DEF ClientReadAccepted
<1>2. \A d \in Calls : handler[d] # "none" => granted_by'[d] = granted_by[d]
  BY <1>1 DEF Wake, StreamInv, Early, TypeInv, TypeOK
<1>3. StreamInv'
  <2>1. Early' = Early
    BY <1>1 DEF Early
  <2>2. \A d \in Calls : handler'[d] # "none" => granted_by'[d] # NoCall
    BY <1>1, <1>2 DEF StreamInv
  <2>3. NoStrandedStream'
    BY <1>1 DEF StreamInv, NoStrandedStream
  <2> QED
    BY <1>1, <2>1, <2>2, <2>3 DEF StreamInv
<1> QED
  BY <1>1, <1>2, <1>3

-----------------------------------------------------------------------------

\* No stream exists initially.
LEMMA StreamInit == Init => StreamInv
<1> SUFFICES ASSUME Init PROVE StreamInv
  OBVIOUS
<1>1. /\ \A c \in Early : c \in Calls
      /\ \A c \in Calls : handler[c] = "none" /\ frames_seen[c] = 0
      /\ DOMAIN uni_queue = {}
  BY DEF Init, Early
<1> QED
  BY <1>1 DEF StreamInv, NoStrandedStream

\* Every step keeps the streams, their handlers and their grants together.
LEMMA StreamStep == TypeInv /\ GrantInv /\ StreamInv /\ [Next]_vars => StreamInv'
<1> SUFFICES ASSUME TypeInv, GrantInv, StreamInv, [Next]_vars PROVE StreamInv'
  OBVIOUS
<1> USE DEF conn, hostTasks, hub, hostVars, clientTasks, clientVars,
            callVars, ropeVars, frames, uniVars, pipes, budgets, env
<1>1. CASE AcceptUni
  BY <1>1, AcceptUniInv
<1>2. CASE AcceptEnds
  BY <1>2, AcceptEndsInv
<1>3. CASE ClientReadAccepted
  BY <1>3, ReadAcceptedInv
<1>4. CASE \E c \in Calls : HandleStream(c)
  BY <1>4, HandleStreamInv
<1>5. CASE \E c \in Calls : OpenUni(c)
  BY <1>5, OpenUniInv
<1>6. CASE HostReadOpen
  <2>1. UNCHANGED <<streamVars, lost, call>>
    BY <1>6 DEF HostReadOpen, streamVars
  <2> QED
    BY <2>1, StreamFrame DEF Early
<1>7. ASSUME NEW c \in Calls, Register(c)
      PROVE  StreamInv'
  <2>1. /\ UNCHANGED <<streamVars, lost>>
        /\ call[c] = "idle" /\ call' = [call EXCEPT ![c] = "registered"]
    BY <1>7 DEF Register, SetCall, streamVars
  <2>2. Early' = Early
    BY <2>1 DEF Early, TypeInv, TypeOK
  <2> QED
    BY <2>1, <2>2, StreamFrame
<1>8. CASE Quiet
  <2>1. UNCHANGED streamVars /\ (lost => lost') /\ Early' \subseteq Early
    BY <1>8, QuietStep, Zenon
  <2> QED
    BY <2>1, StreamFrame, Zenon
<1> QED
  BY <1>1, <1>2, <1>3, <1>4, <1>5, <1>6, <1>7, <1>8, Zenon
  DEF Next, Quiet, HandleConnection, HostReader, HostSender, TieTheKnot,
      ClientWriter, ClientReader, CreateStream, Application

AllInv == TypeInv /\ GrantInv /\ StreamInv

\* The three invariants hold together in every state.
THEOREM StreamInvariance == Spec => []AllInv
<1>1. Init => StreamInv
  BY StreamInit
<1>2. TypeInv /\ GrantInv /\ StreamInv /\ [Next]_vars => StreamInv'
  BY StreamStep
<1>3. Spec => [](TypeInv /\ GrantInv)
  BY GrantInvariance
<1> QED
  BY <1>1, <1>2, <1>3, PTL DEF Spec, AllInv

\* A stream the rope opened is left unhandled only if the transport failed:
\* handle_connection's accept loop (lib.rs) ends after a clean departure of the
\* rope only when the queue of opened streams is empty.
THEOREM StreamsAreNotStranded == Spec => []NoStrandedStream
<1>1. AllInv => NoStrandedStream
  BY DEF AllInv, StreamInv
<1> QED
  BY <1>1, StreamInvariance, PTL

-----------------------------------------------------------------------------
(* The refinement.                                                          *)

Spent == [c \in Calls |-> IF handler[c] = "none" THEN NoCall ELSE granted_by[c]]

Delivered == {c \in Calls : frames_seen[c] > 0}

\* A step that leaves the four mapped sets alone stutters in StreamGate.
LEMMA GateStutters ==
    ASSUME Asked' = Asked, Opened' = Opened, Spent' = Spent,
           Delivered' = Delivered
    PROVE  [Gate!Next]_(Gate!vars)
  BY DEF Gate!vars, Asked, Opened, Spent, Delivered

\* Every step of the tasks is one of StreamGate, or leaves it as it is.
LEMMA GateStep == AllInv /\ [Next]_vars => [Gate!Next]_(Gate!vars)
<1> SUFFICES ASSUME AllInv, [Next]_vars PROVE [Gate!Next]_(Gate!vars)
  OBVIOUS
<1> USE DEF conn, hostTasks, hub, hostVars, clientTasks, clientVars,
            callVars, ropeVars, frames, uniVars, pipes, budgets, env
<1>1. CASE AcceptUni
  <2>1. /\ UNCHANGED <<call, hub_events, granted_by, frames_seen>>
        /\ uni_queue # <<>>
        /\ handler' = [handler EXCEPT ![Head(uni_queue)] = "accepted"]
    BY <1>1 DEF AcceptUni
  <2>2. handler[Head(uni_queue)] # "none" /\ Head(uni_queue) \in Calls
    <3>1. Head(uni_queue) = uni_queue[1] /\ 1 \in DOMAIN uni_queue
          /\ uni_queue[1] \in Calls
      BY <2>1 DEF AllInv, TypeInv, TypeOK, UniQueue
    <3> QED
      BY <3>1 DEF AllInv, StreamInv
  <2>3. Spent' = Spent
    BY <2>1, <2>2 DEF Spent, AllInv, TypeInv, TypeOK
  <2> QED
    BY <2>1, <2>3, GateStutters DEF Asked, Opened, Delivered
<1>2. CASE AcceptEnds
  <2>1. /\ UNCHANGED <<call, granted_by, frames_seen>> /\ AnnounceGone
        /\ handler' = [c \in Calls |-> IF handler[c] = "queued"
                                       THEN "dropped" ELSE handler[c]]
    BY <1>2 DEF AcceptEnds
  <2>2. Opened' = Opened
    BY <2>1, AnnounceGoneOther DEF AllInv
  <2>3. Spent' = Spent
    BY <2>1 DEF Spent
  <2> QED
    BY <2>1, <2>2, <2>3, GateStutters DEF Asked, Delivered
<1>3. CASE ClientReadAccepted
  <2>1. /\ \A d \in Calls : handler[d] # "none" => granted_by'[d] = granted_by[d]
        /\ UNCHANGED <<handler, frames_seen, call, hub_events>>
    BY <1>3, ReadAcceptedInv DEF AllInv
  <2>2. Spent' = Spent
    BY <2>1 DEF Spent
  <2> QED
    BY <2>1, <2>2, GateStutters DEF Asked, Opened, Delivered
<1>4. ASSUME NEW c \in Calls, HandlerFrame(c)
      PROVE  [Gate!Next]_(Gate!vars)
  <2>1. /\ handler[c] = "recording"
        /\ UNCHANGED <<handler, call, granted_by>>
        /\ frames_seen' = [frames_seen EXCEPT ![c] = @ + 1]
        /\ hub_events' = Append(hub_events, Message("FrameReceived", c))
    BY <1>4 DEF HandlerFrame, Announce
  <2>2. Opened' = Opened
    BY <2>1, EventsOther, EventLaws, MessageFields DEF AllInv
  <2>3. Asked' = Asked /\ Spent' = Spent /\ Spent[c] # NoCall
    BY <2>1 DEF Asked, Spent, AllInv, StreamInv
  <2>4. Delivered' = Delivered \cup {c}
    BY <2>1 DEF Delivered, AllInv, TypeInv, TypeOK
  <2>5. Gate!Deliver(c)
    BY <2>2, <2>3, <2>4 DEF Gate!Deliver, Asked, Opened, Spent, Delivered
  <2> QED
    BY <2>5 DEF Gate!Next
<1>5. ASSUME NEW c \in Calls, HandleStream(c), ~HandlerFrame(c)
      PROVE  [Gate!Next]_(Gate!vars)
  <2>1. PICK state \in {"recording", "ended", "failed"} :
            handler' = [handler EXCEPT ![c] = state]
    BY <1>5 DEF HandleStream, HandlerOpens, HandlerEnds, HandlerNoConfig,
                HandlerFails, HandlerStep
  <2>2. /\ handler[c] # "none"
        /\ UNCHANGED <<call, granted_by, hub_events, frames_seen>>
    BY <1>5 DEF HandleStream, HandlerOpens, HandlerEnds, HandlerNoConfig,
                HandlerFails, HandlerStep
  <2>3. Spent' = Spent
    BY <2>1, <2>2 DEF Spent, AllInv, TypeInv, TypeOK
  <2> QED
    BY <2>2, <2>3, GateStutters DEF Asked, Opened, Delivered
<1>6. ASSUME NEW c \in Calls, OpenUni(c)
      PROVE  [Gate!Next]_(Gate!vars)
  <2> DEFINE g == granted_by[c]
  <2>1. /\ call[c] = "waiting" /\ g # NoCall
        /\ handler' = [handler EXCEPT ![c] = "queued"]
        /\ call' = [call EXCEPT ![c] = "configuring"]
        /\ UNCHANGED <<granted_by, frames_seen, hub_events>>
    BY <1>6 DEF OpenUni, Woken, SetCall
  <2>2. g \in Calls /\ handler[c] = "none" /\ c \in Asked
    BY <2>1 DEF Asked, AllInv, TypeInv, TypeOK, StreamInv, Early
  <2>3. g \in Opened /\ StreamOf[g] = StreamOf[c]
    BY <2>1 DEF Used, AllInv, GrantInv, GrantInOnePlace, GrantsSpentOnce
  <2>4. Spent[c] = NoCall
    BY <2>2 DEF Spent
  <2>5. \A d \in Calls : Spent[d] # g
    BY <2>1, <2>2 DEF Spent, AllInv, GrantInv, GrantsSpentOnce
  <2>6. Spent' = [Spent EXCEPT ![c] = g]
    BY <2>1, <2>2 DEF Spent, AllInv, TypeInv, TypeOK
  <2>7. Asked' = Asked /\ Opened' = Opened /\ Delivered' = Delivered
    BY <2>1 DEF Asked, Opened, Delivered, AllInv, TypeInv, TypeOK
  <2>8. \E h \in Calls : Gate!Open(c, h)
    BY <2>2, <2>3, <2>4, <2>5, <2>6, <2>7
    DEF Gate!Open, Asked, Opened, Spent, Delivered
  <2> QED
    BY <2>8 DEF Gate!Next
<1>7. CASE HostReadOpen
  <2> DEFINE c == Head(c2h).call
  <2>1. c \in Arriving /\ Opened' = Opened \cup {c}
    BY <1>7, GrantHostReadOpen DEF AllInv
  <2>2. UNCHANGED <<call, handler, granted_by, frames_seen>>
    BY <1>7 DEF HostReadOpen
  <2>3. c \in Calls /\ c \in Asked /\ c \notin Opened
    BY <2>1 DEF Asked, AllInv, GrantInv, RequestInOnePlace, Unsent
  <2>4. Asked' = Asked /\ Spent' = Spent /\ Delivered' = Delivered
    BY <2>2 DEF Asked, Spent, Delivered
  <2>5. Gate!Grant(c)
    BY <2>1, <2>3, <2>4 DEF Gate!Grant, Asked, Opened, Spent, Delivered
  <2> QED
    BY <2>3, <2>5 DEF Gate!Next
<1>8. ASSUME NEW c \in Calls, Register(c)
      PROVE  [Gate!Next]_(Gate!vars)
  <2>1. /\ UNCHANGED <<handler, granted_by, frames_seen, hub_events>>
        /\ call[c] = "idle" /\ call' = [call EXCEPT ![c] = "registered"]
    BY <1>8 DEF Register, SetCall
  <2>2. c \notin Asked /\ Asked' = Asked \cup {c}
    BY <2>1 DEF Asked, AllInv, TypeInv, TypeOK
  <2>3. Opened' = Opened /\ Spent' = Spent /\ Delivered' = Delivered
    BY <2>1 DEF Opened, Spent, Delivered
  <2>4. Gate!Ask(c)
    BY <2>2, <2>3 DEF Gate!Ask, Asked, Opened, Spent, Delivered
  <2> QED
    BY <2>4 DEF Gate!Next
<1>9. CASE Quiet
  <2>1. UNCHANGED streamVars /\ Asked' = Asked /\ Opened' = Opened
    BY <1>9, QuietStep, Zenon DEF AllInv
  <2>2. Spent' = Spent /\ Delivered' = Delivered
    BY <2>1 DEF streamVars, Spent, Delivered
  <2> QED
    BY <2>1, <2>2, GateStutters
<1> QED
  BY <1>1, <1>2, <1>3, <1>4, <1>5, <1>6, <1>7, <1>8, <1>9, Zenon
  DEF Next, Quiet, HandleConnection, HostReader, HostSender, TieTheKnot,
      ClientWriter, ClientReader, CreateStream, Application

\* The tasks of both sides, their queues and the pending_streams map (lib.rs)
\* keep the promise of StreamGate: no stream is opened, and no frame reaches
\* the application, but on an unspent accept of the same stream_id.
THEOREM ImplementsStreamGate == Spec => GateSpec
<1>1. Init => Gate!Init
  <2> SUFFICES ASSUME Init PROVE Gate!Init
    OBVIOUS
  <2>1. In(hub_events, "StreamOpened") = {}
    BY EmptyQueue DEF Init
  <2>2. /\ {c \in Calls : call[c] # "idle"} = {}
        /\ {c \in Calls : frames_seen[c] > 0} = {}
        /\ \A c \in Calls : handler[c] = "none"
    BY DEF Init
  <2> QED
    BY <2>1, <2>2 DEF Gate!Init
<1>2. AllInv /\ [Next]_vars => [Gate!Next]_(Gate!vars)
  BY GateStep
<1>3. Spec => []AllInv
  BY StreamInvariance
<1> QED
  BY <1>1, <1>2, <1>3, PTL DEF Spec, GateSpec, Gate!Spec

=============================================================================
