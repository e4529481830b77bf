------------------------ MODULE ControlChannelProofs ------------------------
(***************************************************************************)
(* Proofs about ControlChannel for any set of calls, any assignment of     *)
(* stream_ids to them, any bounds.                                         *)
(***************************************************************************)
EXTENDS ControlChannel, TLAPS

-----------------------------------------------------------------------------
(* Queues                                                                  *)

\* Every message the tasks build belongs to Messages.
LEMMA MessageLaws ==
    /\ \A type \in {"Welcome", "Event", "Ack", "Command", "Ping", "Pong"} :
           Plain(type) \in Messages
    /\ \A type \in {"StreamOpen", "StreamAccepted"}, c \in Calls \cup {NoCall} :
           Message(type, c) \in Messages
    /\ \A m \in Messages : m.call \in Calls \cup {NoCall}
  BY DEF Message, Plain, Messages

\* Every event the tasks build belongs to HubEvents.
LEMMA EventLaws ==
    /\ \A type \in {"RopeConnected", "EventReceived", "RopeDisconnected"} :
           Plain(type) \in HubEvents /\ Message(type, NoCall) \in HubEvents
    /\ \A type \in {"StreamOpened", "FrameReceived"}, c \in Calls \cup {NoCall} :
           Message(type, c) \in HubEvents
  BY DEF Message, Plain, HubEvents

\* What receiving and sending do to a queue of messages and its length.
LEMMA QueueLaws ==
    /\ <<>> \in MessageQueue /\ Len(<<>>) = 0
    /\ \A q \in MessageQueue :
           /\ Len(q) \in Nat
           /\ \A m \in Messages : /\ Append(q, m) \in MessageQueue
                                  /\ Len(Append(q, m)) = Len(q) + 1
           /\ q # <<>> => /\ Head(q) \in Messages
                          /\ Tail(q) \in MessageQueue
                          /\ Len(Tail(q)) = Len(q) - 1
           /\ \A running \in BOOLEAN, m \in Messages :
                  Enqueue(q, running, m) \in MessageQueue
  BY DEF MessageQueue, Enqueue

\* Sending an event gives an event log again.
LEMMA EventLogLaws ==
    /\ <<>> \in EventLog
    /\ \A log \in EventLog, e \in HubEvents : Append(log, e) \in EventLog
  BY DEF EventLog

\* What opening and accepting a stream do to the queue of opened streams.
LEMMA UniQueueLaws ==
    /\ <<>> \in UniQueue /\ Len(<<>>) = 0
    /\ \A q \in UniQueue :
           /\ Len(q) \in Nat
           /\ \A c \in Calls : /\ Append(q, c) \in UniQueue
                               /\ Len(Append(q, c)) = Len(q) + 1
           /\ q # <<>> => /\ Head(q) \in Calls
                          /\ Tail(q) \in UniQueue
                          /\ Len(Tail(q)) = Len(q) - 1
  BY DEF UniQueue

(* What appending to a queue, and taking its head, does to the calls of the *)
(* messages of one kind in it.                                              *)

\* Appending a message adds its call to those of its kind, and no other.
LEMMA InAppend ==
    ASSUME NEW S, NEW q \in Seq(S), NEW m \in S, NEW type
    PROVE  In(Append(q, m), type) =
               In(q, type) \cup (IF m.type = type THEN {m.call} ELSE {})
<1> DEFINE r == Append(q, m)
<1>1. /\ DOMAIN r = 1..(Len(q) + 1) /\ DOMAIN q = 1..Len(q)
      /\ \A i \in DOMAIN q : i \in DOMAIN r /\ r[i] = q[i]
      /\ r[Len(q) + 1] = m /\ Len(q) \in Nat
  OBVIOUS
<1>2. \A i \in DOMAIN r : i \in DOMAIN q \/ i = Len(q) + 1
  BY <1>1
<1> HIDE DEF r
<1>3. In(r, type) \subseteq
          In(q, type) \cup (IF m.type = type THEN {m.call} ELSE {})
  BY <1>1, <1>2 DEF In
<1>4. In(q, type) \subseteq In(r, type)
  BY <1>1 DEF In
<1>5. m.type = type => m.call \in In(r, type)
  BY <1>1 DEF In
<1> QED
  BY <1>3, <1>4, <1>5 DEF r

\* Taking the head of a queue loses no call but that of the head.
LEMMA InTail ==
    ASSUME NEW S, NEW q \in Seq(S), q # <<>>, NEW type
    PROVE  In(q, type) =
               In(Tail(q), type)
                 \cup (IF Head(q).type = type THEN {Head(q).call} ELSE {})
<1> DEFINE r == Tail(q)
<1>1. /\ DOMAIN q = 1..Len(q) /\ DOMAIN r = 1..(Len(q) - 1)
      /\ Len(q) \in Nat \ {0} /\ Head(q) = q[1] /\ 1 \in DOMAIN q
      /\ \A i \in DOMAIN r : i + 1 \in DOMAIN q /\ r[i] = q[i + 1]
  OBVIOUS
<1>2. \A i \in DOMAIN q : i = 1 \/ (i - 1 \in DOMAIN r /\ r[i - 1] = q[i])
  BY <1>1
<1> HIDE DEF r
<1>3. In(q, type) \subseteq
          In(r, type) \cup (IF Head(q).type = type THEN {Head(q).call} ELSE {})
  BY <1>1, <1>2 DEF In
<1>4. In(r, type) \subseteq In(q, type)
  BY <1>1 DEF In
<1>5. Head(q).type = type => Head(q).call \in In(q, type)
  BY <1>1 DEF In
<1> QED
  BY <1>3, <1>4, <1>5 DEF r

\* Each call has at most one message of the kind in q.
Once(q, type) ==
    \A i, j \in DOMAIN q :
        q[i].type = type /\ q[j].type = type /\ q[i].call = q[j].call => i = j

\* Appending a message of a call that has none leaves one per call.
LEMMA OnceAppend ==
    ASSUME NEW S, NEW q \in Seq(S), NEW m \in S, NEW type, Once(q, type),
           m.type = type => m.call \notin In(q, type)
    PROVE  Once(Append(q, m), type)
<1> DEFINE r == Append(q, m)
<1>1. /\ \A i \in DOMAIN q : r[i] = q[i]
      /\ r[Len(q) + 1] = m
      /\ \A i \in DOMAIN r : i \in DOMAIN q \/ i = Len(q) + 1
  OBVIOUS
<1> HIDE DEF r
<1>2. \A i \in DOMAIN q : q[i].type = type => q[i].call \in In(q, type)
  BY DEF In
<1>3. Once(r, type)
  BY <1>1, <1>2 DEF Once
<1> QED
  BY <1>3 DEF r

\* Taking the head leaves one message per call, and none of the head's.
LEMMA OnceTail ==
    ASSUME NEW S, NEW q \in Seq(S), q # <<>>, NEW type, Once(q, type)
    PROVE  /\ Once(Tail(q), type)
           /\ Head(q).type = type => Head(q).call \notin In(Tail(q), type)
<1> DEFINE r == Tail(q)
<1>1. /\ Head(q) = q[1] /\ 1 \in DOMAIN q
      /\ \A i \in DOMAIN r : i \in Nat \ {0} /\ i + 1 \in DOMAIN q
                             /\ r[i] = q[i + 1]
  OBVIOUS
<1> HIDE DEF r
<1>2. Once(r, type)
  <2> SUFFICES ASSUME NEW i \in DOMAIN r, NEW j \in DOMAIN r,
                      r[i].type = type, r[j].type = type, r[i].call = r[j].call
               PROVE  i = j
    BY DEF Once
  <2>1. i + 1 = j + 1
    BY <1>1 DEF Once
  <2> QED
    BY <1>1, <2>1
<1>3. ASSUME Head(q).type = type, Head(q).call \in In(r, type)
      PROVE  FALSE
  <2>1. PICK i \in DOMAIN r : r[i].type = type /\ r[i].call = Head(q).call
    BY <1>3 DEF In
  <2>2. i + 1 = 1
    BY <1>1, <1>3, <2>1 DEF Once
  <2> QED
    BY <1>1, <2>2
<1> QED
  BY <1>2, <1>3 DEF r

\* An empty queue holds no message of any kind.
LEMMA EmptyQueue ==
    ASSUME NEW type
    PROVE  In(<<>>, type) = {} /\ Once(<<>>, type)
  BY DEF In, Once

(* The same for the queues of the model, message by message.               *)

\* A message of another kind changes nothing for a kind, kept or dropped.
LEMMA EnqueueOther ==
    ASSUME NEW q \in MessageQueue, NEW m \in Messages, NEW running,
           NEW type, m.type # type
    PROVE  /\ In(Enqueue(q, running, m), type) = In(q, type)
           /\ Once(q, type) => Once(Enqueue(q, running, m), type)
<1>1. In(Append(q, m), type) = In(q, type)
  <2>1. In(Append(q, m), type) =
            In(q, type) \cup (IF m.type = type THEN {m.call} ELSE {})
    BY InAppend DEF MessageQueue
  <2> QED
    BY <2>1
<1>2. Once(q, type) => Once(Append(q, m), type)
  BY OnceAppend DEF MessageQueue
<1> QED
  BY <1>1, <1>2 DEF Enqueue

\* Appending a message of a kind adds its call to those of the kind.
LEMMA AppendToken ==
    ASSUME NEW q \in MessageQueue, NEW m \in Messages, NEW type, m.type = type
    PROVE  /\ In(Append(q, m), type) = In(q, type) \cup {m.call}
           /\ Once(q, type) /\ m.call \notin In(q, type) => Once(Append(q, m), type)
  BY InAppend, OnceAppend DEF MessageQueue

\* Taking a message of a kind takes its call from those of the kind.
LEMMA TailToken ==
    ASSUME NEW q \in MessageQueue, q # <<>>, NEW type, Head(q).type = type
    PROVE  /\ In(q, type) = In(Tail(q), type) \cup {Head(q).call}
           /\ Once(q, type) => /\ Once(Tail(q), type)
                               /\ Head(q).call \notin In(Tail(q), type)
  BY InTail, OnceTail DEF MessageQueue

\* Taking a message of another kind takes nothing from a kind.
LEMMA TailOther ==
    ASSUME NEW q \in MessageQueue, q # <<>>, NEW type, Head(q).type # type
    PROVE  /\ In(Tail(q), type) = In(q, type)
           /\ Once(q, type) => Once(Tail(q), type)
<1>1. In(Tail(q), type) = In(q, type)
  <2>1. In(q, type) =
            In(Tail(q), type)
              \cup (IF Head(q).type = type THEN {Head(q).call} ELSE {})
    BY InTail DEF MessageQueue
  <2> QED
    BY <2>1
<1>2. Once(q, type) => Once(Tail(q), type)
  BY OnceTail DEF MessageQueue
<1> QED
  BY <1>1, <1>2

\* Sending an event adds its call to those of its kind in the log.
LEMMA LogAppend ==
    ASSUME NEW log \in EventLog, NEW e \in HubEvents, NEW type
    PROVE  In(Append(log, e), type) =
               In(log, type) \cup (IF e.type = type THEN {e.call} ELSE {})
  BY InAppend DEF EventLog

\* A message has the kind and the call it was built with.
LEMMA MessageFields ==
    \A type, c : /\ Message(type, c).type = type /\ Message(type, c).call = c
                 /\ Plain(type).type = type
  BY DEF Message, Plain

-----------------------------------------------------------------------------
(* Type correctness.  The Welcome is written without asking for room, so    *)
(* the bound on h2c needs the pipe to be empty until then.                  *)

TypeInv ==
    /\ TypeOK
    /\ phase \in {"welcoming", "welcomed"} => ~host_sender
    /\ phase = "welcoming" => h2c = <<>>

\* The types and the capacities of the pipes hold in every state.
THEOREM TypeInvariance == Spec => []TypeInv
<1> USE ConstantsAssumption DEF ConstantsAssumption, TypeInv
<1>1. Init => TypeInv
  <2> SUFFICES ASSUME Init PROVE TypeInv
    OBVIOUS
  <2>1. <<>> \in MessageQueue /\ Len(<<>>) = 0 /\ <<>> \in EventLog /\ <<>> \in UniQueue
    BY QueueLaws, EventLogLaws, UniQueueLaws
  <2>2. /\ accepting \in Calls \cup {NoCall}
        /\ control_sender_rx \in MessageQueue /\ control_rx \in MessageQueue
        /\ event_rx \in MessageQueue /\ hub_events \in EventLog
        /\ c2h \in MessageQueue /\ h2c \in MessageQueue
        /\ uni_queue \in UniQueue
        /\ Len(c2h) = 0 /\ Len(h2c) = 0 /\ Len(uni_queue) = 0
    BY <2>1 DEF Init
  <2>3. /\ handler \in [Calls -> {"none", "queued", "accepted", "recording",
                                  "ended", "failed", "dropped"}]
        /\ call \in [Calls -> {"idle", "registered", "waiting", "configuring",
                               "open", "closed", "failed", "cancelled"}]
        /\ pending_streams \in [StreamIds -> Calls \cup {NoCall}]
        /\ granted_by \in [Calls -> Calls \cup {NoCall}]
        /\ frames_sent \in [Calls -> Nat] /\ frames_seen \in [Calls -> Nat]
    BY DEF Init
  <2>4. /\ flag_reader \in BOOLEAN /\ hub_holds \in BOOLEAN /\ lost \in BOOLEAN
        /\ host_reader \in BOOLEAN /\ host_sender \in BOOLEAN
        /\ client_reader \in BOOLEAN /\ client_writer \in BOOLEAN
    BY Zenon DEF Init
  <2>5. /\ phase = "welcoming" /\ client = "tying" /\ control_tx = {}
        /\ client_sends \in Nat /\ hub_sends \in Nat
    BY DEF Init
  <2>6. TypeOK
    BY <2>2, <2>3, <2>4, <2>5 DEF TypeOK
  <2> QED
    BY <2>6 DEF Init
<1>2. TypeInv /\ [Next]_vars => TypeInv'
  <2> SUFFICES ASSUME TypeInv, [Next]_vars
               PROVE  TypeInv'
    OBVIOUS
  <2> USE DEF TypeOK
  <2> USE DEF conn, hostTasks, hub, hostVars, clientTasks, clientVars,
              callVars, ropeVars, frames, uniVars, pipes, budgets, env
  <2>1. CASE HostWelcome
    <3>1. Append(h2c, Plain("Welcome")) \in MessageQueue
         /\ Len(Append(h2c, Plain("Welcome"))) = 1
      <4>1. h2c \in MessageQueue /\ Len(h2c) = 0
        BY <2>1, QueueLaws DEF HostWelcome
      <4>2. Plain("Welcome") \in Messages
        BY MessageLaws
      <4>3. /\ Append(h2c, Plain("Welcome")) \in MessageQueue
            /\ Len(Append(h2c, Plain("Welcome"))) = Len(h2c) + 1
        BY <4>1, <4>2, QueueLaws
      <4> QED
        BY <4>1, <4>3
    <3>2. h2c' \in MessageQueue /\ Len(h2c') <= PipeCap
      BY <2>1, <3>1 DEF HostWelcome
    <3> QED
      BY <2>1, <3>1, <3>2 DEF HostWelcome
  <2>2. CASE HostWelcomeFails
    BY <2>2 DEF HostWelcomeFails
  <2>3. CASE HostServe
    <3>1. hub_events' \in EventLog
      BY <2>3, EventLogLaws, EventLaws DEF HostServe, Announce
    <3> QED
      BY <2>3, <3>1 DEF HostServe, Announce
  <2>4. CASE HostServeFails
    <3>1. hub_events' \in EventLog
      BY <2>4, EventLogLaws, EventLaws DEF HostServeFails, Announce
    <3> QED
      BY <2>4, <3>1 DEF HostServeFails, Announce
  <2>5. CASE AcceptUni
    <3>1. uni_queue' \in UniQueue /\ Len(uni_queue') <= UniCap
      BY <2>5, UniQueueLaws DEF AcceptUni
    <3>2. handler' \in [Calls -> {"none", "queued", "accepted", "recording",
                              "ended", "failed", "dropped"}]
      BY <2>5, UniQueueLaws DEF AcceptUni
    <3> QED
      BY <2>5, <3>1, <3>2 DEF AcceptUni
  <2>6. CASE AcceptEnds
    <3>1. hub_events' \in EventLog
      BY <2>6, EventLogLaws, EventLaws DEF AcceptEnds, AnnounceGone
    <3>2. uni_queue' \in UniQueue /\ Len(uni_queue') <= UniCap
      BY <2>6, UniQueueLaws DEF AcceptEnds, AnnounceGone
    <3> QED
      BY <2>6, <3>1, <3>2 DEF AcceptEnds, AnnounceGone
  <2>7. CASE HostReadOpen
    <3>1. c2h' \in MessageQueue /\ Len(c2h') <= PipeCap
      BY <2>7, QueueLaws DEF HostReadOpen, HostReads, Announce
    <3>2. accepting' \in Calls \cup {NoCall}
      BY <2>7, QueueLaws, MessageLaws DEF HostReadOpen, HostReads, Announce
    <3>3. hub_events' \in EventLog
      BY <2>7, <3>2, EventLogLaws, EventLaws DEF HostReadOpen, HostReads, Announce
    <3> QED
      BY <2>7, <3>1, <3>2, <3>3 DEF HostReadOpen, HostReads, Announce
  <2>8. CASE HostAccept
    <3>1. control_sender_rx' \in MessageQueue
      BY <2>8, QueueLaws, MessageLaws DEF HostAccept
    <3> QED
      BY <2>8, <3>1 DEF HostAccept
  <2>9. CASE HostReadPing
    <3>1. c2h' \in MessageQueue /\ Len(c2h') <= PipeCap
      BY <2>9, QueueLaws DEF HostReadPing, HostReads
    <3>2. control_sender_rx' \in MessageQueue
      BY <2>9, QueueLaws, MessageLaws DEF HostReadPing, HostReads
    <3> QED
      BY <2>9, <3>1, <3>2 DEF HostReadPing, HostReads
  <2>10. CASE HostReadEvent
    <3>1. c2h' \in MessageQueue /\ Len(c2h') <= PipeCap
      BY <2>10, QueueLaws DEF HostReadEvent, HostReads, Announce
    <3>2. hub_events' \in EventLog
      BY <2>10, EventLogLaws, EventLaws DEF HostReadEvent, HostReads, Announce
    <3> QED
      BY <2>10, <3>1, <3>2 DEF HostReadEvent, HostReads, Announce
  <2>11. CASE HostReadOther
    <3>1. c2h' \in MessageQueue /\ Len(c2h') <= PipeCap
      BY <2>11, QueueLaws DEF HostReadOther, HostReads
    <3> QED
      BY <2>11, <3>1 DEF HostReadOther, HostReads
  <2>12. CASE HostReadEnds
    <3>1. hub_events' \in EventLog
      BY <2>12, EventLogLaws, EventLaws DEF HostReadEnds, AnnounceGone
    <3> QED
      BY <2>12, <3>1 DEF HostReadEnds, AnnounceGone
  <2>13. CASE HostSend
    <3>1. h2c' \in MessageQueue /\ Len(h2c') <= PipeCap
      BY <2>13, QueueLaws DEF HostSend
    <3>2. control_sender_rx' \in MessageQueue
      BY <2>13, QueueLaws DEF HostSend
    <3> QED
      BY <2>13, <3>1, <3>2 DEF HostSend
  <2>14. CASE HostSendEnds
    <3>1. host_sender' \in BOOLEAN /\ ~host_sender'
      BY <2>14, QueueLaws DEF HostSendEnds
    <3>2. control_sender_rx' \in MessageQueue
      BY <2>14, QueueLaws DEF HostSendEnds
    <3> QED
      BY <2>14, <3>1, <3>2 DEF HostSendEnds
  <2>15. CASE ReceiveWelcome
    <3>1. h2c' \in MessageQueue /\ Len(h2c') <= PipeCap
      BY <2>15, QueueLaws DEF ReceiveWelcome
    <3> QED
      BY <2>15, <3>1 DEF ReceiveWelcome
  <2>16. CASE TieFails
    BY <2>16 DEF TieFails, AbandonTie
  <2>17. CASE ClientWrite
    <3>1. c2h' \in MessageQueue /\ Len(c2h') <= PipeCap
      BY <2>17, QueueLaws DEF ClientWrite
    <3>2. control_rx' \in MessageQueue
      BY <2>17, QueueLaws DEF ClientWrite
    <3> QED
      BY <2>17, <3>1, <3>2 DEF ClientWrite
  <2>18. CASE ClientWriteEnds
    <3>1. client_writer' \in BOOLEAN
      BY <2>18, QueueLaws DEF ClientWriteEnds
    <3>2. control_rx' \in MessageQueue
      BY <2>18, QueueLaws DEF ClientWriteEnds
    <3> QED
      BY <2>18, <3>1, <3>2 DEF ClientWriteEnds
  <2>19. CASE ClientReadAccepted
    <3>1. h2c' \in MessageQueue /\ Len(h2c') <= PipeCap
      BY <2>19, QueueLaws DEF ClientReadAccepted, ClientReads, Wake, Forward
    <3>2. Head(h2c).call \in Calls \cup {NoCall}
      BY <2>19, QueueLaws, MessageLaws DEF ClientReadAccepted, ClientReads, Wake, Forward
    <3>3. event_rx' \in MessageQueue
      BY <2>19, QueueLaws DEF ClientReadAccepted, ClientReads, Wake, Forward, Enqueue
    <3>4. granted_by' \in [Calls -> Calls \cup {NoCall}]
      BY <2>19, <3>2 DEF ClientReadAccepted, ClientReads, Wake
    <3>5. pending_streams' \in [StreamIds -> Calls \cup {NoCall}]
      BY <2>19 DEF ClientReadAccepted, ClientReads
    <3>6. UNCHANGED <<hostVars, clientTasks, control_rx, control_tx, call,
                      uniVars, c2h, env>>
      BY <2>19 DEF ClientReadAccepted
    <3>7. phase # "welcoming"
      BY <2>19 DEF ClientReadAccepted, ClientReads
    <3> QED
      BY <3>1, <3>3, <3>4, <3>5, <3>6, <3>7
  <2>20. CASE ClientReadPing
    <3>1. h2c' \in MessageQueue /\ Len(h2c') <= PipeCap
      BY <2>20, QueueLaws DEF ClientReadPing, ClientReads
    <3>2. control_rx' \in MessageQueue
      BY <2>20, QueueLaws, MessageLaws DEF ClientReadPing, ClientReads
    <3> QED
      BY <2>20, <3>1, <3>2 DEF ClientReadPing, ClientReads
  <2>21. CASE ClientReadPong
    <3>1. h2c' \in MessageQueue /\ Len(h2c') <= PipeCap
      BY <2>21, QueueLaws DEF ClientReadPong, ClientReads
    <3> QED
      BY <2>21, <3>1 DEF ClientReadPong, ClientReads
  <2>22. CASE ClientReadOther
    <3>1. h2c' \in MessageQueue /\ Len(h2c') <= PipeCap
      BY <2>22, QueueLaws DEF ClientReadOther, ClientReads, Forward
    <3>2. event_rx' \in MessageQueue
      BY <2>22, QueueLaws DEF ClientReadOther, ClientReads, Forward, Enqueue
    <3> QED
      BY <2>22, <3>1, <3>2 DEF ClientReadOther, ClientReads, Forward
  <2>23. CASE ClientReadEnds
    <3>1. client_reader' \in BOOLEAN
      BY <2>23 DEF ClientReadEnds
    <3> QED
      BY <2>23, <3>1 DEF ClientReadEnds
  <2>24. CASE GiveUp
    BY <2>24 DEF GiveUp, AbandonTie
  <2>25. CASE ClientSend
    <3>1. PICK kind \in ClientKinds : control_rx' = Enqueue(control_rx, client_writer, Plain(kind))
      BY <2>25 DEF ClientSend
    <3>2. Plain(kind) \in Messages
      BY MessageLaws
    <3>3. control_rx' \in MessageQueue
      BY <3>1, <3>2, QueueLaws
    <3> QED
      BY <2>25, <3>3 DEF ClientSend
  <2>26. CASE NextEvent
    <3>1. event_rx' \in MessageQueue
      BY <2>26, QueueLaws DEF NextEvent
    <3> QED
      BY <2>26, <3>1 DEF NextEvent
  <2>27. CASE CloneTx
    BY <2>27 DEF CloneTx
  <2>28. CASE DropClone
    BY <2>28 DEF DropClone
  <2>29. CASE DropClient
    <3>1. event_rx' \in MessageQueue
      BY <2>29, QueueLaws DEF DropClient
    <3> QED
      BY <2>29, <3>1 DEF DropClient
  <2>30. CASE HubSend
    <3>1. PICK kind \in HubKinds : control_sender_rx' = Enqueue(control_sender_rx, host_sender, Plain(kind))
      BY <2>30 DEF HubSend
    <3>2. Plain(kind) \in Messages
      BY MessageLaws
    <3>3. control_sender_rx' \in MessageQueue
      BY <3>1, <3>2, QueueLaws
    <3> QED
      BY <2>30, <3>3 DEF HubSend
  <2>31. CASE HubDropSender
    <3>1. hub_holds' \in BOOLEAN
      BY <2>31 DEF HubDropSender
    <3> QED
      BY <2>31, <3>1 DEF HubDropSender
  <2>32. CASE Lose
    BY <2>32 DEF Lose
  <2>33. ASSUME NEW c \in Calls, HandlerOpens(c)
        PROVE  TypeInv'
    BY <2>33 DEF HandlerOpens, HandlerStep
  <2>34. ASSUME NEW c \in Calls, HandlerFrame(c)
        PROVE  TypeInv'
    <3>1. hub_events' \in EventLog
      BY <2>34, EventLogLaws, EventLaws DEF HandlerFrame, Announce
    <3> QED
      BY <2>34, <3>1 DEF HandlerFrame, Announce
  <2>35. ASSUME NEW c \in Calls, HandlerEnds(c)
        PROVE  TypeInv'
    BY <2>35 DEF HandlerEnds, HandlerStep
  <2>36. ASSUME NEW c \in Calls, HandlerNoConfig(c)
        PROVE  TypeInv'
    BY <2>36 DEF HandlerNoConfig, HandlerStep
  <2>37. ASSUME NEW c \in Calls, HandlerFails(c)
        PROVE  TypeInv'
    BY <2>37 DEF HandlerFails, HandlerStep
  <2>38. ASSUME NEW c \in Calls, SendOpen(c)
        PROVE  TypeInv'
    <3>1. control_rx' \in MessageQueue
      BY <2>38, QueueLaws, MessageLaws DEF SendOpen, SetCall
    <3> QED
      BY <2>38, <3>1 DEF SendOpen, SetCall
  <2>39. ASSUME NEW c \in Calls, SendOpenFails(c)
        PROVE  TypeInv'
    BY <2>39 DEF SendOpenFails, CallStep, SetCall
  <2>40. ASSUME NEW c \in Calls, AwaitFails(c)
        PROVE  TypeInv'
    BY <2>40 DEF AwaitFails, CallStep, SetCall
  <2>41. ASSUME NEW c \in Calls, OpenUni(c)
        PROVE  TypeInv'
    <3>1. uni_queue' \in UniQueue /\ Len(uni_queue') <= UniCap
      BY <2>41, UniQueueLaws DEF OpenUni, UniRoom, SetCall
    <3> QED
      BY <2>41, <3>1 DEF OpenUni, UniRoom, SetCall
  <2>42. ASSUME NEW c \in Calls, OpenUniFails(c)
        PROVE  TypeInv'
    BY <2>42 DEF OpenUniFails, CallStep, SetCall
  <2>43. ASSUME NEW c \in Calls, SendConfig(c)
        PROVE  TypeInv'
    BY <2>43 DEF SendConfig, CallStep, SetCall
  <2>44. ASSUME NEW c \in Calls, SendConfigFails(c)
        PROVE  TypeInv'
    BY <2>44 DEF SendConfigFails, CallStep, SetCall
  <2>45. ASSUME NEW c \in Calls, Register(c)
        PROVE  TypeInv'
    BY <2>45 DEF Register, SetCall
  <2>46. ASSUME NEW c \in Calls, Cancel(c)
        PROVE  TypeInv'
    BY <2>46 DEF Cancel, CallStep, SetCall
  <2>47. ASSUME NEW c \in Calls, WriteFrame(c)
        PROVE  TypeInv'
    BY <2>47 DEF WriteFrame
  <2>48. ASSUME NEW c \in Calls, DropStream(c)
        PROVE  TypeInv'
    BY <2>48 DEF DropStream, CallStep, SetCall
  <2>49. CASE UNCHANGED vars
    BY <2>49 DEF vars
  <2> QED
    BY <2>1, <2>2, <2>3, <2>4, <2>5, <2>6, <2>7, <2>8, <2>9, <2>10, <2>11,
       <2>12, <2>13, <2>14, <2>15, <2>16, <2>17, <2>18, <2>19, <2>20, <2>21,
       <2>22, <2>23, <2>24, <2>25, <2>26, <2>27, <2>28, <2>29, <2>30, <2>31,
       <2>32, <2>33, <2>34, <2>35, <2>36, <2>37, <2>38, <2>39, <2>40, <2>41,
       <2>42, <2>43, <2>44, <2>45, <2>46, <2>47, <2>48, <2>49
    DEF Next, HandleConnection, HostReader, HostSender, TieTheKnot,
        ClientWriter, ClientReader, HandleStream, CreateStream, Application
<1> QED
  BY <1>1, <1>2, PTL DEF Spec

\* Every variable keeps its type; in particular neither pipe of the control
\* stream nor the transport's queue of opened streams (mock.rs) overflows.
THEOREM TypeCorrectness == Spec => []TypeOK
<1>1. TypeInv => TypeOK
  BY DEF TypeInv
<1> QED
  BY <1>1, TypeInvariance, PTL

=============================================================================
