-------------------------- MODULE EventOrderProofs --------------------------
(***************************************************************************)
(* What the hub's application is told, although three kinds of tasks tell  *)
(* it: handle_connection, its control reader and one handler per stream.   *)
(* The events come in order, the end of a rope is told exactly when one of *)
(* the two tasks serving it ended, and a frame that was written and not    *)
(* yet told of is held by a task that will.                                *)
(***************************************************************************)
EXTENDS StreamGateProofs

Gone == {i \in DOMAIN hub_events : hub_events[i].type = "RopeDisconnected"}

\* The flag tells whether RopeDisconnected was sent; nothing is sent before
\* handle_connection announces the rope, and the reader starts after that.
EventInv ==
    /\ FramesFollowStreamOpened
    /\ LifecycleOrder
    /\ ~flag_reader => Gone = {}
    /\ phase \in {"welcoming", "welcomed"} => hub_events = <<>> /\ ~host_reader
    /\ phase \in {"serving", "returned"} \/ host_reader => hub_events # <<>>

\* The steps that send no event and leave handle_connection and the reader be.
Silent ==
    \/ AcceptUni
    \/ HostAccept \/ HostReadPing \/ HostReadOther
    \/ HostSend \/ HostSendEnds \/ HubSend \/ HubDropSender
    \/ ReceiveWelcome \/ TieFails \/ GiveUp
    \/ ClientWrite \/ ClientWriteEnds
    \/ ClientReadAccepted \/ ClientReadPing \/ ClientReadPong
    \/ ClientReadOther \/ ClientReadEnds
    \/ ClientSend \/ NextEvent \/ CloneTx \/ DropClone \/ DropClient
    \/ Lose
    \/ \E c \in Calls :
           \/ HandlerOpens(c) \/ HandlerEnds(c) \/ HandlerNoConfig(c)
           \/ HandlerFails(c)
           \/ Register(c) \/ SendOpen(c) \/ SendOpenFails(c) \/ AwaitFails(c)
           \/ OpenUni(c) \/ OpenUniFails(c) \/ SendConfig(c)
           \/ SendConfigFails(c)
           \/ Cancel(c) \/ WriteFrame(c) \/ DropStream(c)
    \/ UNCHANGED vars

eventVars == <<hub_events, flag_reader, phase, host_reader>>

\* A step that sends no event leaves what was sent, and both tasks, alone.
LEMMA SilentFrame ==
    ASSUME Silent
    PROVE  UNCHANGED eventVars
<1> USE DEF conn, hostTasks, hub, hostVars, clientTasks, clientVars,
            callVars, ropeVars, frames, uniVars, pipes, budgets, env, eventVars
<1>1. CASE \/ AcceptUni
           \/ HostAccept \/ HostReadPing \/ HostReadOther
           \/ HostSend \/ HostSendEnds \/ HubSend \/ HubDropSender
  BY <1>1 DEF AcceptUni, HostAccept, HostReadPing, HostReadOther, HostSend,
              HostSendEnds, HubSend, HubDropSender
<1>2. CASE \/ ReceiveWelcome \/ TieFails \/ GiveUp
           \/ ClientWrite \/ ClientWriteEnds
           \/ ClientReadAccepted \/ ClientReadPing \/ ClientReadPong
           \/ ClientReadOther \/ ClientReadEnds
  BY <1>2 DEF ReceiveWelcome, TieFails, GiveUp, AbandonTie, ClientWrite,
              ClientWriteEnds, ClientReadAccepted, ClientReadPing,
              ClientReadPong, ClientReadOther, ClientReadEnds
<1>3. CASE \/ ClientSend \/ NextEvent \/ CloneTx \/ DropClone \/ DropClient
           \/ Lose \/ UNCHANGED vars
  BY <1>3 DEF ClientSend, NextEvent, CloneTx, DropClone, DropClient, Lose, vars
<1>4. ASSUME NEW c \in Calls,
             \/ HandlerOpens(c) \/ HandlerEnds(c) \/ HandlerNoConfig(c)
             \/ HandlerFails(c)
             \/ Register(c) \/ SendOpen(c) \/ SendOpenFails(c) \/ AwaitFails(c)
             \/ OpenUni(c) \/ OpenUniFails(c) \/ SendConfig(c)
             \/ SendConfigFails(c)
             \/ Cancel(c) \/ WriteFrame(c) \/ DropStream(c)
      PROVE  UNCHANGED eventVars
  BY <1>4 DEF HandlerOpens, HandlerEnds, HandlerNoConfig, HandlerFails,
              HandlerStep, Register, SendOpen, SendOpenFails, AwaitFails,
              OpenUni, OpenUniFails, SendConfig, SendConfigFails, Cancel,
              WriteFrame, DropStream, CallStep
<1> QED
  BY <1>1, <1>2, <1>3, <1>4 DEF Silent

\* A step that sends no event keeps the order of those that were sent.
LEMMA SilentStep ==
    ASSUME EventInv, Silent
    PROVE  EventInv'
<1>1. UNCHANGED eventVars
  BY SilentFrame
<1> QED
  BY <1>1 DEF EventInv, FramesFollowStreamOpened, LifecycleOrder, Gone, eventVars

-----------------------------------------------------------------------------
(* What one more event does to the order.                                   *)

\* Sending an event puts it after all that were sent.
LEMMA OneMoreEvent ==
    ASSUME TypeInv, EventInv, NEW e \in HubEvents,
           hub_events' = Append(hub_events, e)
    PROVE  /\ Len(hub_events) \in Nat
           /\ DOMAIN hub_events = 1..Len(hub_events)
           /\ DOMAIN hub_events' = 1..(Len(hub_events) + 1)
           /\ \A i \in DOMAIN hub_events : hub_events'[i] = hub_events[i]
           /\ hub_events'[Len(hub_events) + 1] = e
           /\ hub_events' # <<>>
<1>1. hub_events \in Seq(HubEvents)
  BY DEF TypeInv, TypeOK, EventLog
<1>2. /\ Len(hub_events) \in Nat
      /\ DOMAIN hub_events = 1..Len(hub_events)
      /\ DOMAIN hub_events' = 1..(Len(hub_events) + 1)
  BY <1>1
<1>3. /\ \A i \in DOMAIN hub_events : hub_events'[i] = hub_events[i]
      /\ hub_events'[Len(hub_events) + 1] = e
  BY <1>1, <1>2
<1>4. hub_events' # <<>>
  BY <1>2
<1> QED
  BY <1>2, <1>3, <1>4

\* An event between RopeConnected and RopeDisconnected.
LEMMA InnerEvent ==
    ASSUME TypeInv, EventInv, hub_events # <<>>, NEW e \in HubEvents,
           e.type \notin {"RopeConnected", "RopeDisconnected"},
           hub_events' = Append(hub_events, e)
    PROVE  /\ LifecycleOrder' /\ Gone' = Gone /\ hub_events' # <<>>
           /\ e.type # "FrameReceived" => FramesFollowStreamOpened'
<1>1. /\ Len(hub_events) \in Nat \ {0}
      /\ DOMAIN hub_events = 1..Len(hub_events)
      /\ DOMAIN hub_events' = 1..(Len(hub_events) + 1)
      /\ \A i \in DOMAIN hub_events : hub_events'[i] = hub_events[i]
      /\ hub_events'[Len(hub_events) + 1] = e
      /\ hub_events' # <<>>
  <2>1. hub_events \in EventLog
    BY DEF TypeInv, TypeOK
  <2>2. Len(hub_events) # 0
    BY <2>1 DEF EventLog
  <2> QED
    BY <2>2, OneMoreEvent
<1>2. LifecycleOrder'
  BY <1>1 DEF EventInv, LifecycleOrder
<1>3. Gone' = Gone
  BY <1>1 DEF Gone
<1>4. e.type # "FrameReceived" => FramesFollowStreamOpened'
  BY <1>1 DEF EventInv, FramesFollowStreamOpened
<1> QED
  BY <1>1, <1>2, <1>3, <1>4

\* Ending, by whichever of the two tasks ends first.
LEMMA GoneEvent ==
    ASSUME TypeInv, EventInv, hub_events # <<>>, AnnounceGone
    PROVE  /\ LifecycleOrder' /\ FramesFollowStreamOpened'
           /\ flag_reader' /\ hub_events' # <<>>
<1>1. CASE flag_reader
  <2>1. hub_events' = hub_events /\ flag_reader'
    BY <1>1 DEF AnnounceGone
  <2> QED
    BY <2>1 DEF EventInv, LifecycleOrder, FramesFollowStreamOpened
<1>2. CASE ~flag_reader
  <2> DEFINE e == Plain("RopeDisconnected")
  <2>1. hub_events' = Append(hub_events, e) /\ flag_reader'
    BY <1>2 DEF AnnounceGone
  <2>2. e \in HubEvents /\ e.type = "RopeDisconnected"
    BY EventLaws, MessageFields
  <2> HIDE DEF e
  <2>3. /\ Len(hub_events) \in Nat \ {0}
        /\ DOMAIN hub_events = 1..Len(hub_events)
        /\ DOMAIN hub_events' = 1..(Len(hub_events) + 1)
        /\ \A i \in DOMAIN hub_events : hub_events'[i] = hub_events[i]
        /\ hub_events'[Len(hub_events) + 1] = e
        /\ hub_events' # <<>>
    <3>1. hub_events \in EventLog
      BY DEF TypeInv, TypeOK
    <3>2. Len(hub_events) # 0
      BY <3>1 DEF EventLog
    <3> QED
      BY <2>1, <2>2, <3>2, OneMoreEvent
  <2>4. \A i \in DOMAIN hub_events : hub_events[i].type # "RopeDisconnected"
    BY <1>2 DEF EventInv, Gone
  <2>5. LifecycleOrder'
    BY <2>2, <2>3, <2>4 DEF EventInv, LifecycleOrder
  <2>6. FramesFollowStreamOpened'
    BY <2>2, <2>3 DEF EventInv, FramesFollowStreamOpened
  <2> QED
    BY <2>1, <2>3, <2>5, <2>6
<1> QED
  BY <1>1, <1>2

-----------------------------------------------------------------------------

\* Every step of every task keeps the events in order.
LEMMA EventStep == AllInv /\ EventInv /\ [Next]_vars => EventInv'
<1> SUFFICES ASSUME AllInv, EventInv, [Next]_vars PROVE EventInv'
  OBVIOUS
<1> USE DEF conn, hostTasks, hub, hostVars, clientTasks, clientVars,
            callVars, ropeVars, frames, uniVars, pipes, budgets, env
<1>0. TypeInv
  BY DEF AllInv
<1>1. CASE Silent
  BY <1>1, SilentStep
<1>2. CASE HostWelcome \/ HostWelcomeFails
  <2>1. /\ UNCHANGED <<hub_events, flag_reader, host_reader>>
        /\ phase = "welcoming" /\ phase' \in {"welcomed", "aborted"}
    BY <1>2 DEF HostWelcome, HostWelcomeFails
  <2> QED
    BY <2>1 DEF EventInv, FramesFollowStreamOpened, LifecycleOrder, Gone
<1>3. CASE HostServe \/ HostServeFails
  <2> DEFINE e == Message("RopeConnected", NoCall)
  <2>1. /\ hub_events = <<>> /\ hub_events' = Append(hub_events, e)
        /\ flag_reader' = flag_reader /\ phase' \in {"serving", "aborted"}
    BY <1>3 DEF HostServe, HostServeFails, Announce, EventInv
  <2>2. e \in HubEvents /\ e.type = "RopeConnected"
    BY EventLaws, MessageFields
  <2> HIDE DEF e
  <2>3. /\ DOMAIN hub_events' = {1} /\ hub_events'[1] = e
        /\ hub_events' # <<>>
    BY <2>1
  <2>4. FramesFollowStreamOpened' /\ LifecycleOrder' /\ Gone' = {}
    BY <2>2, <2>3 DEF FramesFollowStreamOpened, LifecycleOrder, Gone
  <2> QED
    BY <2>1, <2>3, <2>4 DEF EventInv
<1>4. CASE AcceptEnds
  <2>1. /\ AnnounceGone /\ hub_events # <<>> /\ phase' = "returned"
    BY <1>4 DEF AcceptEnds, EventInv
  <2>2. /\ LifecycleOrder' /\ FramesFollowStreamOpened'
        /\ flag_reader' /\ hub_events' # <<>>
    BY <1>0, <2>1, GoneEvent
  <2> QED
    BY <2>1, <2>2 DEF EventInv
<1>5. CASE HostReadEnds
  <2>1. /\ AnnounceGone /\ hub_events # <<>> /\ phase' = phase
        /\ phase \notin {"welcoming", "welcomed"}
    BY <1>5 DEF HostReadEnds, EventInv
  <2>2. /\ LifecycleOrder' /\ FramesFollowStreamOpened'
        /\ flag_reader' /\ hub_events' # <<>>
    BY <1>0, <2>1, GoneEvent
  <2> QED
    BY <2>1, <2>2 DEF EventInv
<1>6. CASE HostReadOpen
  <2> DEFINE e == Message("StreamOpened", Head(c2h).call)
  <2>1. /\ hub_events' = Append(hub_events, e) /\ hub_events # <<>>
        /\ UNCHANGED <<flag_reader, phase, host_reader>>
        /\ phase \notin {"welcoming", "welcomed"}
    BY <1>6 DEF HostReadOpen, HostReads, Announce, EventInv
  <2>2. e \in HubEvents /\ e.type = "StreamOpened"
    <3>1. Head(c2h).call \in Arriving
      BY <1>6, GrantHostReadOpen DEF AllInv
    <3>2. Head(c2h).call \in Calls
      BY <3>1 DEF AllInv, GrantInv, RequestInOnePlace
    <3> QED
      BY <3>2, EventLaws, MessageFields
  <2> HIDE DEF e
  <2>3. /\ LifecycleOrder' /\ Gone' = Gone /\ hub_events' # <<>>
        /\ FramesFollowStreamOpened'
    BY <1>0, <2>1, <2>2, InnerEvent
  <2> QED
    BY <2>1, <2>3 DEF EventInv
<1>7. CASE HostReadEvent
  <2> DEFINE e == Message("EventReceived", NoCall)
  <2>1. /\ hub_events' = Append(hub_events, e) /\ hub_events # <<>>
        /\ UNCHANGED <<flag_reader, phase, host_reader>>
        /\ phase \notin {"welcoming", "welcomed"}
    BY <1>7 DEF HostReadEvent, HostReads, Announce, EventInv
  <2>2. e \in HubEvents /\ e.type = "EventReceived"
    BY EventLaws, MessageFields
  <2> HIDE DEF e
  <2>3. /\ LifecycleOrder' /\ Gone' = Gone /\ hub_events' # <<>>
        /\ FramesFollowStreamOpened'
    BY <1>0, <2>1, <2>2, InnerEvent
  <2> QED
    BY <2>1, <2>3 DEF EventInv
<1>8. ASSUME NEW c \in Calls, HandlerFrame(c)
      PROVE  EventInv'
  <2> DEFINE e == Message("FrameReceived", c)
  <2>1. /\ hub_events' = Append(hub_events, e)
        /\ UNCHANGED <<flag_reader, phase, host_reader>>
        /\ handler[c] = "recording"
    BY <1>8 DEF HandlerFrame, Announce
  <2>2. e \in HubEvents /\ e.type = "FrameReceived" /\ e.call = c
    BY EventLaws, MessageFields
  <2> HIDE DEF e
  <2>3. PICK j \in DOMAIN hub_events :
            /\ hub_events[j].type = "StreamOpened"
            /\ StreamOf[hub_events[j].call] = StreamOf[c]
    <3>1. granted_by[c] # NoCall
      BY <2>1 DEF AllInv, StreamInv
    <3>2. granted_by[c] \in Opened /\ StreamOf[granted_by[c]] = StreamOf[c]
      BY <3>1 DEF Used, AllInv, GrantInv, GrantInOnePlace, GrantsSpentOnce
    <3> QED
      BY <3>2 DEF Opened, In
  <2>4. hub_events # <<>>
    BY <2>3
  <2>5. LifecycleOrder' /\ Gone' = Gone /\ hub_events' # <<>>
    BY <1>0, <2>1, <2>2, <2>4, InnerEvent
  <2>6. FramesFollowStreamOpened'
    <3>1. /\ Len(hub_events) \in Nat
          /\ DOMAIN hub_events = 1..Len(hub_events)
          /\ DOMAIN hub_events' = 1..(Len(hub_events) + 1)
          /\ \A i \in DOMAIN hub_events : hub_events'[i] = hub_events[i]
          /\ hub_events'[Len(hub_events) + 1] = e
      BY <1>0, <2>1, <2>2, OneMoreEvent
    <3> SUFFICES ASSUME NEW i \in DOMAIN hub_events',
                        hub_events'[i].type = "FrameReceived"
                 PROVE  \E k \in 1..(i - 1) :
                            /\ hub_events'[k].type = "StreamOpened"
                            /\ StreamOf[hub_events'[k].call] =
                                   StreamOf[hub_events'[i].call]
      BY DEF FramesFollowStreamOpened
    <3>2. CASE i \in DOMAIN hub_events
      BY <3>1, <3>2 DEF EventInv, FramesFollowStreamOpened
    <3>3. CASE i = Len(hub_events) + 1
      <4>1. j \in 1..(i - 1) /\ hub_events'[j] = hub_events[j]
        BY <3>1, <3>3
      <4> QED
        BY <2>2, <2>3, <3>1, <3>3, <4>1
    <3> QED
      BY <3>1, <3>2, <3>3
  <2>7. phase \notin {"welcoming", "welcomed"}
    BY <2>4 DEF EventInv
  <2> QED
    BY <2>1, <2>5, <2>6, <2>7 DEF EventInv
<1> QED
  BY <1>1, <1>2, <1>3, <1>4, <1>5, <1>6, <1>7, <1>8, Zenon
  DEF Next, Silent, HandleConnection, HostReader, HostSender, HandleStream,
      TieTheKnot, ClientWriter, ClientReader, CreateStream, Application

\* The events are in order in every state.
THEOREM EventInvariance == Spec => []EventInv
<1>1. Init => EventInv
  BY DEF Init, EventInv, FramesFollowStreamOpened, LifecycleOrder, Gone
<1>2. AllInv /\ EventInv /\ [Next]_vars => EventInv'
  BY EventStep
<1>3. Spec => []AllInv
  BY StreamInvariance
<1> QED
  BY <1>1, <1>2, <1>3, PTL DEF Spec

\* The hub's application hears of a stream_id before any frame of a stream with
\* that id, although the reader and the stream's handler (lib.rs) are separate
\* tasks reading separate streams.
THEOREM FramesComeAfterTheirStream == Spec => []FramesFollowStreamOpened
<1>1. EventInv => FramesFollowStreamOpened
  BY DEF EventInv
<1> QED
  BY <1>1, EventInvariance, PTL

\* RopeConnected comes first and once, RopeDisconnected at most once, whichever
\* of the accept loop and the control reader (lib.rs) ends first.
THEOREM LifecycleIsOrdered == Spec => []LifecycleOrder
<1>1. EventInv => LifecycleOrder
  BY DEF EventInv
<1> QED
  BY <1>1, EventInvariance, PTL

-----------------------------------------------------------------------------
(* Who tells the hub that a rope is gone.  EndsAreTold is not inductive: the *)
(* flag the two tasks share has to be tied to the event it stands for, and   *)
(* the reader to the phases in which it may run.                             *)

Told == In(hub_events, "RopeDisconnected") # {}

TaskEnded == phase = "returned" \/ (phase = "serving" /\ ~host_reader)

EndsInv ==
    /\ flag_reader <=> Told
    /\ flag_reader <=> TaskEnded
    /\ host_reader => phase \in {"serving", "returned"}

\* Any event but RopeDisconnected tells nothing of the end.
LEMMA OtherEvent ==
    ASSUME TypeInv, NEW e \in HubEvents, e.type # "RopeDisconnected",
           hub_events' = Append(hub_events, e)
    PROVE  Told' = Told
<1>1. hub_events \in EventLog
  BY DEF TypeInv, TypeOK
<1>2. In(Append(hub_events, e), "RopeDisconnected") =
          In(hub_events, "RopeDisconnected")
            \cup (IF e.type = "RopeDisconnected" THEN {e.call} ELSE {})
  BY <1>1, LogAppend
<1>3. In(Append(hub_events, e), "RopeDisconnected") =
          In(hub_events, "RopeDisconnected")
  BY <1>2
<1> QED
  BY <1>3 DEF Told, In

\* After the swap of the flag the hub has been told, by this task or before.
LEMMA SwapTells ==
    ASSUME TypeInv, EndsInv, AnnounceGone
    PROVE  flag_reader' /\ Told'
<1>1. CASE flag_reader
  BY <1>1 DEF AnnounceGone, EndsInv, Told, In
<1>2. CASE ~flag_reader
  <2> DEFINE e == Plain("RopeDisconnected")
  <2>1. hub_events' = Append(hub_events, e) /\ flag_reader'
    BY <1>2 DEF AnnounceGone
  <2>2. e \in HubEvents /\ e.type = "RopeDisconnected"
    BY EventLaws, MessageFields
  <2> HIDE DEF e
  <2>3. hub_events \in EventLog
    BY DEF TypeInv, TypeOK
  <2>4. In(Append(hub_events, e), "RopeDisconnected") =
            In(hub_events, "RopeDisconnected") \cup {e.call}
    BY <2>2, <2>3, LogAppend
  <2>5. In(Append(hub_events, e), "RopeDisconnected") # {}
    BY <2>4
  <2> QED
    BY <2>1, <2>5 DEF Told, In
<1> QED
  BY <1>1, <1>2

\* No task ends, or announces an end, but in step with the other.
LEMMA EndsStep == TypeInv /\ EndsInv /\ [Next]_vars => EndsInv'
<1> SUFFICES ASSUME TypeInv, EndsInv, [Next]_vars PROVE EndsInv'
  OBVIOUS
<1> USE DEF conn, hostTasks, hub, hostVars, clientTasks, clientVars,
            callVars, ropeVars, frames, uniVars, pipes, budgets, env
<1>1. CASE Silent
  <2>1. UNCHANGED eventVars
    BY <1>1, SilentFrame
  <2> QED
    BY <2>1 DEF EndsInv, Told, TaskEnded, In, eventVars
<1>2. CASE HostWelcome \/ HostWelcomeFails
  <2>1. /\ UNCHANGED <<hub_events, flag_reader, host_reader>>
        /\ phase = "welcoming" /\ phase' \in {"welcomed", "aborted"}
    BY <1>2 DEF HostWelcome, HostWelcomeFails
  <2> QED
    BY <2>1 DEF EndsInv, Told, TaskEnded, In
<1>3. CASE HostServe \/ HostServeFails
  <2>1. /\ hub_events' = Append(hub_events, Message("RopeConnected", NoCall))
        /\ flag_reader' = flag_reader /\ phase = "welcomed"
        /\ \/ phase' = "serving" /\ host_reader'
           \/ phase' = "aborted" /\ host_reader' = host_reader
    BY <1>3 DEF HostServe, HostServeFails, Announce
  <2>2. Told' = Told
    BY <2>1, OtherEvent, EventLaws, MessageFields
  <2> QED
    BY <2>1, <2>2 DEF EndsInv, TaskEnded
<1>4. CASE AcceptEnds
  <2>1. AnnounceGone /\ phase' = "returned" /\ host_reader' = host_reader
    BY <1>4 DEF AcceptEnds
  <2>2. flag_reader' /\ Told'
    BY <2>1, SwapTells
  <2> QED
    BY <2>1, <2>2 DEF EndsInv, TaskEnded
<1>5. CASE HostReadEnds
  <2>1. AnnounceGone /\ phase' = phase /\ host_reader /\ ~host_reader'
    BY <1>5 DEF HostReadEnds
  <2>2. flag_reader' /\ Told'
    BY <2>1, SwapTells
  <2>3. phase \in {"serving", "returned"}
    BY <2>1 DEF EndsInv
  <2> QED
    BY <2>1, <2>2, <2>3 DEF EndsInv, TaskEnded
<1>6. CASE \/ HostReadOpen \/ HostReadEvent
           \/ \E c \in Calls : HandlerFrame(c)
  <2>1. UNCHANGED <<flag_reader, phase, host_reader>>
    BY <1>6 DEF HostReadOpen, HostReadEvent, HandlerFrame
  <2>2. PICK type \in {"StreamOpened", "EventReceived", "FrameReceived"},
             c \in Calls \cup {NoCall} :
            /\ hub_events' = Append(hub_events, Message(type, c))
            /\ Message(type, c) \in HubEvents
    <3>1. CASE HostReadOpen
      <4>1. c2h \in MessageQueue /\ c2h # <<>>
        BY <3>1 DEF HostReadOpen, HostReads, TypeInv, TypeOK
      <4>2. Head(c2h) \in Messages
        BY <4>1, QueueLaws
      <4>3. Head(c2h).call \in Calls \cup {NoCall}
        BY <4>2 DEF Messages
      <4> QED
        BY <3>1, <4>3, EventLaws DEF HostReadOpen, Announce
    <3>2. CASE HostReadEvent
      BY <3>2, EventLaws DEF HostReadEvent, Announce, Message, Plain
    <3>3. CASE \E c \in Calls : HandlerFrame(c)
      BY <3>3, EventLaws DEF HandlerFrame, Announce
    <3> QED
      BY <1>6, <3>1, <3>2, <3>3
  <2>3. Told' = Told
    BY <2>2, OtherEvent, MessageFields
  <2> QED
    BY <2>1, <2>3 DEF EndsInv, TaskEnded
<1> QED
  BY <1>1, <1>2, <1>3, <1>4, <1>5, <1>6, Zenon
  DEF Next, Silent, HandleConnection, HostReader, HostSender, HandleStream,
      TieTheKnot, ClientWriter, ClientReader, CreateStream, Application

\* The hub's application knows that a rope is gone exactly when the accept loop
\* or the control reader serving it (lib.rs) has ended.
THEOREM EndsAreNeverSilent == Spec => []EndsAreTold
<1>1. Init => EndsInv
  BY DEF Init, EndsInv, Told, TaskEnded, In
<1>2. TypeInv /\ EndsInv /\ [Next]_vars => EndsInv'
  BY EndsStep
<1>3. Spec => []TypeInv
  BY TypeInvariance
<1>4. EndsInv => EndsAreTold
  BY DEF EndsInv, EndsAreTold, Told, TaskEnded
<1> QED
  BY <1>1, <1>2, <1>3, <1>4, PTL DEF Spec

-----------------------------------------------------------------------------
(* Frames that were written and not yet reported.  What has to be carried   *)
(* along: only a stream that was opened has frames, an opened stream has a   *)
(* handler, a handler that ended in order has read everything, and streams   *)
(* wait for their handler only while the accept loop runs.                   *)

Unreported(c) == frames_seen[c] < frames_sent[c]

FramesInv ==
    \A c \in Calls :
        /\ frames_sent[c] # 0 => call[c] \in {"open", "closed"}
        /\ call[c] \in {"configuring", "open", "closed"} => handler[c] # "none"
        /\ handler[c] = "ended" => ~Unreported(c)
        /\ handler[c] = "queued" => phase = "serving"

frameVars == <<frames, handler, call, phase>>

\* A create_stream call that moves on without its stream moving.
LEMMA CallKeepsFrames ==
    ASSUME TypeInv, FramesInv, NEW c \in Calls,
           NEW state \in {"registered", "waiting", "open", "closed",
                          "failed", "cancelled"},
           call' = [call EXCEPT ![c] = state],
           UNCHANGED <<frames, handler, phase>>,
           state \notin {"open", "closed"} => call[c] \notin {"open", "closed"},
           state \in {"open", "closed"} => call[c] \in {"configuring", "open"}
    PROVE  FramesInv'
<1>1. ASSUME NEW d \in Calls, d # c PROVE call'[d] = call[d]
  BY <1>1 DEF TypeInv, TypeOK
<1>2. call'[c] = state
  BY DEF TypeInv, TypeOK
<1> QED
  BY <1>1, <1>2 DEF FramesInv, Unreported, frames

\* A handler that moves on, without leaving frames unread if it ends.
LEMMA HandlerKeepsFrames ==
    ASSUME TypeInv, FramesInv, NEW c \in Calls,
           NEW state \in {"accepted", "recording", "ended", "failed"},
           handler' = [handler EXCEPT ![c] = state],
           UNCHANGED <<frames, call, phase>>,
           state = "ended" => ~Unreported(c)
    PROVE  FramesInv'
<1>1. ASSUME NEW d \in Calls, d # c PROVE handler'[d] = handler[d]
  BY <1>1 DEF TypeInv, TypeOK
<1>2. handler'[c] = state
  BY DEF TypeInv, TypeOK
<1> QED
  BY <1>1, <1>2 DEF FramesInv, Unreported, frames

\* The steps of the control tasks and applications that leave streams alone.
Apart ==
    \/ HostAccept \/ HostReadOpen \/ HostReadPing \/ HostReadEvent
    \/ HostReadOther \/ HostReadEnds
    \/ HostSend \/ HostSendEnds \/ HubSend \/ HubDropSender
    \/ ReceiveWelcome \/ TieFails \/ GiveUp
    \/ ClientWrite \/ ClientWriteEnds
    \/ ClientReadAccepted \/ ClientReadPing \/ ClientReadPong
    \/ ClientReadOther \/ ClientReadEnds
    \/ ClientSend \/ NextEvent \/ CloneTx \/ DropClone \/ DropClient
    \/ Lose \/ UNCHANGED vars

\* They leave frames, handlers, calls and the phase alone.
LEMMA ApartFrame ==
    ASSUME Apart
    PROVE  UNCHANGED frameVars
<1> USE DEF conn, hostTasks, hub, hostVars, clientTasks, clientVars,
            callVars, ropeVars, frames, uniVars, pipes, budgets, env, frameVars
<1>1. CASE \/ HostAccept \/ HostReadOpen \/ HostReadPing \/ HostReadEvent
           \/ HostReadOther \/ HostReadEnds
           \/ HostSend \/ HostSendEnds \/ HubSend \/ HubDropSender
  BY <1>1 DEF HostAccept, HostReadOpen, HostReadPing, HostReadEvent,
              HostReadOther, HostReadEnds, HostSend, HostSendEnds, HubSend,
              HubDropSender
<1>2. CASE \/ ReceiveWelcome \/ TieFails \/ GiveUp
           \/ ClientWrite \/ ClientWriteEnds
           \/ ClientReadAccepted \/ ClientReadPing \/ ClientReadPong
           \/ ClientReadOther \/ ClientReadEnds
  BY <1>2 DEF ReceiveWelcome, TieFails, GiveUp, AbandonTie, ClientWrite,
              ClientWriteEnds, ClientReadAccepted, ClientReadPing,
              ClientReadPong, ClientReadOther, ClientReadEnds
<1>3. CASE \/ ClientSend \/ NextEvent \/ CloneTx \/ DropClone \/ DropClient
           \/ Lose \/ UNCHANGED vars
  BY <1>3 DEF ClientSend, NextEvent, CloneTx, DropClone, DropClient, Lose, vars
<1> QED
  BY <1>1, <1>2, <1>3 DEF Apart

\* Before handle_connection serves, no stream can have been granted, hence none
\* waits to be accepted.
LEMMA GrantedOnlyServing ==
    ASSUME AllInv, EventInv, NEW c \in Calls, granted_by[c] # NoCall
    PROVE  phase \notin {"welcoming", "welcomed"}
<1>1. granted_by[c] \in Opened
  BY DEF Used, AllInv, GrantInv, GrantInOnePlace
<1>2. hub_events # <<>>
  BY <1>1 DEF Opened, In
<1> QED
  BY <1>2 DEF EventInv

\* Every step keeps hold of the frames that were written.
LEMMA FramesStep == AllInv /\ EventInv /\ FramesInv /\ [Next]_vars => FramesInv'
<1> SUFFICES ASSUME AllInv, EventInv, FramesInv, [Next]_vars PROVE FramesInv'
  OBVIOUS
<1> USE DEF conn, hostTasks, hub, hostVars, clientTasks, clientVars,
            callVars, ropeVars, frames, uniVars, pipes, budgets, env
<1>0. TypeInv /\ StreamInv
  BY DEF AllInv
<1>1. CASE Apart
  <2>1. UNCHANGED frameVars
    BY <1>1, ApartFrame
  <2> QED
    BY <2>1 DEF FramesInv, Unreported, frameVars
<1>2. CASE \/ HostWelcome \/ HostWelcomeFails \/ HostServe \/ HostServeFails
  <2>1. /\ UNCHANGED <<frames, handler, call>>
        /\ phase \in {"welcoming", "welcomed"}
    BY <1>2 DEF HostWelcome, HostWelcomeFails, HostServe, HostServeFails
  <2> QED
    BY <2>1 DEF FramesInv, Unreported
<1>3. CASE AcceptUni
  <2>1. /\ uni_queue # <<>> /\ uni_queue \in Seq(Calls)
        /\ handler' = [handler EXCEPT ![Head(uni_queue)] = "accepted"]
        /\ UNCHANGED <<frames, call, phase>>
    BY <1>0, <1>3 DEF AcceptUni, TypeInv, TypeOK, UniQueue
  <2>2. Head(uni_queue) \in Calls
    BY <2>1
  <2> QED
    BY <1>0, <2>1, <2>2, HandlerKeepsFrames
<1>4. CASE AcceptEnds
  <2>1. /\ UNCHANGED <<frames, call>>
        /\ handler' = [c \in Calls |-> IF handler[c] = "queued" THEN "dropped"
                                                                ELSE handler[c]]
    BY <1>4 DEF AcceptEnds
  <2>2. \A c \in Calls :
            /\ handler'[c] \notin {"none", "queued", "ended"}
               \/ handler'[c] = handler[c]
            /\ handler'[c] # "queued"
    BY <2>1
  <2> QED
    BY <2>1, <2>2 DEF FramesInv, Unreported
<1>5. ASSUME NEW c \in Calls, HandleStream(c)
      PROVE  FramesInv'
  <2>1. CASE HandlerOpens(c) \/ HandlerFails(c)
    BY <1>0, <2>1, HandlerKeepsFrames DEF HandlerOpens, HandlerFails, HandlerStep
  <2>2. CASE HandlerEnds(c) \/ HandlerNoConfig(c)
    <3>1. /\ handler' = [handler EXCEPT ![c] = "ended"]
          /\ UNCHANGED <<frames, call, phase>>
      BY <2>2 DEF HandlerEnds, HandlerNoConfig, HandlerStep
    <3>2. frames_seen[c] \in Nat /\ frames_sent[c] \in Nat
      BY <1>0 DEF TypeInv, TypeOK
    <3>3. frames_seen[c] = frames_sent[c] \/ frames_sent[c] = 0
      BY <2>2 DEF HandlerEnds, AtEnd, HandlerNoConfig, FramesInv
    <3>4. ~Unreported(c)
      BY <3>2, <3>3 DEF Unreported
    <3> QED
      BY <1>0, <3>1, <3>4, HandlerKeepsFrames
  <2>3. CASE HandlerFrame(c)
    <3>1. /\ UNCHANGED <<frames_sent, handler, call, phase>>
          /\ handler[c] = "recording"
          /\ \A d \in Calls : d # c => frames_seen'[d] = frames_seen[d]
      BY <1>0, <2>3 DEF HandlerFrame, TypeInv, TypeOK
    <3> QED
      BY <3>1 DEF FramesInv, Unreported
  <2> QED
    BY <1>5, <2>1, <2>2, <2>3 DEF HandleStream
<1>6. ASSUME NEW c \in Calls, OpenUni(c)
      PROVE  FramesInv'
  <2>1. /\ handler' = [handler EXCEPT ![c] = "queued"]
        /\ call' = [call EXCEPT ![c] = "configuring"]
        /\ UNCHANGED <<frames, phase>>
        /\ call[c] = "waiting" /\ granted_by[c] # NoCall
        /\ phase \notin {"returned", "aborted"}
    BY <1>6 DEF OpenUni, SetCall, Woken, HostConnectionDropped
  <2>2. phase = "serving"
    BY <1>0, <2>1, GrantedOnlyServing DEF TypeInv, TypeOK
  <2>3. /\ handler'[c] = "queued" /\ call'[c] = "configuring"
        /\ \A d \in Calls : d # c => /\ handler'[d] = handler[d]
                                     /\ call'[d] = call[d]
    BY <1>0, <2>1 DEF TypeInv, TypeOK
  <2>4. frames_sent[c] = 0
    BY <2>1 DEF FramesInv
  <2> QED
    BY <2>1, <2>2, <2>3, <2>4 DEF FramesInv, Unreported
<1>7. ASSUME NEW c \in Calls, WriteFrame(c)
      PROVE  FramesInv'
  <2>1. /\ UNCHANGED <<frames_seen, handler, call, phase>>
        /\ call[c] = "open" /\ handler[c] # "ended"
        /\ \A d \in Calls : d # c => frames_sent'[d] = frames_sent[d]
    BY <1>0, <1>7 DEF WriteFrame, UniEnded, TypeInv, TypeOK
  <2> QED
    BY <2>1 DEF FramesInv, Unreported
<1>8. ASSUME NEW c \in Calls,
             \/ Register(c) \/ SendOpen(c) \/ SendOpenFails(c) \/ AwaitFails(c)
             \/ OpenUniFails(c) \/ SendConfig(c) \/ SendConfigFails(c)
             \/ Cancel(c) \/ DropStream(c)
      PROVE  FramesInv'
  <2>1. UNCHANGED <<frames, handler, phase>>
    BY <1>8 DEF Register, SendOpen, SendOpenFails, AwaitFails, OpenUniFails,
                SendConfig, SendConfigFails, Cancel, DropStream, CallStep
  <2>2. PICK state \in {"registered", "waiting", "open", "closed",
                        "failed", "cancelled"} :
            /\ call' = [call EXCEPT ![c] = state]
            /\ state \notin {"open", "closed"}
               => call[c] \notin {"open", "closed"}
            /\ state \in {"open", "closed"} => call[c] \in {"configuring", "open"}
    BY <1>8 DEF Register, SendOpen, SendOpenFails, AwaitFails, OpenUniFails,
                SendConfig, SendConfigFails, Cancel, DropStream, CallStep,
                SetCall, Woken
  <2> QED
    BY <1>0, <2>1, <2>2, CallKeepsFrames
<1> QED
  BY <1>1, <1>2, <1>3, <1>4, <1>5, <1>6, <1>7, <1>8, Zenon
  DEF Next, Apart, HandleConnection, HostReader, HostSender, TieTheKnot,
      ClientWriter, ClientReader, CreateStream, Application

\* A frame the rope has written (write_frame, lib.rs) and the application has
\* not heard of is held by the running accept loop or by a handler, unless the
\* recording or the transport failed.
THEOREM UnreportedFramesStayHeld == Spec => []UnreportedFramesAreHeld
<1>1. Init => FramesInv
  BY DEF Init, FramesInv, Unreported
<1>2. AllInv /\ EventInv /\ FramesInv /\ [Next]_vars => FramesInv'
  BY FramesStep
<1>3. AllInv /\ FramesInv => UnreportedFramesAreHeld
  <2> SUFFICES ASSUME AllInv, FramesInv, NEW c \in Calls,
                      frames_seen[c] < frames_sent[c], ~lost
               PROVE  \/ handler[c] \in {"accepted", "recording", "failed"}
                      \/ /\ handler[c] = "queued" /\ phase = "serving"
                         /\ \E i \in DOMAIN uni_queue : uni_queue[i] = c
    BY DEF UnreportedFramesAreHeld
  <2>1. frames_seen[c] \in Nat /\ frames_sent[c] \in Nat
    BY DEF AllInv, TypeInv, TypeOK
  <2>2. frames_sent[c] # 0
    BY <2>1
  <2>3. handler[c] \notin {"none", "ended"}
    BY <2>2 DEF FramesInv, Unreported
  <2>4. handler[c] # "dropped"
    BY DEF AllInv, StreamInv, NoStrandedStream
  <2>5. handler[c] = "queued" =>
            phase = "serving" /\ \E i \in DOMAIN uni_queue : uni_queue[i] = c
    BY DEF FramesInv, AllInv, StreamInv
  <2>6. handler[c] \in {"none", "queued", "accepted", "recording", "ended",
                        "failed", "dropped"}
    BY DEF AllInv, TypeInv, TypeOK
  <2> QED
    BY <2>3, <2>4, <2>5, <2>6
<1>4. Spec => []AllInv
  BY StreamInvariance
<1>5. Spec => []EventInv
  BY EventInvariance
<1> QED
  BY <1>1, <1>2, <1>3, <1>4, <1>5, PTL DEF Spec

=============================================================================
