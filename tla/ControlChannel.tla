--------------------------- MODULE ControlChannel ---------------------------
(***************************************************************************)
(* One connection of the knot protocol, from the moment the host decides   *)
(* to admit a rope until every task of both sides has ended:               *)
(* handle_connection and handle_stream on the host (src/lib.rs), the       *)
(* KnotClient and its KnotStreams on the rope, and between them the        *)
(* transport of src/mock.rs: a bounded byte pipe per direction and a       *)
(* bounded queue of unidirectional streams.                                *)
(*                                                                         *)
(* The tasks are                                                           *)
(*   host    handle_connection (after the spawns, the accept_uni loop),    *)
(*           the control reader, the control sender, one handler a stream; *)
(*   client  tie_the_knot, the control writer, the control reader, the     *)
(*           application's create_stream calls and open KnotStreams.       *)
(*                                                                         *)
(* Abstractions.  A message is its kind and, for StreamOpen and            *)
(* StreamAccepted, the create_stream call it belongs to: the code's        *)
(* messages carry the stream_id, StreamOf[call], and no guard or           *)
(* assignment of the code's own state reads more of a call than that.      *)
(* Pipes are bounded in messages, not bytes.  Reading a queue and acting   *)
(* on the message is one step except where the code performs two           *)
(* visible effects in an order that matters (announcing a stream, then     *)
(* accepting it).                                                          *)
(*                                                                         *)
(* An operator named Mut... is a deliberately wrong variant of the         *)
(* definition after it; nothing uses it but the mutation runs.             *)
(***************************************************************************)
EXTENDS Naturals, Sequences, FiniteSets

CONSTANTS
    Calls,      \* calls of create_stream, each made at most once
    StreamIds,  \* stream identifiers the application may use
    StreamOf,   \* the stream_id argument of each call; calls may share one
    NoCall,     \* absence of a call
    ClientKinds,\* kinds of message the rope's application sends
    HubKinds,   \* kinds of message the hub's application sends
    MaxClientSends, MaxHubSends, \* how many of each (state bounds)
    MaxFrames,  \* frames written per stream (state bound)
    PipeCap,    \* messages a duplex pipe holds
    UniCap      \* unaccepted unidirectional streams the transport holds

\* "Ack" stands for every kind the host reader's wildcard arm ignores,
\* "Command" for every kind the client reader forwards to the application.
ASSUME ConstantsAssumption ==
    /\ NoCall \notin Calls
    /\ StreamOf \in [Calls -> StreamIds]
    /\ ClientKinds \subseteq {"Event", "Ack", "Ping"}
    /\ HubKinds \subseteq {"Command", "Ping"}
    /\ MaxClientSends \in Nat /\ MaxHubSends \in Nat /\ MaxFrames \in Nat
    /\ PipeCap \in Nat \ {0} /\ UniCap \in Nat \ {0}

VARIABLES
    \* host
    phase,              \* where handle_connection is
    flag_reader,        \* RopeDisconnected has been sent
    host_reader,        \* the control reader task runs
    accepting,          \* the call announced by the reader and not yet accepted
    host_sender,        \* the control sender task runs
    control_sender_rx,  \* messages queued for the control sender
    hub_holds,          \* the hub's application holds a control_sender
    hub_events,         \* the HubEvents sent to the application, in order
    handler,            \* the handle_stream task of each call's stream
    frames_seen,        \* FrameReceived events per stream
    \* client
    client,             \* tie_the_knot: "tying", "joined" or "failed"
    client_reader,      \* the control reader task runs
    client_writer,      \* the control writer task runs
    control_rx,         \* messages queued for the control writer
    control_tx,         \* who of the application holds a control_tx
    event_rx,           \* messages queued for next_event
    call,               \* progress of each create_stream call and its stream
    pending_streams,    \* whose oneshot sender is registered per stream_id
    granted_by,         \* history: the call whose accept completed the oneshot
    frames_sent,        \* frames written per stream
    \* transport and environment
    c2h, h2c,           \* the two pipes of the control stream
    uni_queue,          \* opened streams the host has not accepted
    lost,               \* the transport has failed
    client_sends, hub_sends  \* remaining application sends (bounds)

conn == <<phase, flag_reader>>
hostTasks == <<host_reader, accepting, host_sender>>
hub == <<hub_holds, hub_events>>
hostVars == <<conn, hostTasks, control_sender_rx, hub>>
clientTasks == <<client, client_reader, client_writer>>
clientVars == <<clientTasks, control_rx, control_tx, event_rx>>
callVars == <<call, pending_streams, granted_by>>
ropeVars == <<clientVars, callVars>>
frames == <<frames_sent, frames_seen>>
uniVars == <<uni_queue, handler, frames>>
pipes == <<c2h, h2c>>
budgets == <<client_sends, hub_sends>>
env == <<lost, budgets>>

vars == <<hostVars, ropeVars, uniVars, pipes, env>>

Message(type, c) == [type |-> type, call |-> c]
Plain(type) == Message(type, NoCall)

Messages ==
    [type : {"Welcome", "StreamOpen", "StreamAccepted", "Event", "Ack",
             "Command", "Ping", "Pong"},
     call : Calls \cup {NoCall}]

HubEvents ==
    [type : {"RopeConnected", "StreamOpened", "EventReceived",
             "FrameReceived", "RopeDisconnected"},
     call : Calls \cup {NoCall}]

MessageQueue == Seq(Messages)
EventLog == Seq(HubEvents)
UniQueue == Seq(Calls)

TypeOK ==
    /\ phase \in {"welcoming", "welcomed", "serving", "returned", "aborted"}
    /\ flag_reader \in BOOLEAN /\ hub_holds \in BOOLEAN /\ lost \in BOOLEAN
    /\ host_reader \in BOOLEAN /\ host_sender \in BOOLEAN
    /\ client_reader \in BOOLEAN /\ client_writer \in BOOLEAN
    /\ accepting \in Calls \cup {NoCall}
    /\ control_sender_rx \in MessageQueue /\ hub_events \in EventLog
    /\ handler \in [Calls -> {"none", "queued", "accepted", "recording",
                              "ended", "failed", "dropped"}]
    /\ client \in {"tying", "joined", "failed"}
    /\ control_tx \subseteq {"client", "clone"}
    /\ control_rx \in MessageQueue /\ event_rx \in MessageQueue
    /\ call \in [Calls -> {"idle", "registered", "waiting", "configuring",
                           "open", "closed", "failed", "cancelled"}]
    /\ pending_streams \in [StreamIds -> Calls \cup {NoCall}]
    /\ granted_by \in [Calls -> Calls \cup {NoCall}]
    /\ frames_sent \in [Calls -> Nat] /\ frames_seen \in [Calls -> Nat]
    /\ c2h \in MessageQueue /\ Len(c2h) <= PipeCap
    /\ h2c \in MessageQueue /\ Len(h2c) <= PipeCap
    /\ uni_queue \in UniQueue /\ Len(uni_queue) <= UniCap
    /\ client_sends \in Nat /\ hub_sends \in Nat

Init ==
    /\ phase = "welcoming" /\ client = "tying"
    /\ flag_reader = FALSE /\ hub_holds = FALSE /\ lost = FALSE
    /\ host_reader = FALSE /\ host_sender = FALSE
    /\ client_reader = FALSE /\ client_writer = FALSE
    /\ accepting = NoCall
    /\ control_sender_rx = <<>> /\ control_rx = <<>>
    /\ hub_events = <<>> /\ event_rx = <<>>
    /\ c2h = <<>> /\ h2c = <<>> /\ uni_queue = <<>>
    /\ control_tx = {}
    /\ call = [c \in Calls |-> "idle"]
    /\ handler = [c \in Calls |-> "none"]
    /\ granted_by = [c \in Calls |-> NoCall]
    /\ pending_streams = [s \in StreamIds |-> NoCall]
    /\ frames_sent = [c \in Calls |-> 0] /\ frames_seen = [c \in Calls |-> 0]
    /\ client_sends = MaxClientSends /\ hub_sends = MaxHubSends

-----------------------------------------------------------------------------
(* Ends of the transport.  A split duplex pipe closes only when both of its *)
(* halves are dropped, and each half is owned by a different task.          *)

ClientPipeClosed ==
    \/ client = "failed"
    \/ client = "joined" /\ ~client_reader /\ ~client_writer

HostPipeClosed ==
    /\ phase \notin {"welcoming", "welcomed"}
    /\ ~host_reader
    /\ ~host_sender

\* The KnotClient, which owns the connection, is gone.
ConnectionDropped ==
    \/ client = "failed"
    \/ client = "joined" /\ "client" \notin control_tx

\* handle_connection, which owns the host's end of it, is gone.
HostConnectionDropped == phase \in {"returned", "aborted"}

Enqueue(queue, running, m) == IF running THEN Append(queue, m) ELSE queue

Announce(type, c) == hub_events' = Append(hub_events, Message(type, c))

\* The flag is stored but not tested.
MutAnnounceGone ==
    /\ flag_reader' = TRUE
    /\ hub_events' = Append(hub_events, Plain("RopeDisconnected"))

\* flag_reader.swap(true): whichever task gets here first tells the hub.
AnnounceGone ==
    /\ flag_reader' = TRUE
    /\ hub_events' = IF flag_reader
                     THEN hub_events
                     ELSE Append(hub_events, Plain("RopeDisconnected"))

-----------------------------------------------------------------------------
(* handle_connection                                                       *)

HostWelcome ==
    /\ phase = "welcoming"
    /\ ~lost /\ ~ClientPipeClosed
    /\ phase' = "welcomed"
    /\ h2c' = Append(h2c, Plain("Welcome"))
    /\ UNCHANGED <<flag_reader, hostTasks, control_sender_rx, hub, ropeVars,
                   uniVars, c2h, env>>

HostWelcomeFails ==
    /\ phase = "welcoming"
    /\ lost \/ ClientPipeClosed
    /\ phase' = "aborted"
    /\ UNCHANGED <<flag_reader, hostTasks, control_sender_rx, hub, ropeVars,
                   uniVars, pipes, env>>

\* RopeConnected goes out, with a control_sender for the application, before
\* the session directory is created and before the reader is spawned.
HostServe ==
    /\ phase = "welcomed"
    /\ phase' = "serving"
    /\ host_sender' = TRUE
    /\ hub_holds' = TRUE
    /\ Announce("RopeConnected", NoCall)
    /\ host_reader' = TRUE
    /\ UNCHANGED <<flag_reader, accepting, control_sender_rx, ropeVars,
                   uniVars, pipes, env>>

\* create_dir_all fails: the function returns, the reader is never spawned.
HostServeFails ==
    /\ phase = "welcomed"
    /\ phase' = "aborted"
    /\ host_sender' = TRUE
    /\ hub_holds' = TRUE
    /\ Announce("RopeConnected", NoCall)
    /\ UNCHANGED <<flag_reader, host_reader, accepting, control_sender_rx,
                   ropeVars, uniVars, pipes, env>>

AcceptUni ==
    /\ phase = "serving"
    /\ uni_queue # <<>>
    /\ handler' = [handler EXCEPT ![Head(uni_queue)] = "accepted"]
    /\ uni_queue' = Tail(uni_queue)
    /\ UNCHANGED <<hostVars, ropeVars, frames, pipes, env>>

MutAcceptFailsEarly == lost \/ ConnectionDropped

MutAcceptFailsLate == lost

\* accept_uni fails once the connection is lost, or when the client has
\* dropped it and every stream it opened has been accepted.
AcceptFails == lost \/ (ConnectionDropped /\ uni_queue = <<>>)

AcceptEnds ==
    /\ phase = "serving"
    /\ AcceptFails
    /\ phase' = "returned"
    /\ AnnounceGone
    /\ handler' = [c \in Calls |-> IF handler[c] = "queued" THEN "dropped"
                                                            ELSE handler[c]]
    /\ uni_queue' = <<>>
    /\ UNCHANGED <<hostTasks, control_sender_rx, hub_holds, ropeVars, frames,
                   pipes, env>>

-----------------------------------------------------------------------------
(* The host's control reader: one action per arm of its match.             *)

HostReads(type) ==
    /\ host_reader
    /\ accepting = NoCall
    /\ c2h # <<>>
    /\ Head(c2h).type = type
    /\ c2h' = Tail(c2h)

\* A stream_id seen before is announced again but not accepted again.
MutHostReadOpen ==
    /\ HostReads("StreamOpen")
    /\ Announce("StreamOpened", Head(c2h).call)
    /\ accepting' =
           IF \E i \in DOMAIN hub_events :
                  /\ hub_events[i].type = "StreamOpened"
                  /\ StreamOf[hub_events[i].call] = StreamOf[Head(c2h).call]
           THEN NoCall
           ELSE Head(c2h).call
    /\ UNCHANGED <<conn, host_reader, host_sender, control_sender_rx,
                   hub_holds, ropeVars, uniVars, h2c, env>>

\* StreamOpen: first the application hears of the stream ...
HostReadOpen ==
    /\ HostReads("StreamOpen")
    /\ Announce("StreamOpened", Head(c2h).call)
    /\ accepting' = Head(c2h).call
    /\ UNCHANGED <<conn, host_reader, host_sender, control_sender_rx,
                   hub_holds, ropeVars, uniVars, h2c, env>>

\* ... then StreamAccepted is queued for the client.
HostAccept ==
    /\ accepting # NoCall
    /\ control_sender_rx' = Enqueue(control_sender_rx, host_sender,
                                    Message("StreamAccepted", accepting))
    /\ accepting' = NoCall
    /\ UNCHANGED <<conn, host_reader, host_sender, hub, ropeVars, uniVars,
                   pipes, env>>

HostReadPing ==
    /\ HostReads("Ping")
    /\ control_sender_rx' = Enqueue(control_sender_rx, host_sender,
                                    Plain("Pong"))
    /\ UNCHANGED <<conn, hostTasks, hub, ropeVars, uniVars, h2c, env>>

HostReadEvent ==
    /\ HostReads("Event")
    /\ Announce("EventReceived", NoCall)
    /\ UNCHANGED <<conn, hostTasks, control_sender_rx, hub_holds, ropeVars,
                   uniVars, h2c, env>>

\* The wildcard arm: Ack, Pong, Goodbye, Heartbeat and the rest are ignored.
HostReadOther ==
    /\ \E type \in {"Ack", "Pong"} : HostReads(type)
    /\ UNCHANGED <<hostVars, ropeVars, uniVars, h2c, env>>

\* The reader leaves the announcement to the accept loop.
MutHostReadEnds ==
    /\ host_reader
    /\ accepting = NoCall
    /\ lost \/ (c2h = <<>> /\ ClientPipeClosed)
    /\ host_reader' = FALSE
    /\ UNCHANGED <<conn, accepting, host_sender, control_sender_rx, hub,
                   ropeVars, uniVars, pipes, env>>

HostReadEnds ==
    /\ host_reader
    /\ accepting = NoCall
    /\ lost \/ (c2h = <<>> /\ ClientPipeClosed)
    /\ host_reader' = FALSE
    /\ AnnounceGone
    /\ UNCHANGED <<phase, accepting, host_sender, control_sender_rx,
                   hub_holds, ropeVars, uniVars, pipes, env>>

(* The host's control sender.                                              *)

HostSend ==
    /\ host_sender
    /\ control_sender_rx # <<>>
    /\ ~lost /\ ~ClientPipeClosed
    /\ Len(h2c) < PipeCap
    /\ h2c' = Append(h2c, Head(control_sender_rx))
    /\ control_sender_rx' = Tail(control_sender_rx)
    /\ UNCHANGED <<conn, hostTasks, hub, ropeVars, uniVars, c2h, env>>

MutSenderHeld == hub_holds

\* handle_connection, its reader and the application each hold a sender.
SenderHeld == phase = "serving" \/ host_reader \/ hub_holds

\* A failed write, or no sender left and nothing queued; the queue goes too.
HostSendEnds ==
    /\ host_sender
    /\ \/ control_sender_rx # <<>> /\ (lost \/ ClientPipeClosed)
       \/ control_sender_rx = <<>> /\ ~SenderHeld
    /\ host_sender' = FALSE
    /\ control_sender_rx' = <<>>
    /\ UNCHANGED <<conn, host_reader, accepting, hub, ropeVars, uniVars,
                   pipes, env>>

-----------------------------------------------------------------------------
(* handle_stream, one task per accepted stream.                            *)

UniEnded(c) == handler[c] \in {"ended", "failed", "dropped"}

HandlerStep(c, state) ==
    /\ handler' = [handler EXCEPT ![c] = state]
    /\ UNCHANGED <<hostVars, ropeVars, uni_queue, frames, pipes, env>>

\* The config arrived and the recording database opened.
HandlerOpens(c) ==
    /\ handler[c] = "accepted"
    /\ call[c] \in {"open", "closed"}
    /\ HandlerStep(c, "recording")

\* A frame is stored and then reported to the application.
HandlerFrame(c) ==
    /\ handler[c] = "recording"
    /\ frames_seen[c] < frames_sent[c]
    /\ frames_seen' = [frames_seen EXCEPT ![c] = @ + 1]
    /\ Announce("FrameReceived", c)
    /\ UNCHANGED <<conn, hostTasks, control_sender_rx, hub_holds, ropeVars,
                   uni_queue, handler, frames_sent, pipes, env>>

MutAtEnd(c) == call[c] = "closed"

\* The stream closed and its last frame was read.
AtEnd(c) == call[c] = "closed" /\ frames_seen[c] = frames_sent[c]

HandlerEnds(c) ==
    /\ handler[c] = "recording"
    /\ AtEnd(c)
    /\ HandlerStep(c, "ended")

\* The stream closed before its config.
HandlerNoConfig(c) ==
    /\ handler[c] = "accepted"
    /\ call[c] \in {"failed", "cancelled"}
    /\ HandlerStep(c, "ended")

\* The config does not parse, the database does not open, a write to it
\* fails, or the transport fails under the stream.
HandlerFails(c) ==
    /\ \/ handler[c] = "accepted" /\ (lost \/ call[c] \in {"open", "closed"})
       \/ handler[c] = "recording" /\ (lost \/ frames_seen[c] < frames_sent[c])
    /\ HandlerStep(c, "failed")

-----------------------------------------------------------------------------
(* The hub's application, through the control_sender of RopeConnected.     *)

HubSend ==
    /\ hub_holds
    /\ hub_sends > 0
    /\ hub_sends' = hub_sends - 1
    /\ \E kind \in HubKinds :
           control_sender_rx' = Enqueue(control_sender_rx, host_sender,
                                        Plain(kind))
    /\ UNCHANGED <<conn, hostTasks, hub, ropeVars, uniVars, pipes, lost,
                   client_sends>>

HubDropSender ==
    /\ hub_holds
    /\ hub_holds' = FALSE
    /\ UNCHANGED <<conn, hostTasks, control_sender_rx, hub_events, ropeVars,
                   uniVars, pipes, env>>

-----------------------------------------------------------------------------
(* tie_the_knot, after its Tie was sent                                    *)

ReceiveWelcome ==
    /\ client = "tying"
    /\ h2c # <<>> /\ Head(h2c).type = "Welcome"
    /\ h2c' = Tail(h2c)
    /\ client' = "joined"
    /\ client_reader' = TRUE
    /\ client_writer' = TRUE
    /\ control_tx' = {"client"}
    /\ UNCHANGED <<hostVars, control_rx, event_rx, callVars, uniVars, c2h,
                   env>>

AbandonTie ==
    /\ client = "tying"
    /\ client' = "failed"
    /\ UNCHANGED <<hostVars, client_reader, client_writer, control_rx,
                   control_tx, event_rx, callVars, uniVars, pipes, env>>

\* The connection ends before the reply: everything tie_the_knot owned goes.
TieFails ==
    /\ lost \/ (h2c = <<>> /\ HostPipeClosed)
    /\ AbandonTie

\* The caller drops the tie_the_knot future (it has no timeout of its own).
GiveUp == AbandonTie

-----------------------------------------------------------------------------
(* The client's control writer.                                            *)

ClientWrite ==
    /\ client_writer
    /\ control_rx # <<>>
    /\ ~lost /\ ~HostPipeClosed
    /\ Len(c2h) < PipeCap
    /\ c2h' = Append(c2h, Head(control_rx))
    /\ control_rx' = Tail(control_rx)
    /\ UNCHANGED <<hostVars, clientTasks, control_tx, event_rx, callVars,
                   uniVars, h2c, env>>

\* A failed write, or every control_tx dropped (the client reader holds one
\* too) and nothing queued; the queue goes with the task.
ClientWriteEnds ==
    /\ client_writer
    /\ \/ control_rx # <<>> /\ (lost \/ HostPipeClosed)
       \/ control_rx = <<>> /\ control_tx = {} /\ ~client_reader
    /\ client_writer' = FALSE
    /\ control_rx' = <<>>
    /\ UNCHANGED <<hostVars, client, client_reader, control_tx, event_rx,
                   callVars, uniVars, pipes, env>>

(* The client's control reader.                                            *)

ClientReads(type) ==
    /\ client_reader
    /\ h2c # <<>>
    /\ Head(h2c).type = type
    /\ h2c' = Tail(h2c)

\* event_rx is gone once the KnotClient is.
Forward(m) == event_rx' = Enqueue(event_rx, "client" \in control_tx, m)

\* Every call that waits is woken, as a broadcast would.
MutWake(w, granter) ==
    granted_by' =
        [c \in Calls |->
            IF call[c] = "waiting" /\ granted_by[c] = NoCall
            THEN granter ELSE granted_by[c]]

\* The registered waiter w of a stream_id is removed and woken; waking it has
\* no effect if it was cancelled and its receiver dropped.
Wake(w, granter) ==
    granted_by' =
        IF w # NoCall /\ call[w] \in {"registered", "waiting"}
        THEN [granted_by EXCEPT ![w] = granter]
        ELSE granted_by

ClientReadAccepted ==
    /\ ClientReads("StreamAccepted")
    /\ LET granter == Head(h2c).call
           stream  == StreamOf[granter]
       IN /\ Wake(pending_streams[stream], granter)
          /\ pending_streams' = [pending_streams EXCEPT ![stream] = NoCall]
    /\ Forward(Head(h2c))
    /\ UNCHANGED <<hostVars, clientTasks, control_rx, control_tx, call,
                   uniVars, c2h, env>>

ClientReadPing ==
    /\ ClientReads("Ping")
    /\ control_rx' = Enqueue(control_rx, client_writer, Plain("Pong"))
    /\ UNCHANGED <<hostVars, clientTasks, control_tx, event_rx, callVars,
                   uniVars, c2h, env>>

ClientReadPong ==
    /\ ClientReads("Pong")
    /\ UNCHANGED <<hostVars, ropeVars, uniVars, c2h, env>>

ClientReadOther ==
    /\ ClientReads("Command")
    /\ Forward(Head(h2c))
    /\ UNCHANGED <<hostVars, clientTasks, control_rx, control_tx, callVars,
                   uniVars, c2h, env>>

MutClientReadFails == h2c = <<>> /\ HostPipeClosed

ClientReadFails == lost \/ (h2c = <<>> /\ HostPipeClosed)

ClientReadEnds ==
    /\ client_reader
    /\ ClientReadFails
    /\ client_reader' = FALSE
    /\ UNCHANGED <<hostVars, client, client_writer, control_rx, control_tx,
                   event_rx, callVars, uniVars, pipes, env>>

-----------------------------------------------------------------------------
(* create_stream                                                           *)

SetCall(c, state) == call' = [call EXCEPT ![c] = state]

CallStep(c, state) ==
    /\ SetCall(c, state)
    /\ UNCHANGED <<hostVars, clientVars, pending_streams, granted_by, uniVars,
                   pipes, env>>

\* A waiter already registered for the stream_id is replaced; its sender is
\* dropped, so its receiver reports an error.
Register(c) ==
    /\ call[c] = "idle"
    /\ "client" \in control_tx
    /\ SetCall(c, "registered")
    /\ pending_streams' = [pending_streams EXCEPT ![StreamOf[c]] = c]
    /\ UNCHANGED <<hostVars, clientVars, granted_by, uniVars, pipes, env>>

SendOpen(c) ==
    /\ call[c] = "registered"
    /\ client_writer
    /\ control_rx' = Append(control_rx, Message("StreamOpen", c))
    /\ SetCall(c, "waiting")
    /\ UNCHANGED <<hostVars, clientTasks, control_tx, event_rx,
                   pending_streams, granted_by, uniVars, pipes, env>>

\* The writer is gone: the call fails and its sender stays in the map.
SendOpenFails(c) ==
    /\ call[c] = "registered"
    /\ ~client_writer
    /\ CallStep(c, "failed")

MutWokenEarly(c) == call[c] = "waiting"

\* The result of rx.await is not looked at.
MutWokenAnyhow(c) ==
    /\ call[c] = "waiting"
    /\ granted_by[c] # NoCall \/ pending_streams[StreamOf[c]] # c

Woken(c) == call[c] = "waiting" /\ granted_by[c] # NoCall

\* rx.await fails: the sender was dropped without being used.
AwaitFails(c) ==
    /\ call[c] = "waiting"
    /\ ~Woken(c)
    /\ pending_streams[StreamOf[c]] # c
    /\ CallStep(c, "failed")

MutUniRoom == Len(uni_queue) <= UniCap

UniRoom == Len(uni_queue) < UniCap

OpenUni(c) ==
    /\ Woken(c)
    /\ ~lost /\ ~HostConnectionDropped
    /\ UniRoom
    /\ uni_queue' = Append(uni_queue, c)
    /\ handler' = [handler EXCEPT ![c] = "queued"]
    /\ SetCall(c, "configuring")
    /\ UNCHANGED <<hostVars, clientVars, pending_streams, granted_by, frames,
                   pipes, env>>

OpenUniFails(c) ==
    /\ Woken(c)
    /\ lost \/ HostConnectionDropped
    /\ CallStep(c, "failed")

SendConfig(c) ==
    /\ call[c] = "configuring"
    /\ ~lost /\ ~UniEnded(c)
    /\ CallStep(c, "open")

SendConfigFails(c) ==
    /\ call[c] = "configuring"
    /\ lost \/ UniEnded(c)
    /\ CallStep(c, "failed")

\* The application drops the future at one of its awaits (a timeout, say).
Cancel(c) ==
    /\ call[c] \in {"waiting", "configuring"}
    /\ CallStep(c, "cancelled")

(* KnotStream                                                              *)

WriteFrame(c) ==
    /\ call[c] = "open"
    /\ frames_sent[c] < MaxFrames
    /\ ~lost /\ ~UniEnded(c)
    /\ frames_sent[c] - frames_seen[c] < PipeCap
    /\ frames_sent' = [frames_sent EXCEPT ![c] = @ + 1]
    /\ UNCHANGED <<hostVars, ropeVars, uni_queue, handler, frames_seen, pipes,
                   env>>

DropStream(c) ==
    /\ call[c] = "open"
    /\ CallStep(c, "closed")

-----------------------------------------------------------------------------
(* The rope's application.                                                 *)

\* send_event, send_ack, or a message through a control_tx clone.
ClientSend ==
    /\ control_tx # {}
    /\ client_sends > 0
    /\ client_sends' = client_sends - 1
    /\ \E kind \in ClientKinds :
           control_rx' = Enqueue(control_rx, client_writer, Plain(kind))
    /\ UNCHANGED <<hostVars, clientTasks, control_tx, event_rx, callVars,
                   uniVars, pipes, lost, hub_sends>>

NextEvent ==
    /\ event_rx # <<>>
    /\ event_rx' = Tail(event_rx)
    /\ UNCHANGED <<hostVars, clientTasks, control_rx, control_tx, callVars,
                   uniVars, pipes, env>>

CloneTx ==
    /\ "client" \in control_tx
    /\ "clone" \notin control_tx
    /\ control_tx' = control_tx \cup {"clone"}
    /\ UNCHANGED <<hostVars, clientTasks, control_rx, event_rx, callVars,
                   uniVars, pipes, env>>

DropClone ==
    /\ "clone" \in control_tx
    /\ control_tx' = control_tx \ {"clone"}
    /\ UNCHANGED <<hostVars, clientTasks, control_rx, event_rx, callVars,
                   uniVars, pipes, env>>

\* Dropping the KnotClient; calls in progress borrow it, open streams do not.
DropClient ==
    /\ "client" \in control_tx
    /\ \A c \in Calls : call[c] \notin {"registered", "waiting", "configuring"}
    /\ control_tx' = control_tx \ {"client"}
    /\ event_rx' = <<>>
    /\ UNCHANGED <<hostVars, clientTasks, control_rx, callVars, uniVars,
                   pipes, env>>

\* The transport fails under both sides.
Lose ==
    /\ ~lost
    /\ lost' = TRUE
    /\ UNCHANGED <<hostVars, ropeVars, uniVars, pipes, budgets>>

-----------------------------------------------------------------------------
(* Tasks, as the runtime schedules them.                                   *)

HandleConnection ==
    \/ HostWelcome \/ HostWelcomeFails
    \/ HostServe \/ HostServeFails
    \/ AcceptUni \/ AcceptEnds

HostReader ==
    \/ HostReadOpen \/ HostAccept \/ HostReadPing \/ HostReadEvent
    \/ HostReadOther \/ HostReadEnds

HostSender == HostSend \/ HostSendEnds

HandleStream(c) ==
    \/ HandlerOpens(c) \/ HandlerFrame(c)
    \/ HandlerEnds(c) \/ HandlerNoConfig(c) \/ HandlerFails(c)

TieTheKnot == ReceiveWelcome \/ TieFails

ClientWriter == ClientWrite \/ ClientWriteEnds

ClientReader ==
    \/ ClientReadAccepted \/ ClientReadPing \/ ClientReadPong
    \/ ClientReadOther \/ ClientReadEnds

CreateStream(c) ==
    \/ SendOpen(c) \/ SendOpenFails(c) \/ AwaitFails(c)
    \/ OpenUni(c) \/ OpenUniFails(c)
    \/ SendConfig(c) \/ SendConfigFails(c)

Application ==
    \/ GiveUp \/ ClientSend \/ NextEvent
    \/ CloneTx \/ DropClone \/ DropClient
    \/ HubSend \/ HubDropSender
    \/ \E c \in Calls : Register(c) \/ Cancel(c) \/ WriteFrame(c) \/ DropStream(c)

Next ==
    \/ HandleConnection \/ HostReader \/ HostSender
    \/ TieTheKnot \/ ClientWriter \/ ClientReader
    \/ \E c \in Calls : HandleStream(c) \/ CreateStream(c)
    \/ Application
    \/ Lose

Spec == Init /\ [][Next]_vars

\* Every spawned task and every awaited future is polled until it ends; what
\* the applications do, and the loss of the transport, is theirs to choose.
Fairness ==
    /\ WF_vars(HandleConnection)
    /\ WF_vars(HostReader)
    /\ WF_vars(HostSender)
    /\ WF_vars(TieTheKnot)
    /\ WF_vars(ClientWriter)
    /\ WF_vars(ClientReader)
    /\ \A c \in Calls : WF_vars(HandleStream(c)) /\ WF_vars(CreateStream(c))

FairSpec == Spec /\ Fairness

-----------------------------------------------------------------------------
(* Safety                                                                  *)

\* The calls that messages of a kind queued in q belong to.
In(q, type) == {q[i].call : i \in {j \in DOMAIN q : q[j].type = type}}

\* The grants that have woken a call.
Used == {granted_by[c] : c \in Calls} \ {NoCall}

\* The application hears of a stream_id before any frame of a stream with that
\* id, although the two events are sent by different tasks (the control reader
\* and the stream's handler) and nothing orders the control stream and the
\* unidirectional one but the rope's wait for StreamAccepted.
FramesFollowStreamOpened ==
    \A i \in DOMAIN hub_events :
        hub_events[i].type = "FrameReceived" =>
            \E j \in 1..(i - 1) :
                /\ hub_events[j].type = "StreamOpened"
                /\ StreamOf[hub_events[j].call] = StreamOf[hub_events[i].call]

\* RopeConnected is the first event of a connection and comes once;
\* RopeDisconnected comes at most once although the accept loop and the
\* control reader, ending in either order, both send it.
LifecycleOrder ==
    /\ \A i \in DOMAIN hub_events :
           (hub_events[i].type = "RopeConnected") <=> (i = 1)
    /\ \A i, j \in DOMAIN hub_events :
           /\ hub_events[i].type = "RopeDisconnected"
           /\ hub_events[j].type = "RopeDisconnected"
           => i = j

\* No StreamAccepted wakes two calls, and a call is woken only by an accept of
\* its own stream_id: retries, replaced waiters and cancelled calls share the
\* map of waiters by stream_id.
GrantsSpentOnce ==
    /\ \A c, d \in Calls :
           granted_by[c] = granted_by[d] /\ granted_by[c] # NoCall => c = d
    /\ \A c \in Calls :
           granted_by[c] # NoCall => StreamOf[granted_by[c]] = StreamOf[c]

\* A call that waits and is still the registered waiter of its stream_id has
\* its own request or the answer to it under way, as long as every task on the
\* route still runs: registering before sending leaves no window in which
\* the accept can be taken by nobody.
NoLostWakeup ==
    \A c \in Calls :
        (/\ call[c] = "waiting" /\ granted_by[c] = NoCall
         /\ pending_streams[StreamOf[c]] = c
         /\ client_writer /\ client_reader /\ host_reader /\ host_sender)
        => c \in In(control_rx, "StreamOpen") \cup In(c2h, "StreamOpen")
                 \cup {accepting}
                 \cup In(control_sender_rx, "StreamAccepted")
                 \cup In(h2c, "StreamAccepted")

\* The host drops an opened stream unhandled only when the transport failed:
\* after the rope drops its KnotClient, what it opened before is still
\* accepted and recorded.
NoStrandedStream ==
    (\E c \in Calls : handler[c] = "dropped") => lost

\* The hub's application has been told that a rope is gone exactly when one of
\* the two tasks serving it has ended, the accept loop of handle_connection or
\* the control reader, whichever ended first: neither ends in silence, and
\* neither announces for the other while both still serve.
EndsAreTold ==
    In(hub_events, "RopeDisconnected") # {} <=>
        phase = "returned" \/ (phase = "serving" /\ ~host_reader)

\* A frame the rope's write_frame has returned from and the application has not
\* been told of is held by somebody who will read it, or the loss has a cause:
\* the stream waits to be accepted by a running accept loop, or has a handler
\* that still reads it, or the handler's recording failed, or the transport
\* did.  Neither a dropped KnotStream nor a dropped KnotClient loses it.
UnreportedFramesAreHeld ==
    \A c \in Calls :
        frames_seen[c] < frames_sent[c] =>
            \/ lost
            \/ handler[c] \in {"accepted", "recording", "failed"}
            \/ /\ handler[c] = "queued" /\ phase = "serving"
               /\ \E i \in DOMAIN uni_queue : uni_queue[i] = c

\* Refinement: the tasks, queues and map together keep the promise of
\* StreamGate.
Gate == INSTANCE StreamGate WITH
    asked     <- {c \in Calls : call[c] # "idle"},
    granted   <- In(hub_events, "StreamOpened"),
    spent     <- [c \in Calls |-> IF handler[c] = "none" THEN NoCall
                                                         ELSE granted_by[c]],
    delivered <- {c \in Calls : frames_seen[c] > 0}

GateSpec == Gate!Spec

-----------------------------------------------------------------------------
(* Liveness                                                                *)

Announced == In(hub_events, "RopeDisconnected") # {}

\* A call stops waiting (it is granted, replaced, or cancelled by its caller)
\* unless the transport fails or the host gave up after its Welcome, with
\* pings and commands crossing in both directions through full pipes.
StreamAnswered ==
    \A c \in Calls :
        call[c] = "waiting" ~> call[c] # "waiting" \/ lost \/ phase = "aborted"

\* Once the host serves, losing the transport or dropping the KnotClient is
\* announced to the hub.
LossAnnounced ==
    (phase = "serving" /\ (lost \/ ConnectionDropped)) ~> Announced

\* Every frame written is reported to the application, also when the rope
\* dropped its stream or its client meanwhile, unless the recording failed or
\* the transport did.
FramesDelivered ==
    \A c \in Calls : \A n \in 1..MaxFrames :
        frames_sent[c] >= n ~> frames_seen[c] >= n \/ handler[c] = "failed" \/ lost

\* After the transport fails no task of either side keeps reading from it.
LossStopsReaders ==
    lost ~> [](~client_reader /\ ~host_reader /\ phase # "serving")

(* Statements of the repository that the code does not keep: checked to be *)
(* violated.                                                               *)

\* create_stream's error "failed to receive StreamAccepted response"
\* (src/lib.rs) says that a call whose answer cannot come fails.  The sender
\* of the oneshot stays in the map for as long as the KnotClient lives, so
\* the wait never ends once the connection is lost.
CreateStreamReturns ==
    \A c \in Calls : call[c] = "waiting" ~> call[c] # "waiting"

\* docs/STATE.md: a dropped transport takes an Active rope to OfflineGrace.
\* A rope announced by RopeConnected whose handle_connection then returns, and
\* drops the transport, is never announced as gone if create_dir_all failed.
EveryRopeAnnouncedGone ==
    phase = "aborted" /\ In(hub_events, "RopeConnected") # {} ~> Announced

\* Nothing of the connection is left with an application: the KnotClient, its
\* clones of control_tx and its KnotStreams are dropped, and so is the
\* control_sender that handle_connection gave to the hub.
EverythingDropped ==
    /\ client = "joined" /\ control_tx = {}
    /\ \A c \in Calls : call[c] # "open"
    /\ phase \notin {"welcoming", "welcomed"} /\ ~hub_holds

\* docs/STATE.md: local shutdown takes a rope to Disconnected, "no active
\* network association or socket".  After the applications of both sides have
\* dropped everything they held, the two readers still wait for each other.
ShutdownReleasesSocket ==
    EverythingDropped ~> ClientPipeClosed

=============================================================================
