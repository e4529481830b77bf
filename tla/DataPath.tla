------------------------------ MODULE DataPath ------------------------------
(***************************************************************************)
(* Data streams from write_frame on the rope to the recording on the       *)
(* host's disk: KnotStream, handle_stream and DeduplicatedRecordingWriter  *)
(* (src/lib.rs) over the endpoints and unidirectional streams of           *)
(* src/mock.rs, with frames as the bytes of FrameCodec.                    *)
(*                                                                         *)
(* Several connections, one after another or at once, feed several streams *)
(* into the files of one session directory.  A connection can fail, a      *)
(* database operation can fail, and the host process can die and start     *)
(* again with the files its last commits left.                             *)
(*                                                                         *)
(* Abstractions.  The control stream is reduced to its outcome: a          *)
(* connection is served once its handshake is through (Admission), and     *)
(* create_stream opens a granted stream, configuration included            *)
(* (ControlChannel).  redb is external: one process has a file open at     *)
(* most once, a write transaction is applied by its commit or not at all.  *)
(* Payloads stand for their blake3 hashes.  Time is a clock of             *)
(* milliseconds that the bound MaxTime stops.                              *)
(*                                                                         *)
(* An operator named Mut... is a deliberately wrong variant of the         *)
(* definition after it; nothing uses it but the mutation runs.             *)
(***************************************************************************)
EXTENDS FrameCodec

CONSTANTS
    MaxConns,   \* bound: connections that ropes of one knot open
    Streams,    \* calls of create_stream
    Foreign,    \* streams of peers that need not send well-formed frames
    Files,      \* paths in the session directory
    PathOf,     \* session_dir/sanitized_name.redb of each stream's topic
    Payloads, Length,
    TooLong,    \* payloads beyond the limit of LengthDelimitedCodec
    MaxFrames,  \* bound: write_frame calls of each stream
    MaxTime,    \* bound: the clock
    MaxCrashes, \* bound: deaths of the host process
    UniCap, EndpointCap, \* the bounds of mock.rs, 16 each
    PipeCap     \* frames that fit into a stream's duplex buffer

Times == 0..MaxTime

\* Connections in the order of the calls of connect, reconnections too.
Conns == 1..MaxConns
NoConn == 0

ASSUME DataPathAssumption ==
    /\ PathOf \in [Streams -> Files] /\ Foreign \subseteq Streams
    /\ Payloads # {} /\ Length \in [Payloads -> Nat] /\ TooLong \subseteq Payloads
    /\ MaxFrames \in [Streams -> U64s] /\ MaxTime \in U64s /\ MaxCrashes \in Nat
    /\ MaxConns \in Nat /\ PipeCap \in Nat \ {0}
    /\ UniCap \in Nat \ {0} /\ EndpointCap \in Nat \ {0}

VARIABLES
    now, crashes,
    \* endpoints and connections (mock.rs)
    up,            \* the host process runs
    connection_rx, \* connections its endpoint has not accepted
    link,          \* how far each connection has got
    uni_rx,        \* opened streams it has not accepted
    \* KnotStream
    stream, conn_of, start_time, seq_counter,
    pipe,          \* frames written and not read
    unsent,        \* history: sequence numbers no well-formed frame carries
    \* handle_stream
    handler, frame,
    txn,           \* payloads its write transaction has inserted
    \* redb files
    frames, timeline,
    \* the host's application
    received       \* FrameReceived events per stream

netVars == <<up, connection_rx, link, uni_rx>>
knotVars == <<stream, conn_of, start_time, seq_counter, unsent>>
diskVars == <<frames, timeline>>
vars == <<now, crashes, netVars, knotVars, pipe, handler, frame, txn, diskVars,
          received>>

Entries == [timestamp_ms : Times, payload : Payloads]
NoFrame == [header |-> KnotHeader(0, 0, 1, 0), payload |-> "none"]
Received == [header : {h \in Headers : h.timestamp_ms \in Times},
             payload : Payloads]

\* A frame in a stream, and what handle_stream makes of one that decodes.
Arrived(item) == [header |-> Decode(item.bytes), payload |-> item.payload]
Items == {item \in [bytes : Seq(Byte), payload : Payloads] :
             Decodes(item.bytes) => Arrived(item) \in Received}

\* The states in which a handler has a frame, and in which it has its file.
Busy == {"begun", "stored", "committed"}
Open == Busy \cup {"reading"}

TypeOK ==
    /\ now \in Times /\ crashes \in 0..MaxCrashes /\ up \in BOOLEAN
    /\ connection_rx \in Seq(Conns)
    /\ link \in [Conns -> {"idle", "queued", "served", "cut"}]
    /\ uni_rx \in [Conns -> Seq(Streams)]
    /\ stream \in [Streams -> {"none", "open", "closed"}]
    /\ conn_of \in [Streams -> Conns \cup {NoConn}]
    /\ start_time \in [Streams -> 0..now]
    /\ seq_counter \in [Streams -> Nat]
    /\ \A s \in Streams : seq_counter[s] <= MaxFrames[s]
    /\ pipe \in [Streams -> Seq(Items)]
    /\ unsent \in [Streams -> SUBSET Nat]
    /\ handler \in [Streams -> {"none", "config", "done"} \cup Open]
    /\ frame \in [Streams -> Received \cup {NoFrame}]
    /\ \A s \in Streams : handler[s] \in Busy => frame[s] \in Received
    /\ txn \in [Streams -> SUBSET Payloads]
    /\ frames \in [Files -> SUBSET Payloads]
    /\ timeline \in [Files -> SUBSET Entries]
    /\ received \in [Streams -> Seq(Received)]

Init ==
    /\ now = 0 /\ crashes = 0 /\ up = TRUE
    /\ connection_rx = <<>>
    /\ link = [c \in Conns |-> "idle"]
    /\ uni_rx = [c \in Conns |-> <<>>]
    /\ stream = [s \in Streams |-> "none"]
    /\ conn_of = [s \in Streams |-> NoConn]
    /\ start_time = [s \in Streams |-> 0]
    /\ seq_counter = [s \in Streams |-> 0]
    /\ pipe = [s \in Streams |-> <<>>]
    /\ unsent = [s \in Streams |-> {}]
    /\ handler = [s \in Streams |-> "none"]
    /\ frame = [s \in Streams |-> NoFrame]
    /\ txn = [s \in Streams |-> {}]
    /\ frames = [f \in Files |-> {}]
    /\ timeline = [f \in Files |-> {}]
    /\ received = [s \in Streams |-> <<>>]

Tick ==
    /\ now < MaxTime
    /\ now' = now + 1
    /\ UNCHANGED <<crashes, netVars, knotVars, pipe, handler, frame, txn,
                   diskVars, received>>

-----------------------------------------------------------------------------
(* Endpoints and connections                                               *)

\* connect hands the far end of a new connection to the host's endpoint; with
\* the endpoint gone it fails.
Connect(c) ==
    /\ up /\ link[c] = "idle" /\ \A d \in 1..(c - 1) : link[d] # "idle"
    /\ Len(connection_rx) < EndpointCap
    /\ connection_rx' = Append(connection_rx, c)
    /\ link' = [link EXCEPT ![c] = "queued"]
    /\ UNCHANGED <<now, crashes, up, uni_rx, knotVars, pipe, handler, frame,
                   txn, diskVars, received>>

\* The host's endpoint accepts, and serves the connection if it still stands.
Accept ==
    /\ connection_rx # <<>>
    /\ connection_rx' = Tail(connection_rx)
    /\ LET c == Head(connection_rx) IN
           link' = [link EXCEPT ![c] = IF @ = "queued" THEN "served" ELSE @]
    /\ UNCHANGED <<now, crashes, up, uni_rx, knotVars, pipe, handler, frame,
                   txn, diskVars, received>>

\* The transport fails: streams not accepted yet are dropped with it.
Lose(c) ==
    /\ link[c] \in {"queued", "served"}
    /\ link' = [link EXCEPT ![c] = "cut"]
    /\ uni_rx' = [uni_rx EXCEPT ![c] = <<>>]
    /\ UNCHANGED <<now, crashes, up, connection_rx, knotVars, pipe, handler,
                   frame, txn, diskVars, received>>

\* The accept loop spawns a handler for the next stream.
AcceptUni(c) ==
    /\ link[c] = "served" /\ uni_rx[c] # <<>>
    /\ handler' = [handler EXCEPT ![Head(uni_rx[c])] = "config"]
    /\ uni_rx' = [uni_rx EXCEPT ![c] = Tail(@)]
    /\ UNCHANGED <<now, crashes, up, connection_rx, link, knotVars, pipe, frame,
                   txn, diskVars, received>>

-----------------------------------------------------------------------------
(* KnotStream                                                              *)

Served(s) == stream[s] # "none" /\ link[conn_of[s]] = "served"

\* What create_stream does once its stream is granted.
CreateStream(s, c) ==
    /\ stream[s] = "none" /\ link[c] = "served"
    /\ Len(uni_rx[c]) < UniCap
    /\ uni_rx' = [uni_rx EXCEPT ![c] = Append(@, s)]
    /\ stream' = [stream EXCEPT ![s] = "open"]
    /\ conn_of' = [conn_of EXCEPT ![s] = c]
    /\ start_time' = [start_time EXCEPT ![s] = now]
    /\ UNCHANGED <<now, crashes, up, connection_rx, link, seq_counter, unsent,
                   pipe, handler, frame, txn, diskVars, received>>

\* seq_counter is advanced whether or not the frame can be sent.
NextSeq(s) ==
    /\ stream[s] = "open" /\ seq_counter[s] < MaxFrames[s]
    /\ seq_counter' = [seq_counter EXCEPT ![s] = @ + 1]
    /\ UNCHANGED <<now, crashes, netVars, stream, conn_of, start_time, handler,
                   frame, txn, diskVars, received>>

\* A send waits for room in the stream while that can be read.
Put(s, bytes, p) ==
    /\ Served(s) /\ handler[s] # "done" /\ Len(pipe[s]) < PipeCap
    /\ pipe' = [pipe EXCEPT ![s] = Append(@, [bytes |-> bytes, payload |-> p])]

Elapsed(s) == now - start_time[s]

FrameOf(s, p) == Encode(KnotHeader(seq_counter[s], Elapsed(s), 1, Length[p]))

WriteFrame(s) ==
    /\ NextSeq(s)
    /\ \E p \in Payloads \ TooLong : Put(s, FrameOf(s, p), p)
    /\ UNCHANGED unsent

\* The codec refuses the frame, or its reader is gone.
WriteFrameFails(s) ==
    /\ NextSeq(s)
    /\ TooLong # {} \/ ~Served(s) \/ handler[s] = "done"
    /\ unsent' = [unsent EXCEPT ![s] = @ \cup {seq_counter[s]}]
    /\ UNCHANGED pipe

\* A frame with less than a header, or with another magic; what it carries does
\* not matter.
WriteMalformed(s) ==
    /\ s \in Foreign
    /\ NextSeq(s)
    /\ LET p == CHOOSE p \in Payloads : TRUE
       IN  \/ Put(s, SubSeq(FrameOf(s, p), 1, SIZE - 1), p)
           \/ Put(s, [FrameOf(s, p) EXCEPT ![1] = 0], p)
    /\ unsent' = [unsent EXCEPT ![s] = @ \cup {seq_counter[s]}]

DropStream(s) ==
    /\ stream[s] = "open"
    /\ stream' = [stream EXCEPT ![s] = "closed"]
    /\ UNCHANGED <<now, crashes, netVars, conn_of, start_time, seq_counter,
                   unsent, pipe, handler, frame, txn, diskVars, received>>

-----------------------------------------------------------------------------
(* handle_stream and its DeduplicatedRecordingWriter                       *)

HandlerGoes(s, state) == handler' = [handler EXCEPT ![s] = state]

\* A handler that returns drops its reader, and with it what it has not read,
\* its database, and a transaction that is not committed.
HandlerReturns(s) ==
    /\ HandlerGoes(s, "done")
    /\ pipe' = [pipe EXCEPT ![s] = <<>>]
    /\ frame' = [frame EXCEPT ![s] = NoFrame]
    /\ txn' = [txn EXCEPT ![s] = {}]

InUse(f) == \E t \in Streams : PathOf[t] = f /\ handler[t] \in Open

hostRest == <<now, crashes, netVars, knotVars, received>>

\* Database::create refuses a file that is open.
HandlerOpens(s) ==
    /\ handler[s] = "config"
    /\ ~InUse(PathOf[s])
    /\ HandlerGoes(s, "reading")
    /\ UNCHANGED <<hostRest, pipe, frame, txn, diskVars>>

\* The next frame that has arrived: skipped when shorter than a header, the end
\* of the handler when it does not decode, otherwise written.
HandlerReads(s) ==
    /\ handler[s] = "reading"
    /\ pipe[s] # <<>>
    /\ LET item == Head(pipe[s])
           kept == [pipe EXCEPT ![s] = Tail(@)]
       IN  \/ /\ Len(item.bytes) < SIZE
              /\ pipe' = kept
              /\ UNCHANGED <<handler, frame, txn>>
           \/ /\ Len(item.bytes) >= SIZE /\ ~Decodes(item.bytes)
              /\ HandlerReturns(s)
           \/ /\ Decodes(item.bytes)
              /\ HandlerGoes(s, "begun")
              /\ frame' = [frame EXCEPT ![s] = Arrived(item)]
              /\ pipe' = kept
              /\ UNCHANGED txn
    /\ UNCHANGED <<hostRest, diskVars>>

EntryOf(r) == [timestamp_ms |-> r.header.timestamp_ms, payload |-> r.payload]

\* A table after an entry was inserted: the key is the timestamp.
Inserted(table, e) == {x \in table : x.timestamp_ms # e.timestamp_ms} \cup {e}

\* Each table in a transaction of its own, the timeline first.
MutInsertPayload(s) ==
    /\ handler[s] = "begun"
    /\ timeline' = [timeline EXCEPT ![PathOf[s]] = Inserted(@, EntryOf(frame[s]))]
    /\ txn' = [txn EXCEPT ![s] = {frame[s].payload} \ frames[PathOf[s]]]
    /\ HandlerGoes(s, "stored")
    /\ UNCHANGED <<hostRest, pipe, frame, frames>>

\* The payload is stored at once, outside the transaction.
MutStorePayload(s) ==
    /\ handler[s] = "begun"
    /\ frames' = [frames EXCEPT ![PathOf[s]] = @ \cup {frame[s].payload}]
    /\ HandlerGoes(s, "stored")
    /\ UNCHANGED <<hostRest, pipe, frame, txn, timeline>>

\* The payload goes into the frames table unless that has it.
InsertPayload(s) ==
    /\ handler[s] = "begun"
    /\ txn' = [txn EXCEPT ![s] = {frame[s].payload} \ frames[PathOf[s]]]
    /\ HandlerGoes(s, "stored")
    /\ UNCHANGED <<hostRest, pipe, frame, diskVars>>

MutCommit(s) ==
    /\ handler[s] = "stored"
    /\ txn' = [txn EXCEPT ![s] = {}]
    /\ HandlerGoes(s, "committed")
    /\ UNCHANGED <<hostRest, pipe, frame, diskVars>>

\* The entry goes into the timeline table, and the transaction is applied.
Commit(s) ==
    /\ handler[s] = "stored"
    /\ LET f == PathOf[s] IN
           /\ frames' = [frames EXCEPT ![f] = @ \cup txn[s]]
           /\ timeline' = [timeline EXCEPT ![f] = Inserted(@, EntryOf(frame[s]))]
    /\ txn' = [txn EXCEPT ![s] = {}]
    /\ HandlerGoes(s, "committed")
    /\ UNCHANGED <<hostRest, pipe, frame>>

\* FrameReceived, once write_frame has returned.
Report(s) ==
    /\ handler[s] = "committed"
    /\ received' = [received EXCEPT ![s] = Append(@, frame[s])]
    /\ HandlerGoes(s, "reading")
    /\ frame' = [frame EXCEPT ![s] = NoFrame]
    /\ UNCHANGED <<now, crashes, netVars, knotVars, pipe, txn, diskVars>>

MutHandlerEnds(s) ==
    /\ handler[s] = "reading" /\ stream[s] = "closed" /\ pipe[s] = <<>>
    /\ HandlerReturns(s)
    /\ UNCHANGED <<hostRest, diskVars>>

\* The stream has ended, or reading it fails.
HandlerEnds(s) ==
    /\ handler[s] \in {"config", "reading"}
    /\ \/ ~Served(s)
       \/ handler[s] = "reading" /\ stream[s] = "closed" /\ pipe[s] = <<>>
    /\ HandlerReturns(s)
    /\ UNCHANGED <<hostRest, diskVars>>

\* The file is open elsewhere, or an operation on it fails.
HandlerFails(s) ==
    /\ handler[s] \in {"config", "begun", "stored"}
    /\ HandlerReturns(s)
    /\ UNCHANGED <<hostRest, diskVars>>

-----------------------------------------------------------------------------
(* The host process                                                        *)

\* The process dies with all its tasks, connections and open transactions.
Crash ==
    /\ up /\ crashes < MaxCrashes
    /\ up' = FALSE /\ crashes' = crashes + 1
    /\ connection_rx' = <<>>
    /\ link' = [c \in Conns |-> IF link[c] = "idle" THEN "idle" ELSE "cut"]
    /\ uni_rx' = [c \in Conns |-> <<>>]
    /\ handler' = [s \in Streams |->
                      IF handler[s] = "none" THEN "none" ELSE "done"]
    /\ pipe' = [s \in Streams |->
                   IF handler[s] = "none" THEN pipe[s] ELSE <<>>]
    /\ frame' = [s \in Streams |-> NoFrame]
    /\ txn' = [s \in Streams |-> {}]
    /\ UNCHANGED <<now, knotVars, diskVars, received>>

Restart ==
    /\ ~up
    /\ up' = TRUE
    /\ UNCHANGED <<now, crashes, connection_rx, link, uni_rx, knotVars, pipe,
                   handler, frame, txn, diskVars, received>>

-----------------------------------------------------------------------------

HandleStream(s) ==
    \/ HandlerOpens(s) \/ HandlerReads(s) \/ InsertPayload(s)
    \/ Commit(s) \/ Report(s) \/ HandlerEnds(s) \/ HandlerFails(s)

Rope(s) ==
    \/ \E c \in Conns : CreateStream(s, c)
    \/ WriteFrame(s) \/ WriteFrameFails(s) \/ WriteMalformed(s) \/ DropStream(s)

Next ==
    \/ Tick \/ Accept \/ Crash \/ Restart
    \/ \E c \in Conns : Connect(c) \/ Lose(c) \/ AcceptUni(c)
    \/ \E s \in Streams : Rope(s) \/ HandleStream(s)

Spec == Init /\ [][Next]_vars

\* A handler's task runs while the process does: the runtime polls it, and each
\* operation of the database returns or fails.
Fairness == \A s \in Streams : WF_vars(HandleStream(s))

FairSpec == Spec /\ Fairness

-----------------------------------------------------------------------------
(* Safety                                                                  *)

\* No timeline entry is without its payload and no timestamp has two entries,
\* whatever operation of write_frame failed, whenever the process died, and
\* whichever streams shared the file.
TimelineIsPlayable ==
    \A f \in Files : \A e \in timeline[f] :
        /\ e.payload \in frames[f]
        /\ \A x \in timeline[f] : x.timestamp_ms = e.timestamp_ms => x = e

\* What the application was told of survives: its payload is on disk, and its
\* place in the timeline is taken, by itself or by a later frame.
ReportedIsDurable ==
    \A s \in Streams : \A i \in DOMAIN received[s] :
        LET r == received[s][i] IN
        /\ r.payload \in frames[PathOf[s]]
        /\ \E e \in timeline[PathOf[s]] : e.timestamp_ms = r.header.timestamp_ms

\* A stream that has its file open has it to itself: of the frames reported of
\* it, the last one at each timestamp is the one a replay shows.
RecordingIsOwn ==
    \A s \in Streams : handler[s] \in Open =>
        \A i \in DOMAIN received[s] :
            \/ EntryOf(received[s][i]) \in timeline[PathOf[s]]
            \/ \E j \in DOMAIN received[s] :
                   /\ j > i
                   /\ received[s][j].header.timestamp_ms
                          = received[s][i].header.timestamp_ms
            \/ /\ handler[s] = "committed"
               /\ frame[s].header.timestamp_ms = received[s][i].header.timestamp_ms

\* seq_num tells what is missing: the application sees the numbers of a stream
\* rise, and a number is left out only if its write_frame failed or its frame
\* was malformed.  Nothing is lost, repeated or reordered in between.
SeqTracksLoss ==
    \A s \in Streams : \A i \in DOMAIN received[s] :
        LET n    == received[s][i].header.seq_num
            seen == {received[s][j].header.seq_num : j \in 1..(i - 1)}
        IN  /\ \A k \in seen : k < n
            /\ 0..(n - 1) \subseteq seen \cup unsent[s]

\* What is recorded and reported, step by step: Timeline.
Promised == INSTANCE Timeline WITH
    received <- [s \in Streams |->
                    [i \in DOMAIN received[s] |-> EntryOf(received[s][i])]]

TimelineSpec == Promised!Spec

-----------------------------------------------------------------------------
(* Liveness                                                                *)

\* A file does not stay open for a stream that has ended or whose connection
\* is gone, so that a rope that reconnects can be recorded again.
FileReleased ==
    \A s \in Streams :
        stream[s] # "none" /\ (stream[s] = "closed" \/ ~Served(s))
            ~> handler[s] \notin Open \cup {"config"}

=============================================================================
