--------------------------- MODULE DataPathProofs ---------------------------
(***************************************************************************)
(* Theorems about DataPath, for any number of connections, streams, files, *)
(* frames, milliseconds and restarts.                                      *)
(*                                                                         *)
(* That a frame keeps its header on the way goes through the bytes:        *)
(* DecodeUndoesEncode of FrameCodecProofs.                                 *)
(***************************************************************************)
EXTENDS DataPath, FrameCodecProofs

-----------------------------------------------------------------------------
(* Frames in a stream                                                      *)

LEMMA TimesAreU64 == Times \subseteq U64s /\ Times \subseteq Nat
<1>1. MaxTime \in U64s /\ MaxTime \in Nat
  BY DataPathAssumption, Zenon DEF DataPathAssumption, U64s
<1> SUFFICES ASSUME NEW t \in Times
             PROVE  t \in U64s /\ t \in Nat
  OBVIOUS
<1>2. t \in Nat /\ t <= MaxTime
  BY <1>1, SMT DEF Times
<1> QED
  BY <1>1, <1>2, SmallerU64

\* The header of the next frame of a stream.
Next1(s, p) == KnotHeader(seq_counter[s], Elapsed(s), 1, Length[p])

LEMMA NextHeader ==
    ASSUME TypeOK, NEW s \in Streams, NEW p \in Payloads,
           NextSeq(s)
    PROVE  /\ Next1(s, p) \in Headers
           /\ Next1(s, p).timestamp_ms \in Times
           /\ Next1(s, p).seq_num = seq_counter[s]
           /\ seq_counter[s] \in Nat /\ MaxFrames[s] \in Nat
<1>1. /\ MaxFrames[s] \in U64s /\ MaxFrames[s] \in Nat /\ Length[p] \in Nat
      /\ MaxTime \in Nat
  BY DataPathAssumption, Zenon DEF DataPathAssumption, U64s
<1>2. seq_counter[s] \in Nat /\ seq_counter[s] <= MaxFrames[s]
  BY DEF TypeOK
<1>3. seq_counter[s] \in U64s
  BY <1>1, <1>2, SmallerU64
<1>4. Elapsed(s) \in Times
  <2>1. now \in Times /\ start_time[s] \in 0..now
    BY DEF TypeOK
  <2> QED
    BY <1>1, <2>1, SMT DEF Times, Elapsed
<1>5. 1 \in Byte
  BY SMT DEF Byte
<1>6. Next1(s, p) \in Headers
  BY <1>1, <1>3, <1>4, <1>5, TimesAreU64, KnotHeaderType DEF Next1
<1>7. /\ Next1(s, p).timestamp_ms = Elapsed(s)
      /\ Next1(s, p).seq_num = seq_counter[s]
  BY DEF Next1, KnotHeader
<1> QED
  BY <1>1, <1>2, <1>4, <1>6, <1>7

\* What write_frame puts into a stream arrives as it was.
LEMMA FrameArrives ==
    ASSUME TypeOK, NEW s \in Streams, NEW p \in Payloads, NextSeq(s)
    PROVE  LET item == [bytes |-> FrameOf(s, p), payload |-> p] IN
           /\ item \in Items
           /\ Decodes(item.bytes)
           /\ Arrived(item) = [header |-> Next1(s, p), payload |-> p]
           /\ Arrived(item).header.seq_num = seq_counter[s]
<1> DEFINE item == [bytes |-> FrameOf(s, p), payload |-> p]
<1>1. /\ Next1(s, p) \in Headers /\ Next1(s, p).timestamp_ms \in Times
      /\ Next1(s, p).seq_num = seq_counter[s]
  BY NextHeader
<1>2. FrameOf(s, p) = Encode(Next1(s, p))
  BY DEF FrameOf, Next1
<1>3. /\ Decodes(FrameOf(s, p)) /\ Decode(FrameOf(s, p)) = Next1(s, p)
      /\ FrameOf(s, p) \in Seq(Byte)
  BY <1>1, <1>2, DecodeUndoesEncode, EncodeType
<1>4. /\ Arrived(item) = [header |-> Next1(s, p), payload |-> p]
      /\ item.bytes = FrameOf(s, p)
  BY <1>3 DEF Arrived
<1>5. Arrived(item) \in Received
  BY <1>1, <1>4 DEF Received
<1>6. item \in Items
  BY <1>3, <1>5 DEF Items
<1> QED
  BY <1>1, <1>3, <1>4, <1>6

\* A malformed frame does not decode.
LEMMA MalformedArrives ==
    ASSUME TypeOK, NEW s \in Streams, NEW p \in Payloads, NextSeq(s),
           NEW b \in {SubSeq(FrameOf(s, p), 1, SIZE - 1),
                      [FrameOf(s, p) EXCEPT ![1] = 0]}
    PROVE  [bytes |-> b, payload |-> p] \in Items /\ ~Decodes(b)
<1>1. Next1(s, p) \in Headers
  BY NextHeader
<1>2. FrameOf(s, p) = Encode(Next1(s, p))
  BY DEF FrameOf, Next1
<1>3. b \in Seq(Byte) /\ ~Decodes(b)
  BY <1>1, <1>2, MalformedRefused
<1> QED
  BY <1>3 DEF Items

-----------------------------------------------------------------------------
(* Type correctness                                                        *)

LEMMA TypeInit == Init => TypeOK
<1> SUFFICES ASSUME Init PROVE TypeOK
  OBVIOUS
<1>1. 0 \in Times /\ 0 \in 0..0 /\ 0 \in 0..MaxCrashes
  BY DataPathAssumption, TimesAreU64, SMT DEF DataPathAssumption, Times, U64s
<1>2. \A s \in Streams : 0 <= MaxFrames[s]
  <2>1. \A s \in Streams : MaxFrames[s] \in Nat
    BY DataPathAssumption, Zenon DEF DataPathAssumption, U64s
  <2> QED
    BY <2>1, SMT
<1> QED
  BY <1>1, <1>2 DEF Init, TypeOK, Busy, Open

\* The parts of TypeOK that the steps of connections, of KnotStreams and of
\* handlers change.
NetOK ==
    /\ now \in Times /\ crashes \in 0..MaxCrashes /\ up \in BOOLEAN
    /\ connection_rx \in Seq(Conns)
    /\ link \in [Conns -> {"idle", "queued", "served", "cut"}]
    /\ uni_rx \in [Conns -> Seq(Streams)]

KnotOK ==
    /\ stream \in [Streams -> {"none", "open", "closed"}]
    /\ conn_of \in [Streams -> Conns \cup {NoConn}]
    /\ start_time \in [Streams -> 0..now]
    /\ seq_counter \in [Streams -> Nat]
    /\ \A s \in Streams : seq_counter[s] <= MaxFrames[s]
    /\ unsent \in [Streams -> SUBSET Nat]

HostOK ==
    /\ handler \in [Streams -> {"none", "config", "done"} \cup Open]
    /\ frame \in [Streams -> Received \cup {NoFrame}]
    /\ \A s \in Streams : handler[s] \in Busy => frame[s] \in Received
    /\ txn \in [Streams -> SUBSET Payloads]
    /\ frames \in [Files -> SUBSET Payloads]
    /\ timeline \in [Files -> SUBSET Entries]
    /\ received \in [Streams -> Seq(Received)]

LEMMA TypeParts == TypeOK <=> /\ NetOK /\ KnotOK /\ HostOK
                             /\ pipe \in [Streams -> Seq(Items)]
BY Zenon DEF TypeOK, NetOK, KnotOK, HostOK

netRest == <<now, crashes, netVars>>
hostVars == <<handler, frame, txn, diskVars, received>>

LEMMA NetUnchanged == NetOK /\ UNCHANGED netRest => NetOK'
BY DEF NetOK, netRest, netVars

LEMMA KnotUnchanged == KnotOK /\ UNCHANGED <<now, knotVars>> => KnotOK'
BY DEF KnotOK, knotVars

LEMMA HostUnchanged == HostOK /\ UNCHANGED hostVars => HostOK'
BY DEF HostOK, hostVars, diskVars

LEMMA TypeStep == TypeOK /\ [Next]_vars => TypeOK'
<1> SUFFICES ASSUME TypeOK, [Next]_vars
             PROVE  TypeOK'
  OBVIOUS
<1> USE DEF netRest, netVars, knotVars, hostVars, diskVars, hostRest
<1>0. /\ NetOK /\ KnotOK /\ HostOK /\ pipe \in [Streams -> Seq(Items)]
      /\ PathOf \in [Streams -> Files]
  BY TypeParts, DataPathAssumption, Zenon DEF DataPathAssumption
<1> SUFFICES NetOK' /\ KnotOK' /\ HostOK' /\ (pipe \in [Streams -> Seq(Items)])'
  BY Zenon DEF TypeOK, NetOK, KnotOK, HostOK
<1>1. CASE Tick
  <2>1. now' \in Times /\ 0..now \subseteq 0..now'
    BY <1>0, <1>1, TimesAreU64, DataPathAssumption, SMT
       DEF Tick, NetOK, Times, DataPathAssumption, U64s
  <2>2. NetOK'
    BY <1>0, <1>1, <2>1 DEF Tick, NetOK
  <2>3. KnotOK'
    BY <1>0, <1>1, <2>1 DEF Tick, KnotOK
  <2> QED
    BY <1>0, <1>1, <2>2, <2>3, HostUnchanged DEF Tick
<1>2. CASE Accept
  <2>1. NetOK'
    BY <1>0, <1>2 DEF Accept, NetOK
  <2> QED
    BY <1>0, <1>2, <2>1, KnotUnchanged, HostUnchanged DEF Accept
<1>3. CASE Crash
  <2>1. crashes' \in 0..MaxCrashes
    <3>1. MaxCrashes \in Nat
      BY DataPathAssumption DEF DataPathAssumption
    <3>2. crashes \in 0..MaxCrashes /\ crashes < MaxCrashes /\ crashes' = crashes + 1
      BY <1>0, <1>3 DEF Crash, NetOK
    <3> QED
      BY <3>1, <3>2, SMT
  <2>3. /\ link' \in [Conns -> {"idle", "queued", "served", "cut"}]
        /\ uni_rx' \in [Conns -> Seq(Streams)] /\ connection_rx' \in Seq(Conns)
    BY <1>3 DEF Crash
  <2>4. NetOK'
    BY <1>0, <1>3, <2>1, <2>3 DEF Crash, NetOK
  <2>2. HostOK'
    BY <1>0, <1>3 DEF Crash, HostOK, Open, Busy
  <2> QED
    BY <1>0, <1>3, <2>4, <2>2, KnotUnchanged DEF Crash
<1>4. CASE Restart
  <2>1. NetOK'
    BY <1>0, <1>4 DEF Restart, NetOK
  <2> QED
    BY <1>0, <1>4, <2>1, KnotUnchanged, HostUnchanged DEF Restart
<1>5. ASSUME NEW c \in Conns, Connect(c) \/ Lose(c) \/ AcceptUni(c)
      PROVE  NetOK' /\ KnotOK' /\ HostOK' /\ (pipe \in [Streams -> Seq(Items)])'
  <2>1. CASE Connect(c)
    <3>1. NetOK'
      BY <1>0, <2>1 DEF Connect, NetOK
    <3> QED
      BY <1>0, <2>1, <3>1, KnotUnchanged, HostUnchanged DEF Connect
  <2>2. CASE Lose(c)
    <3>1. NetOK'
      BY <1>0, <2>2 DEF Lose, NetOK
    <3> QED
      BY <1>0, <2>2, <3>1, KnotUnchanged, HostUnchanged DEF Lose
  <2>3. CASE AcceptUni(c)
    <3>1. NetOK'
      BY <1>0, <2>3 DEF AcceptUni, NetOK
    <3>2. HostOK'
      BY <1>0, <2>3 DEF AcceptUni, HostOK, Busy
    <3> QED
      BY <1>0, <2>3, <3>1, <3>2, KnotUnchanged DEF AcceptUni
  <2> QED
    BY <1>5, <2>1, <2>2, <2>3
<1>6. ASSUME NEW s \in Streams, Rope(s)
      PROVE  NetOK' /\ KnotOK' /\ HostOK' /\ (pipe \in [Streams -> Seq(Items)])'
  <2>1. ASSUME NEW c \in Conns, CreateStream(s, c)
        PROVE  NetOK' /\ KnotOK' /\ HostOK' /\ (pipe \in [Streams -> Seq(Items)])'
    <3>1. NetOK'
      BY <1>0, <2>1 DEF CreateStream, NetOK
    <3>2. now \in 0..now
      BY <1>0, TimesAreU64, SMT DEF NetOK
    <3>3. KnotOK'
      BY <1>0, <2>1, <3>2 DEF CreateStream, KnotOK
    <3> QED
      BY <1>0, <2>1, <3>1, <3>3, HostUnchanged DEF CreateStream
  <2>2. ASSUME NextSeq(s)
        PROVE  /\ NetOK' /\ HostOK'
               /\ unsent' \in [Streams -> SUBSET Nat] => KnotOK'
               /\ [unsent EXCEPT ![s] = @ \cup {seq_counter[s]}]
                     \in [Streams -> SUBSET Nat]
    <3>1. \A t \in Streams : MaxFrames[t] \in Nat
      BY DataPathAssumption, Zenon DEF DataPathAssumption, U64s
    <3>2. /\ seq_counter' \in [Streams -> Nat]
          /\ \A t \in Streams : seq_counter'[t] <= MaxFrames[t]
      BY <1>0, <2>2, <3>1 DEF NextSeq, KnotOK
    <3>3. UNCHANGED <<now, stream, conn_of, start_time>>
      BY <2>2 DEF NextSeq
    <3>4. unsent' \in [Streams -> SUBSET Nat] => KnotOK'
      BY <1>0, <3>2, <3>3 DEF KnotOK
    <3>5. [unsent EXCEPT ![s] = @ \cup {seq_counter[s]}] \in [Streams -> SUBSET Nat]
      BY <1>0 DEF KnotOK
    <3> QED
      BY <1>0, <2>2, <3>4, <3>5, NetUnchanged, HostUnchanged DEF NextSeq
  <2>3. ASSUME NEW p \in Payloads, NEW b,
               [bytes |-> b, payload |-> p] \in Items, Put(s, b, p)
        PROVE  (pipe \in [Streams -> Seq(Items)])'
    BY <1>0, <2>3 DEF Put
  <2>4. CASE WriteFrame(s)
    <3>1. PICK p \in Payloads : Put(s, FrameOf(s, p), p)
      BY <2>4 DEF WriteFrame
    <3>2. NextSeq(s) /\ unsent' = unsent
      BY <2>4 DEF WriteFrame
    <3>3. [bytes |-> FrameOf(s, p), payload |-> p] \in Items
      BY <3>2, FrameArrives
    <3>4. unsent \in [Streams -> SUBSET Nat]
      BY <1>0 DEF KnotOK
    <3> QED
      BY <2>2, <2>3, <3>1, <3>2, <3>3, <3>4
  <2>5. CASE WriteFrameFails(s)
    BY <1>0, <2>2, <2>5 DEF WriteFrameFails
  <2>6. CASE WriteMalformed(s)
    <3> DEFINE p == CHOOSE p \in Payloads : TRUE
    <3>1. PICK b \in {SubSeq(FrameOf(s, p), 1, SIZE - 1),
                      [FrameOf(s, p) EXCEPT ![1] = 0]} : Put(s, b, p)
      BY <2>6 DEF WriteMalformed
    <3>2. NextSeq(s) /\ unsent' = [unsent EXCEPT ![s] = @ \cup {seq_counter[s]}]
      BY <2>6 DEF WriteMalformed
    <3>3. p \in Payloads
      BY DataPathAssumption DEF DataPathAssumption
    <3> HIDE DEF p
    <3>4. [bytes |-> b, payload |-> p] \in Items
      BY <3>2, <3>3, MalformedArrives
    <3> QED
      BY <2>2, <2>3, <3>1, <3>2, <3>3, <3>4
  <2>7. CASE DropStream(s)
    <3>1. KnotOK'
      BY <1>0, <2>7 DEF DropStream, KnotOK
    <3> QED
      BY <1>0, <2>7, <3>1, NetUnchanged, HostUnchanged DEF DropStream
  <2> QED
    BY <1>6, <2>1, <2>4, <2>5, <2>6, <2>7 DEF Rope
<1>7. ASSUME NEW s \in Streams, HandleStream(s)
      PROVE  NetOK' /\ KnotOK' /\ HostOK' /\ (pipe \in [Streams -> Seq(Items)])'
  <2>1. NetOK' /\ KnotOK'
    <3>1. UNCHANGED <<now, crashes, netVars, knotVars>>
      BY <1>7 DEF HandleStream, HandlerOpens, HandlerReads, InsertPayload,
                  Commit, Report, HandlerEnds, HandlerFails
    <3> QED
      BY <1>0, <3>1, NetUnchanged, KnotUnchanged
  <2>2. ASSUME HandlerReturns(s), UNCHANGED <<diskVars, received>>
        PROVE  HostOK' /\ (pipe \in [Streams -> Seq(Items)])'
    BY <1>0, <2>2 DEF HandlerReturns, HandlerGoes, HostOK, Busy
  <2>3. CASE HandlerOpens(s)
    BY <1>0, <2>1, <2>3 DEF HandlerOpens, HandlerGoes, HostOK, Busy, Open
  <2>4. CASE HandlerReads(s)
    <3>1. /\ Head(pipe[s]) \in Items
          /\ [pipe EXCEPT ![s] = Tail(@)] \in [Streams -> Seq(Items)]
      <4>1. pipe[s] \in Seq(Items) /\ pipe[s] # <<>>
        BY <1>0, <2>4 DEF HandlerReads
      <4>2. Head(pipe[s]) \in Items /\ Tail(pipe[s]) \in Seq(Items)
        BY <4>1, HeadTailProperties
      <4> QED
        BY <1>0, <4>2
    <3>2. Decodes(Head(pipe[s]).bytes) => Arrived(Head(pipe[s])) \in Received
      BY <3>1 DEF Items
    <3> HIDE DEF hostRest, diskVars
    <3>3. UNCHANGED <<diskVars, received>>
      BY <2>4 DEF HandlerReads, hostRest
    <3>4. CASE UNCHANGED <<handler, frame, txn>> /\ pipe' = [pipe EXCEPT ![s] = Tail(@)]
      BY <1>0, <2>1, <3>1, <3>3, <3>4, HostUnchanged DEF hostVars
    <3>5. CASE HandlerReturns(s)
      BY <2>1, <2>2, <3>3, <3>5
    <3>6. CASE /\ Decodes(Head(pipe[s]).bytes)
               /\ HandlerGoes(s, "begun")
               /\ frame' = [frame EXCEPT ![s] = Arrived(Head(pipe[s]))]
               /\ pipe' = [pipe EXCEPT ![s] = Tail(@)]
               /\ UNCHANGED txn
      <4>1. HostOK'
        BY <1>0, <3>2, <3>3, <3>6 DEF HandlerGoes, HostOK, Busy, Open, diskVars
      <4> QED
        BY <2>1, <3>1, <3>6, <4>1
    <3> QED
      BY <2>4, <3>4, <3>5, <3>6 DEF HandlerReads
  <2>5. CASE InsertPayload(s)
    <3>1. handler[s] = "begun" /\ frame[s] \in Received
      BY <1>0, <2>5 DEF InsertPayload, HostOK, Busy
    <3>2. frame[s].payload \in Payloads
      BY <3>1 DEF Received
    <3> QED
      BY <1>0, <2>1, <2>5, <3>1, <3>2
         DEF InsertPayload, HandlerGoes, HostOK, Busy, Open
  <2>6. CASE Commit(s)
    <3>1. handler[s] = "stored" /\ frame[s] \in Received
      BY <1>0, <2>6 DEF Commit, HostOK, Busy
    <3>2. EntryOf(frame[s]) \in Entries
      BY <3>1 DEF Received, Entries, EntryOf
    <3>3. /\ frames' \in [Files -> SUBSET Payloads]
          /\ timeline' \in [Files -> SUBSET Entries]
      BY <1>0, <2>6, <3>2 DEF Commit, Inserted, HostOK
    <3> QED
      BY <1>0, <2>1, <2>6, <3>1, <3>3 DEF Commit, HandlerGoes, HostOK, Busy, Open
  <2>7. CASE Report(s)
    <3>1. handler[s] = "committed" /\ frame[s] \in Received
      BY <1>0, <2>7 DEF Report, HostOK, Busy
    <3>2. received' \in [Streams -> Seq(Received)]
      BY <1>0, <2>7, <3>1 DEF Report, HostOK
    <3> QED
      BY <1>0, <2>1, <2>7, <3>1, <3>2 DEF Report, HandlerGoes, HostOK, Busy, Open
  <2>8. CASE HandlerEnds(s) \/ HandlerFails(s)
    BY <2>1, <2>2, <2>8 DEF HandlerEnds, HandlerFails
  <2> QED
    BY <1>7, <2>3, <2>4, <2>5, <2>6, <2>7, <2>8 DEF HandleStream
<1>8. CASE UNCHANGED vars
  BY <1>0, <1>8, NetUnchanged, KnotUnchanged, HostUnchanged DEF vars
<1> QED
  BY <1>1, <1>2, <1>3, <1>4, <1>5, <1>6, <1>7, <1>8 DEF Next

\* The variables of DataPath have their types in every reachable state: what is
\* read from a stream has the header of a frame, its timestamp within the clock.
THEOREM TypeCorrectness == Spec => []TypeOK
BY TypeInit, TypeStep, PTL DEF Spec

-----------------------------------------------------------------------------
(* Who has a file, and what it has in hand                                 *)

\* A stream the host has not accepted has no handler, and is waiting once.
Waiting ==
    /\ \A c \in Conns : \A i \in DOMAIN uni_rx[c] :
           /\ handler[uni_rx[c][i]] = "none"
           /\ stream[uni_rx[c][i]] # "none" /\ conn_of[uni_rx[c][i]] = c
           /\ \A j \in DOMAIN uni_rx[c] : uni_rx[c][i] = uni_rx[c][j] => i = j
    /\ \A s \in Streams : stream[s] = "none" => handler[s] = "none"

OneHolder ==
    \A s, t \in Streams :
        handler[s] \in Open /\ handler[t] \in Open /\ PathOf[s] = PathOf[t] => s = t

\* A handler that has not got its file has reported nothing.
QuietBefore ==
    \A s \in Streams : handler[s] \in {"none", "config"} => received[s] = <<>>

\* Between the two inserts the payload is in the table or in the transaction.
Inserting ==
    \A s \in Streams : handler[s] = "stored" =>
        /\ txn[s] \subseteq {frame[s].payload}
        /\ frame[s].payload \in txn[s] \cup frames[PathOf[s]]

\* After the commit both tables have the frame, until it is reported.
Committed ==
    \A s \in Streams : handler[s] = "committed" =>
        /\ frame[s].payload \in frames[PathOf[s]]
        /\ EntryOf(frame[s]) \in timeline[PathOf[s]]

HostInv == Waiting /\ OneHolder /\ QuietBefore /\ Inserting /\ Committed

\* The steps that change what the host has.
LEMMA HostSteps ==
    ASSUME [Next]_vars
    PROVE  \/ UNCHANGED hostVars
           \/ \E c \in Conns : AcceptUni(c)
           \/ Crash
           \/ \E s \in Streams : HandleStream(s)
<1> USE DEF hostVars, diskVars
<1>1. Tick \/ Accept \/ Restart => UNCHANGED hostVars
  BY DEF Tick, Accept, Restart
<1>2. ASSUME NEW c \in Conns, Connect(c) \/ Lose(c)
      PROVE  UNCHANGED hostVars
  BY <1>2 DEF Connect, Lose
<1>3. ASSUME NEW s \in Streams, Rope(s)
      PROVE  UNCHANGED hostVars
  BY <1>3 DEF Rope, CreateStream, WriteFrame, WriteFrameFails, WriteMalformed,
              NextSeq, DropStream
<1>4. CASE UNCHANGED vars
  BY <1>4 DEF vars
<1> QED
  BY <1>1, <1>2, <1>3, <1>4 DEF Next

\* What the steps of a handler do, by the state it is in; the rest of the host
\* is as it was.
LEMMA HandlerSteps ==
    ASSUME TypeOK, NEW s \in Streams, HandleStream(s)
    PROVE  /\ \A t \in Streams \ {s} :
                 /\ handler'[t] = handler[t] /\ frame'[t] = frame[t]
                 /\ txn'[t] = txn[t] /\ received'[t] = received[t]
                 /\ pipe'[t] = pipe[t]
           /\ UNCHANGED <<now, crashes, netVars, knotVars>>
           /\ handler[s] # "none"
           /\ \/ HandlerOpens(s) /\ handler'[s] = "reading"
              \/ /\ HandlerReads(s) /\ handler'[s] \in {"reading", "begun"}
                 /\ pipe[s] # <<>> /\ pipe'[s] = Tail(pipe[s])
                 /\ handler'[s] = "begun" =>
                       /\ Decodes(Head(pipe[s]).bytes)
                       /\ frame'[s] = Arrived(Head(pipe[s]))
                 /\ handler'[s] = "reading" => ~Decodes(Head(pipe[s]).bytes)
              \/ InsertPayload(s) /\ handler'[s] = "stored"
              \/ Commit(s) /\ handler'[s] = "committed"
              \/ Report(s) /\ handler'[s] = "reading"
              \/ handler'[s] = "done" /\ UNCHANGED <<diskVars, received>>
           /\ handler[s] \in {"config", "reading"} \cup Busy
<1>0. /\ handler \in [Streams -> {"none", "config", "done"} \cup Open]
      /\ DOMAIN frame = Streams /\ DOMAIN txn = Streams /\ DOMAIN received = Streams
      /\ DOMAIN pipe = Streams
  BY DEF TypeOK
<1> USE DEF hostRest, HandlerGoes, Busy
<1>1. CASE HandlerOpens(s)
  BY <1>0, <1>1 DEF HandlerOpens
<1>2. CASE HandlerReads(s)
  <2>1. handler[s] = "reading" /\ pipe[s] # <<>> /\ UNCHANGED <<hostRest, diskVars>>
    BY <1>2 DEF HandlerReads
  <2>2. CASE HandlerReturns(s)
    BY <1>0, <2>1, <2>2 DEF HandlerReturns
  <2>3. CASE /\ Len(Head(pipe[s]).bytes) < SIZE
             /\ pipe' = [pipe EXCEPT ![s] = Tail(@)]
             /\ UNCHANGED <<handler, frame, txn>>
    <3>1. ~Decodes(Head(pipe[s]).bytes)
      <4>1. Head(pipe[s]) \in Items
        BY <2>1, HeadTailProperties DEF TypeOK
      <4>2. Len(Head(pipe[s]).bytes) \in Nat
        BY <4>1 DEF Items
      <4> QED
        BY <2>3, <4>2, SMT DEF Decodes, SIZE
    <3> QED
      BY <1>0, <1>2, <2>1, <2>3, <3>1
  <2>4. CASE /\ Decodes(Head(pipe[s]).bytes)
             /\ HandlerGoes(s, "begun")
             /\ frame' = [frame EXCEPT ![s] = Arrived(Head(pipe[s]))]
             /\ pipe' = [pipe EXCEPT ![s] = Tail(@)]
             /\ UNCHANGED txn
    BY <1>0, <1>2, <2>1, <2>4
  <2> QED
    BY <1>2, <2>2, <2>3, <2>4 DEF HandlerReads
<1>3. CASE InsertPayload(s)
  BY <1>0, <1>3 DEF InsertPayload
<1>4. CASE Commit(s)
  BY <1>0, <1>4 DEF Commit
<1>5. CASE Report(s)
  BY <1>0, <1>5 DEF Report
<1>6. CASE HandlerEnds(s) \/ HandlerFails(s)
  BY <1>0, <1>6 DEF HandlerEnds, HandlerFails, HandlerReturns
<1> QED
  BY <1>1, <1>2, <1>3, <1>4, <1>5, <1>6 DEF HandleStream

\* What a commit leaves in the tables.
LEMMA CommitSteps ==
    ASSUME TypeOK, NEW s \in Streams, Commit(s)
    PROVE  /\ frames'[PathOf[s]] = frames[PathOf[s]] \cup txn[s]
           /\ timeline'[PathOf[s]] = Inserted(timeline[PathOf[s]], EntryOf(frame[s]))
           /\ \A f \in Files \ {PathOf[s]} :
                 frames'[f] = frames[f] /\ timeline'[f] = timeline[f]
           /\ PathOf[s] \in Files
           /\ UNCHANGED <<received, frame>>
BY DataPathAssumption DEF DataPathAssumption, TypeOK, Commit, hostRest

\* The tables change in commits only.
LEMMA TablesKept ==
    ASSUME TypeOK, [Next]_vars, \A s \in Streams : ~Commit(s)
    PROVE  UNCHANGED diskVars
<1> USE DEF diskVars
<1>1. CASE UNCHANGED hostVars
  BY <1>1 DEF hostVars
<1>2. ASSUME NEW c \in Conns, AcceptUni(c) PROVE UNCHANGED diskVars
  BY <1>2 DEF AcceptUni
<1>3. CASE Crash
  BY <1>3 DEF Crash
<1>4. ASSUME NEW s \in Streams, HandleStream(s) PROVE UNCHANGED diskVars
  BY <1>4 DEF HandleStream, HandlerOpens, HandlerReads, InsertPayload, Report,
              HandlerEnds, HandlerFails
<1> QED
  BY <1>1, <1>2, <1>3, <1>4, HostSteps

LEMMA HostInvInit == Init => HostInv
BY DEF Init, HostInv, Waiting, OneHolder, QuietBefore, Inserting, Committed, Open, Busy

LEMMA WaitingStep == TypeOK /\ Waiting /\ [Next]_vars => Waiting'
<1> SUFFICES ASSUME TypeOK, Waiting, [Next]_vars
             PROVE  Waiting'
  OBVIOUS
<1>0. /\ uni_rx \in [Conns -> Seq(Streams)] /\ DOMAIN handler = Streams
      /\ DOMAIN stream = Streams /\ DOMAIN conn_of = Streams
  BY DEF TypeOK
<1>1. ASSUME UNCHANGED <<uni_rx, conn_of>>,
             \A s \in Streams : stream'[s] = "none" <=> stream[s] = "none",
             \A s \in Streams : handler'[s] = "none" <=> handler[s] = "none"
      PROVE  Waiting'
  <2>1. \A c \in Conns : \A i \in DOMAIN uni_rx[c] : uni_rx[c][i] \in Streams
    BY <1>0
  <2> QED
    BY <1>1, <2>1 DEF Waiting
<1>2. CASE Tick \/ Accept \/ Restart
  BY <1>1, <1>2, Zenon DEF Tick, Accept, Restart, netVars, knotVars
<1>3. CASE Crash
  BY <1>0, <1>3 DEF Crash, Waiting, knotVars
<1>4. ASSUME NEW c \in Conns, Connect(c) PROVE Waiting'
  BY <1>1, <1>4, Zenon DEF Connect, knotVars
<1>5. ASSUME NEW c \in Conns, Lose(c) PROVE Waiting'
  <2>1. /\ UNCHANGED <<stream, conn_of, handler>> /\ uni_rx'[c] = <<>>
        /\ \A d \in Conns \ {c} : uni_rx'[d] = uni_rx[d]
    BY <1>0, <1>5 DEF Lose, knotVars
  <2> QED
    BY <2>1 DEF Waiting
<1>6. ASSUME NEW c \in Conns, AcceptUni(c) PROVE Waiting'
  <2> DEFINE h == Head(uni_rx[c])
  <2>1. /\ uni_rx[c] \in Seq(Streams) /\ uni_rx[c] # <<>>
        /\ UNCHANGED <<stream, conn_of>>
        /\ handler' = [handler EXCEPT ![h] = "config"]
        /\ uni_rx'[c] = Tail(uni_rx[c])
        /\ \A d \in Conns \ {c} : uni_rx'[d] = uni_rx[d]
    BY <1>0, <1>6 DEF AcceptUni, knotVars
  <2>2. /\ h = uni_rx[c][1] /\ 1 \in DOMAIN uni_rx[c] /\ h \in Streams
        /\ \A i \in DOMAIN Tail(uni_rx[c]) :
              /\ i + 1 \in DOMAIN uni_rx[c] /\ i + 1 # 1 /\ i \in Int
              /\ Tail(uni_rx[c])[i] = uni_rx[c][i + 1]
    BY <2>1, HeadTailProperties
  <2>3. stream[h] # "none" /\ conn_of[h] = c
    BY <2>2 DEF Waiting
  <2> HIDE DEF h
  <2>4. /\ handler'[h] = "config" /\ \A t \in Streams \ {h} : handler'[t] = handler[t]
    BY <1>0, <2>1, <2>2
  <2>5. ASSUME NEW d \in Conns \ {c}, NEW i \in DOMAIN uni_rx[d]
        PROVE  uni_rx[d][i] \in Streams /\ uni_rx[d][i] # h
    BY <1>0, <2>3 DEF Waiting
  <2>6. ASSUME NEW i \in DOMAIN Tail(uni_rx[c])
        PROVE  /\ uni_rx[c][i + 1] # h /\ uni_rx[c][i + 1] \in Streams
               /\ handler[uni_rx[c][i + 1]] = "none"
               /\ stream[uni_rx[c][i + 1]] # "none" /\ conn_of[uni_rx[c][i + 1]] = c
               /\ \A j \in DOMAIN Tail(uni_rx[c]) :
                     uni_rx[c][i + 1] = uni_rx[c][j + 1] => i = j
    <3>1. /\ handler[uni_rx[c][i + 1]] = "none"
          /\ stream[uni_rx[c][i + 1]] # "none" /\ conn_of[uni_rx[c][i + 1]] = c
          /\ \A j \in DOMAIN uni_rx[c] : uni_rx[c][i + 1] = uni_rx[c][j] => i + 1 = j
      BY <2>2, Zenon DEF Waiting
    <3>2. uni_rx[c][i + 1] # h
      BY <2>2, <3>1, Zenon
    <3>3. uni_rx[c][i + 1] \in Streams
      BY <2>1, <2>2
    <3>4. ASSUME NEW j \in DOMAIN Tail(uni_rx[c]), uni_rx[c][i + 1] = uni_rx[c][j + 1]
          PROVE  i = j
      <4>1. i + 1 = j + 1 /\ i \in Int /\ j \in Int
        BY <2>2, <3>1, <3>4, Zenon
      <4> QED
        BY <4>1, SMT
    <3> QED
      BY <3>1, <3>2, <3>3, <3>4, Zenon
  <2>7. \A i \in DOMAIN uni_rx'[c] :
           /\ handler'[uni_rx'[c][i]] = "none"
           /\ stream'[uni_rx'[c][i]] # "none" /\ conn_of'[uni_rx'[c][i]] = c
           /\ \A j \in DOMAIN uni_rx'[c] : uni_rx'[c][i] = uni_rx'[c][j] => i = j
    BY <2>1, <2>2, <2>4, <2>6
  <2>8. \A d \in Conns \ {c} : \A i \in DOMAIN uni_rx'[d] :
           /\ handler'[uni_rx'[d][i]] = "none"
           /\ stream'[uni_rx'[d][i]] # "none" /\ conn_of'[uni_rx'[d][i]] = d
           /\ \A j \in DOMAIN uni_rx'[d] : uni_rx'[d][i] = uni_rx'[d][j] => i = j
    BY <2>1, <2>4, <2>5 DEF Waiting
  <2>9. \A s \in Streams : stream'[s] = "none" => handler'[s] = "none"
    BY <2>1, <2>3, <2>4 DEF Waiting
  <2> QED
    BY <2>7, <2>8, <2>9, Zenon DEF Waiting
<1>7. ASSUME NEW s \in Streams, NEW c \in Conns, CreateStream(s, c) PROVE Waiting'
  <2>1. /\ uni_rx[c] \in Seq(Streams) /\ UNCHANGED handler
        /\ stream[s] = "none" /\ stream'[s] = "open" /\ conn_of'[s] = c
        /\ \A t \in Streams \ {s} : stream'[t] = stream[t] /\ conn_of'[t] = conn_of[t]
        /\ uni_rx'[c] = Append(uni_rx[c], s)
        /\ \A d \in Conns \ {c} : uni_rx'[d] = uni_rx[d]
    BY <1>0, <1>7 DEF CreateStream
  <2>2. \A d \in Conns : \A i \in DOMAIN uni_rx[d] :
           uni_rx[d][i] \in Streams /\ uni_rx[d][i] # s
    BY <1>0, <2>1 DEF Waiting
  <2>3. handler[s] = "none"
    BY <2>1 DEF Waiting
  <2>4. \A d \in Conns \ {c} : \A i \in DOMAIN uni_rx'[d] :
           /\ handler'[uni_rx'[d][i]] = "none"
           /\ stream'[uni_rx'[d][i]] # "none" /\ conn_of'[uni_rx'[d][i]] = d
           /\ \A j \in DOMAIN uni_rx'[d] : uni_rx'[d][i] = uni_rx'[d][j] => i = j
    BY <2>1, <2>2 DEF Waiting
  <2>5. \A i \in DOMAIN uni_rx'[c] :
           \/ i \in DOMAIN uni_rx[c] /\ uni_rx'[c][i] = uni_rx[c][i]
           \/ i = Len(uni_rx[c]) + 1 /\ uni_rx'[c][i] = s
    BY <2>1, AppendProperties
  <2>6. \A i \in DOMAIN uni_rx'[c] :
           /\ handler'[uni_rx'[c][i]] = "none"
           /\ stream'[uni_rx'[c][i]] # "none" /\ conn_of'[uni_rx'[c][i]] = c
           /\ \A j \in DOMAIN uni_rx'[c] : uni_rx'[c][i] = uni_rx'[c][j] => i = j
    BY <2>1, <2>2, <2>3, <2>5 DEF Waiting
  <2>7. \A t \in Streams : stream'[t] = "none" => handler'[t] = "none"
    BY <2>1, <2>3 DEF Waiting
  <2> QED
    BY <2>4, <2>6, <2>7, Zenon DEF Waiting
<1>8. ASSUME NEW s \in Streams,
             WriteFrame(s) \/ WriteFrameFails(s) \/ WriteMalformed(s)
      PROVE  Waiting'
  <2>1. UNCHANGED <<uni_rx, conn_of, stream, handler>>
    BY <1>8 DEF WriteFrame, WriteFrameFails, WriteMalformed, NextSeq, netVars
  <2> QED
    BY <1>1, <2>1, Zenon
<1>9. ASSUME NEW s \in Streams, DropStream(s) PROVE Waiting'
  <2>1. /\ UNCHANGED <<uni_rx, conn_of, handler>>
        /\ \A t \in Streams : stream'[t] = "none" <=> stream[t] = "none"
    BY <1>0, <1>9 DEF DropStream, netVars
  <2> QED
    BY <1>1, <2>1, Zenon
<1>10. ASSUME NEW s \in Streams, HandleStream(s) PROVE Waiting'
  <2>1. /\ UNCHANGED <<uni_rx, conn_of, stream>> /\ handler[s] # "none"
        /\ handler'[s] # "none"
        /\ \A t \in Streams \ {s} : handler'[t] = handler[t]
    BY <1>10, HandlerSteps DEF netVars, knotVars
  <2> QED
    BY <1>1, <2>1
<1>11. CASE UNCHANGED vars
  BY <1>1, <1>11, Zenon DEF vars, netVars, knotVars
<1> QED
  BY <1>2, <1>3, <1>4, <1>5, <1>6, <1>7, <1>8, <1>9, <1>10, <1>11 DEF Next, Rope

\* A step that is no handler's puts no handler into a state with a file.
LEMMA OtherSteps ==
    ASSUME TypeOK, Waiting, [Next]_vars, \A s \in Streams : ~HandleStream(s)
    PROVE  /\ UNCHANGED <<diskVars, received>>
           /\ \A s \in Streams :
                 \/ handler'[s] = handler[s] /\ frame'[s] = frame[s] /\ txn'[s] = txn[s]
                 \/ handler'[s] \in {"none", "config"} /\ handler[s] = "none"
                 \/ handler'[s] = "done"
<1>0. DOMAIN handler = Streams
  BY DEF TypeOK
<1>1. CASE UNCHANGED hostVars
  BY <1>1 DEF hostVars
<1>2. ASSUME NEW c \in Conns, AcceptUni(c)
      PROVE  /\ UNCHANGED <<diskVars, received, frame, txn>>
             /\ \A s \in Streams : \/ handler'[s] = handler[s]
                                   \/ handler'[s] = "config" /\ handler[s] = "none"
  <2>1. uni_rx[c] \in Seq(Streams) /\ uni_rx[c] # <<>>
    BY <1>2 DEF AcceptUni, TypeOK
  <2>2. 1 \in DOMAIN uni_rx[c] /\ Head(uni_rx[c]) = uni_rx[c][1]
    BY <2>1, HeadTailProperties
  <2>3. handler[Head(uni_rx[c])] = "none"
    BY <2>2 DEF Waiting
  <2> QED
    BY <1>0, <1>2, <2>3 DEF AcceptUni
<1>3. CASE Crash
  BY <1>0, <1>3 DEF Crash
<1> QED
  BY <1>1, <1>2, <1>3, HostSteps

LEMMA HostInvStep == TypeOK /\ HostInv /\ [Next]_vars => HostInv'
<1> SUFFICES ASSUME TypeOK, HostInv, [Next]_vars
             PROVE  OneHolder' /\ QuietBefore' /\ Inserting' /\ Committed'
  BY WaitingStep DEF HostInv
<1> USE DEF HostInv
<1>1. CASE \A s \in Streams : ~HandleStream(s)
  <2>1. /\ UNCHANGED <<diskVars, received>>
        /\ \A s \in Streams :
              \/ handler'[s] = handler[s] /\ frame'[s] = frame[s] /\ txn'[s] = txn[s]
              \/ handler'[s] \in {"none", "config"} /\ handler[s] = "none"
              \/ handler'[s] = "done"
    BY <1>1, OtherSteps
  <2>2. OneHolder'
    BY <2>1 DEF OneHolder, Open, Busy
  <2>3. QuietBefore'
    BY <2>1 DEF QuietBefore
  <2>4. Inserting' /\ Committed'
    BY <2>1 DEF Inserting, Committed, diskVars
  <2> QED
    BY <2>2, <2>3, <2>4
<1>2. ASSUME NEW s \in Streams, HandleStream(s)
      PROVE  OneHolder' /\ QuietBefore' /\ Inserting' /\ Committed'
  <2>0. \A t \in Streams \ {s} :
           /\ handler'[t] = handler[t] /\ frame'[t] = frame[t]
           /\ txn'[t] = txn[t] /\ received'[t] = received[t]
    BY <1>2, HandlerSteps
  <2>p. \A t \in Streams : PathOf[t] \in Files
    BY DataPathAssumption DEF DataPathAssumption
  <2>1. CASE HandlerOpens(s) /\ handler'[s] = "reading"
    <3>1. UNCHANGED <<diskVars, received>> /\ ~InUse(PathOf[s])
      BY <2>1 DEF HandlerOpens, hostRest
    <3>2. OneHolder'
      BY <2>0, <2>1, <3>1 DEF OneHolder, InUse
    <3> QED
      BY <2>0, <2>1, <3>1, <3>2 DEF QuietBefore, Inserting, Committed, diskVars
  <2>2. CASE HandlerReads(s) /\ handler'[s] \in {"reading", "begun"}
    <3>1. UNCHANGED <<diskVars, received>> /\ handler[s] = "reading"
      BY <2>2 DEF HandlerReads, hostRest
    <3>2. OneHolder'
      BY <2>0, <2>2, <3>1 DEF OneHolder, Open, Busy
    <3> QED
      BY <2>0, <2>2, <3>1, <3>2 DEF QuietBefore, Inserting, Committed, diskVars
  <2>3. CASE InsertPayload(s) /\ handler'[s] = "stored"
    <3>1. /\ UNCHANGED <<diskVars, received, frame>> /\ handler[s] = "begun"
          /\ txn'[s] = {frame[s].payload} \ frames[PathOf[s]]
      BY <2>3 DEF InsertPayload, hostRest, TypeOK
    <3>2. OneHolder'
      BY <2>0, <2>3, <3>1 DEF OneHolder, Open, Busy
    <3> QED
      BY <2>0, <2>3, <3>1, <3>2 DEF QuietBefore, Inserting, Committed, diskVars
  <2>4. CASE Commit(s) /\ handler'[s] = "committed"
    <3>1. handler[s] = "stored" /\ UNCHANGED <<received, frame>>
      BY <2>4 DEF Commit, hostRest
    <3>2. /\ frames'[PathOf[s]] = frames[PathOf[s]] \cup txn[s]
          /\ timeline'[PathOf[s]] = Inserted(timeline[PathOf[s]], EntryOf(frame[s]))
          /\ \A f \in Files \ {PathOf[s]} :
                frames'[f] = frames[f] /\ timeline'[f] = timeline[f]
      BY <2>4, CommitSteps
    <3>3. OneHolder'
      BY <2>0, <2>4, <3>1 DEF OneHolder, Open, Busy
    <3>4. QuietBefore'
      BY <2>0, <2>4, <3>1 DEF QuietBefore
    <3>5. Inserting'
      BY <2>0, <2>4, <2>p, <3>1, <3>2 DEF Inserting
    <3>6. ASSUME NEW t \in Streams \ {s}, handler[t] = "committed"
          PROVE  PathOf[t] # PathOf[s]
      BY <3>1, <3>6 DEF OneHolder, Open, Busy
    <3>7. /\ frame[s].payload \in frames'[PathOf[s]]
          /\ EntryOf(frame[s]) \in timeline'[PathOf[s]]
      BY <3>1, <3>2 DEF Inserting, Inserted
    <3>8. Committed'
      BY <2>0, <2>4, <2>p, <3>1, <3>2, <3>6, <3>7 DEF Committed
    <3> QED
      BY <3>3, <3>4, <3>5, <3>8
  <2>5. CASE Report(s) /\ handler'[s] = "reading"
    <3>1. handler[s] = "committed" /\ UNCHANGED <<diskVars, txn>>
      BY <2>5 DEF Report
    <3>2. OneHolder'
      BY <2>0, <2>5, <3>1 DEF OneHolder, Open, Busy
    <3> QED
      BY <2>0, <2>5, <3>1, <3>2 DEF QuietBefore, Inserting, Committed, diskVars
  <2>6. CASE handler'[s] = "done" /\ UNCHANGED <<diskVars, received>>
    <3>1. OneHolder'
      BY <2>0, <2>6 DEF OneHolder, Open, Busy
    <3> QED
      BY <2>0, <2>6, <3>1 DEF QuietBefore, Inserting, Committed, diskVars
  <2> QED
    BY <1>2, <2>1, <2>2, <2>3, <2>4, <2>5, <2>6, HandlerSteps
<1> QED
  BY <1>1, <1>2

LEMMA HostInvariance == Spec => [](TypeOK /\ HostInv)
<1>1. Init => TypeOK /\ HostInv
  BY TypeInit, HostInvInit
<1>2. TypeOK /\ HostInv /\ [Next]_vars => (TypeOK /\ HostInv)'
  BY TypeStep, HostInvStep
<1> QED
  BY <1>1, <1>2, PTL DEF Spec

-----------------------------------------------------------------------------
(* What is on disk                                                         *)

\* Every timestamp of a timeline has one entry and its payload is in the file,
\* after any failure of a write, any death of the process, and any sharing of a
\* file by streams.
THEOREM TimelineStaysPlayable == Spec => []TimelineIsPlayable
<1>1. Init => TimelineIsPlayable
  BY DataPathAssumption DEF Init, TimelineIsPlayable
<1>2. TypeOK /\ HostInv /\ TimelineIsPlayable /\ [Next]_vars => TimelineIsPlayable'
  <2> SUFFICES ASSUME TypeOK, HostInv, TimelineIsPlayable, [Next]_vars
               PROVE  TimelineIsPlayable'
    OBVIOUS
  <2>1. CASE \A s \in Streams : ~Commit(s)
    BY <2>1, TablesKept DEF TimelineIsPlayable, diskVars
  <2>2. ASSUME NEW s \in Streams, Commit(s)
        PROVE  TimelineIsPlayable'
    <3> DEFINE new == EntryOf(frame[s])
    <3>1. /\ frames'[PathOf[s]] = frames[PathOf[s]] \cup txn[s]
          /\ timeline'[PathOf[s]] = Inserted(timeline[PathOf[s]], new)
          /\ \A f \in Files \ {PathOf[s]} :
                frames'[f] = frames[f] /\ timeline'[f] = timeline[f]
          /\ PathOf[s] \in Files
      BY <2>2, CommitSteps
    <3>2. new.payload = frame[s].payload
      BY DEF EntryOf
    <3>3. new.payload \in frames'[PathOf[s]]
      BY <2>2, <3>1, <3>2 DEF Commit, HostInv, Inserting
    <3> HIDE DEF new
    <3>4. ASSUME NEW e \in timeline'[PathOf[s]]
          PROVE  /\ e.payload \in frames'[PathOf[s]]
                 /\ \A x \in timeline'[PathOf[s]] :
                       x.timestamp_ms = e.timestamp_ms => x = e
      BY <3>1, <3>3 DEF Inserted, TimelineIsPlayable
    <3> QED
      BY <3>1, <3>4 DEF TimelineIsPlayable
  <2> QED
    BY <2>1, <2>2
<1> QED
  BY <1>1, <1>2, HostInvariance, PTL DEF Spec

\* A frame the application was told of is on disk, and its timestamp taken.
THEOREM ReportsAreDurable == Spec => []ReportedIsDurable
<1>1. Init => ReportedIsDurable
  BY DEF Init, ReportedIsDurable
<1>2. TypeOK /\ HostInv /\ ReportedIsDurable /\ [Next]_vars => ReportedIsDurable'
  <2> SUFFICES ASSUME TypeOK, HostInv, ReportedIsDurable, [Next]_vars
               PROVE  ReportedIsDurable'
    OBVIOUS
  <2>p. \A t \in Streams : PathOf[t] \in Files
    BY DataPathAssumption DEF DataPathAssumption
  <2>1. CASE UNCHANGED <<diskVars, received>>
    BY <2>1 DEF ReportedIsDurable, diskVars
  <2>2. ASSUME NEW s \in Streams, Commit(s)
        PROVE  ReportedIsDurable'
    <3>1. /\ frames'[PathOf[s]] = frames[PathOf[s]] \cup txn[s]
          /\ timeline'[PathOf[s]] = Inserted(timeline[PathOf[s]], EntryOf(frame[s]))
          /\ \A f \in Files \ {PathOf[s]} :
                frames'[f] = frames[f] /\ timeline'[f] = timeline[f]
          /\ UNCHANGED received
      BY <2>2, CommitSteps
    <3>2. \A f \in Files : frames[f] \subseteq frames'[f]
      BY <3>1
    <3>3. \A f \in Files : \A e \in timeline[f] :
             \E x \in timeline'[f] : x.timestamp_ms = e.timestamp_ms
      BY <3>1 DEF Inserted
    <3> QED
      BY <2>p, <3>1, <3>2, <3>3 DEF ReportedIsDurable
  <2>3. ASSUME NEW s \in Streams, Report(s)
        PROVE  ReportedIsDurable'
    <3>1. /\ handler[s] = "committed" /\ UNCHANGED diskVars
          /\ received' = [received EXCEPT ![s] = Append(@, frame[s])]
      BY <2>3 DEF Report
    <3>2. /\ frame[s].payload \in frames[PathOf[s]]
          /\ EntryOf(frame[s]) \in timeline[PathOf[s]]
          /\ EntryOf(frame[s]).timestamp_ms = frame[s].header.timestamp_ms
      BY <3>1 DEF HostInv, Committed, EntryOf
    <3>3. received \in [Streams -> Seq(Received)] /\ frame[s] \in Received
      BY <3>1 DEF TypeOK, Busy
    <3>4. ASSUME NEW i \in DOMAIN received'[s]
          PROVE  \/ i \in DOMAIN received[s] /\ received'[s][i] = received[s][i]
                 \/ received'[s][i] = frame[s]
      <4>1. received'[s] = Append(received[s], frame[s]) /\ received[s] \in Seq(Received)
        BY <3>1, <3>3
      <4> QED
        BY <3>3, <3>4, <4>1, AppendProperties
    <3>5. \A t \in Streams \ {s} : received'[t] = received[t]
      BY <3>1, <3>3
    <3> QED
      BY <3>1, <3>2, <3>4, <3>5 DEF ReportedIsDurable, diskVars
  <2>4. ASSUME NEW s \in Streams, HandleStream(s), ~Commit(s), ~Report(s)
        PROVE  UNCHANGED <<diskVars, received>>
    BY <2>4 DEF HandleStream, HandlerOpens, HandlerReads, InsertPayload,
                HandlerEnds, HandlerFails, hostRest
  <2>5. CASE \A s \in Streams : ~HandleStream(s)
    BY <2>1, <2>5, OtherSteps DEF HostInv
  <2> QED
    BY <2>1, <2>2, <2>3, <2>4, <2>5
<1> QED
  BY <1>1, <1>2, HostInvariance, PTL DEF Spec

\* A stream that has its file open has it to itself: every frame reported of it
\* is in the timeline or was replaced by a later frame of the same stream.
THEOREM RecordingStaysOwn == Spec => []RecordingIsOwn
<1>1. Init => RecordingIsOwn
  BY DEF Init, RecordingIsOwn, Open, Busy
<1>2. TypeOK /\ HostInv /\ RecordingIsOwn /\ [Next]_vars => RecordingIsOwn'
  <2> SUFFICES ASSUME TypeOK, HostInv, RecordingIsOwn, [Next]_vars
               PROVE  RecordingIsOwn'
    OBVIOUS
  <2>p. \A t \in Streams : PathOf[t] \in Files
    BY DataPathAssumption DEF DataPathAssumption
  <2> DEFINE Kept(t) == \A i \in DOMAIN received[t] :
        \/ EntryOf(received[t][i]) \in timeline[PathOf[t]]
        \/ \E j \in DOMAIN received[t] :
              /\ j > i
              /\ received[t][j].header.timestamp_ms = received[t][i].header.timestamp_ms
        \/ /\ handler[t] = "committed"
           /\ frame[t].header.timestamp_ms = received[t][i].header.timestamp_ms
  <2>1. \A t \in Streams : handler[t] \in Open => Kept(t)
    BY DEF RecordingIsOwn
  <2>2. SUFFICES \A t \in Streams : handler'[t] \in Open => Kept(t)'
    BY DEF RecordingIsOwn
  <2>3. ASSUME NEW t \in Streams, handler[t] \in Open, UNCHANGED received,
               timeline'[PathOf[t]] = timeline[PathOf[t]],
               handler[t] = "committed" => handler'[t] = "committed" /\ frame'[t] = frame[t]
        PROVE  Kept(t)'
    BY <2>1, <2>3
  <2>4. CASE \A s \in Streams : ~HandleStream(s)
    <3>1. /\ UNCHANGED <<diskVars, received>>
          /\ \A t \in Streams : handler'[t] \in Open =>
                handler'[t] = handler[t] /\ frame'[t] = frame[t]
      BY <2>4, OtherSteps DEF HostInv, Open, Busy
    <3> QED
      BY <2>3, <3>1 DEF diskVars
  <2>5. ASSUME NEW s \in Streams, HandleStream(s), NEW t \in Streams,
               handler'[t] \in Open
        PROVE  Kept(t)'
    <3>0. \A u \in Streams \ {s} : handler'[u] = handler[u] /\ frame'[u] = frame[u]
                                   /\ received'[u] = received[u]
      BY <2>5, HandlerSteps
    <3>1. CASE HandlerOpens(s)
      <4>1. UNCHANGED <<diskVars, received>> /\ received[s] = <<>>
        BY <3>1 DEF HandlerOpens, hostRest, HostInv, QuietBefore
      <4>2. CASE t = s
        BY <4>1, <4>2
      <4> QED
        BY <2>3, <2>5, <3>0, <4>1, <4>2 DEF diskVars
    <3>2. CASE HandlerReads(s) \/ InsertPayload(s)
      <4>1. UNCHANGED <<diskVars, received>> /\ handler[s] \in {"reading", "begun"}
        BY <3>2 DEF HandlerReads, InsertPayload, hostRest
      <4> QED
        BY <2>3, <2>5, <3>0, <4>1 DEF diskVars, Open, Busy
    <3>3. CASE Commit(s)
      <4>1. /\ timeline'[PathOf[s]] = Inserted(timeline[PathOf[s]], EntryOf(frame[s]))
            /\ \A f \in Files \ {PathOf[s]} : timeline'[f] = timeline[f]
            /\ UNCHANGED <<received, frame>> /\ handler[s] = "stored"
        BY <3>3, CommitSteps DEF Commit
      <4>2. CASE t = s
        <5>1. handler'[s] = "committed"
          BY <3>3 DEF Commit, HandlerGoes, TypeOK
        <5>2. handler[s] \in Open
          BY <4>1 DEF Open, Busy
        <5>3. ASSUME NEW i \in DOMAIN received[s],
                     EntryOf(received[s][i]) \in timeline[PathOf[s]],
                     EntryOf(received[s][i]) \notin timeline'[PathOf[s]]
              PROVE  frame[s].header.timestamp_ms = received[s][i].header.timestamp_ms
          <6>1. EntryOf(received[s][i]).timestamp_ms = EntryOf(frame[s]).timestamp_ms
            BY <4>1, <5>3 DEF Inserted
          <6> QED
            BY <6>1 DEF EntryOf
        <5> QED
          BY <2>1, <4>1, <4>2, <5>1, <5>2, <5>3
      <4>3. CASE t # s
        <5>1. PathOf[t] # PathOf[s]
          BY <2>5, <3>0, <4>1, <4>3 DEF HostInv, OneHolder, Open, Busy
        <5> QED
          BY <2>p, <2>3, <2>5, <3>0, <4>1, <4>3, <5>1
      <4> QED
        BY <4>2, <4>3
    <3>4. CASE Report(s)
      <4>1. /\ handler[s] = "committed" /\ UNCHANGED diskVars
            /\ received'[s] = Append(received[s], frame[s])
            /\ EntryOf(frame[s]) \in timeline[PathOf[s]]
            /\ received[s] \in Seq(Received) /\ frame[s] \in Received
        BY <3>4 DEF Report, HostInv, Committed, TypeOK, Busy
      <4>2. CASE t = s
        <5> DEFINE n == Len(received[s]) + 1
        <5>1. /\ n \in DOMAIN received'[s] /\ received'[s][n] = frame[s]
              /\ \A i \in DOMAIN received'[s] : i # n =>
                    /\ i \in DOMAIN received[s] /\ received'[s][i] = received[s][i]
                    /\ n > i
              /\ \A i \in DOMAIN received[s] :
                    i \in DOMAIN received'[s] /\ received'[s][i] = received[s][i]
          BY <4>1, AppendProperties
        <5> HIDE DEF n
        <5>2. Kept(s)
          BY <2>1, <4>1 DEF Open, Busy
        <5>3. ASSUME NEW i \in DOMAIN received'[s], i # n
              PROVE  \/ EntryOf(received'[s][i]) \in timeline[PathOf[s]]
                     \/ \E j \in DOMAIN received'[s] :
                           /\ j > i
                           /\ received'[s][j].header.timestamp_ms
                                 = received'[s][i].header.timestamp_ms
          BY <5>1, <5>2, <5>3
        <5> QED
          BY <4>1, <4>2, <5>1, <5>3 DEF diskVars
      <4>3. CASE t # s
        <5>1. Kept(t)
          BY <2>1, <2>5, <3>0, <4>3
        <5> QED
          BY <3>0, <4>1, <4>3, <5>1 DEF diskVars
      <4> QED
        BY <4>2, <4>3
    <3>5. CASE handler'[s] = "done" /\ UNCHANGED <<diskVars, received>>
      BY <2>3, <2>5, <3>0, <3>5 DEF diskVars, Open, Busy
    <3> QED
      BY <2>5, <3>1, <3>2, <3>3, <3>4, <3>5, HandlerSteps
  <2> QED
    BY <2>4, <2>5
<1> QED
  BY <1>1, <1>2, HostInvariance, PTL DEF Spec

-----------------------------------------------------------------------------
(* The recording implements Timeline                                       *)

Told(rec) == [s \in Streams |-> [i \in DOMAIN rec[s] |-> EntryOf(rec[s][i])]]

LEMMA ToldMore ==
    ASSUME received \in [Streams -> Seq(Received)], NEW s \in Streams,
           NEW r \in Received, received' = [received EXCEPT ![s] = Append(@, r)]
    PROVE  Told(received') = [Told(received) EXCEPT ![s] = Append(@, EntryOf(r))]
<1> DEFINE old == received[s]  new == Append(old, r)
           toldOld == [i \in DOMAIN old |-> EntryOf(old[i])]
           toldNew == [i \in DOMAIN new |-> EntryOf(new[i])]
<1>1. old \in Seq(Received)
  OBVIOUS
<1>2. /\ new \in Seq(Received) /\ Len(new) = Len(old) + 1 /\ new[Len(old) + 1] = r
      /\ \A i \in 1..Len(old) : new[i] = old[i]
  BY <1>1, AppendProperties
<1>3. Len(old) \in Nat /\ DOMAIN old = 1..Len(old) /\ DOMAIN new = 1..(Len(old) + 1)
  BY <1>1, <1>2
<1> HIDE DEF old, new
<1>4. toldNew = Append(toldOld, EntryOf(r))
  <2> DEFINE E == {EntryOf(x) : x \in Received}
  <2>1. \A i \in 1..Len(old) : old[i] \in Received
    BY <1>1, ElementOfSeq
  <2>2. toldOld \in Seq(E) /\ Len(toldOld) = Len(old)
    BY <1>3, <2>1
  <2>3. toldNew \in Seq(E) /\ Len(toldNew) = Len(old) + 1
    <3>1. \A i \in 1..(Len(old) + 1) : new[i] \in Received
      BY <1>2, ElementOfSeq
    <3> QED
      BY <1>3, <3>1
  <2>4. EntryOf(r) \in E
    OBVIOUS
  <2>5. /\ Append(toldOld, EntryOf(r)) \in Seq(E)
        /\ Len(Append(toldOld, EntryOf(r))) = Len(old) + 1
        /\ Append(toldOld, EntryOf(r))[Len(old) + 1] = EntryOf(r)
        /\ \A i \in 1..Len(old) : Append(toldOld, EntryOf(r))[i] = toldOld[i]
    <3> HIDE DEF E, toldOld
    <3> QED
      BY <2>2, <2>4, AppendProperties
  <2>6. \A i \in 1..(Len(old) + 1) : toldNew[i] = Append(toldOld, EntryOf(r))[i]
    <3>1. \A i \in 1..Len(old) : toldNew[i] = toldOld[i]
      BY <1>2, <1>3
    <3>2. toldNew[Len(old) + 1] = EntryOf(r)
      BY <1>2, <1>3
    <3>3. \A i \in 1..(Len(old) + 1) : i \in 1..Len(old) \/ i = Len(old) + 1
      BY <1>3, SMT
    <3> HIDE DEF toldNew, toldOld
    <3> QED
      BY <2>5, <3>1, <3>2, <3>3
  <2> HIDE DEF E, toldNew, toldOld
  <2> QED
    BY <2>3, <2>5, <2>6, SeqEqual
<1>5. /\ DOMAIN received' = Streams /\ received'[s] = new
      /\ \A t \in Streams \ {s} : received'[t] = received[t]
  BY DEF new, old
<1>6. Told(received')[s] = toldNew /\ Told(received)[s] = toldOld
  BY <1>5 DEF Told, old
<1>7. \A t \in Streams \ {s} : Told(received')[t] = Told(received)[t]
  BY <1>5 DEF Told
<1>8. /\ Told(received') = [t \in Streams |-> Told(received')[t]]
      /\ Told(received) = [t \in Streams |-> Told(received)[t]]
  BY DEF Told
<1> HIDE DEF toldNew, toldOld
<1> QED
  BY <1>4, <1>6, <1>7, <1>8

\* What is recorded and reported is what Timeline promises: tables grow by whole
\* frames, and nothing is reported that is not recorded.
THEOREM ImplementsTimeline == Spec => TimelineSpec
<1>1. Init => Promised!Init
  <2> SUFFICES ASSUME Init PROVE Promised!Init
    OBVIOUS
  <2>1. Told(received) = [s \in Streams |-> <<>>]
    BY DEF Init, Told
  <2> QED
    BY <2>1 DEF Init, Promised!Init, Told
<1>2. TypeOK /\ HostInv /\ [Next]_vars =>
         [Promised!Next]_<<frames, timeline, Told(received)>>
  <2> SUFFICES ASSUME TypeOK, HostInv, [Next]_vars
               PROVE  [Promised!Next]_<<frames, timeline, Told(received)>>
    OBVIOUS
  <2>1. CASE UNCHANGED <<diskVars, received>>
    BY <2>1 DEF diskVars
  <2>2. ASSUME NEW s \in Streams, Commit(s) PROVE Promised!Next
    <3> DEFINE e == EntryOf(frame[s])
    <3>1. handler[s] = "stored" /\ frame[s] \in Received
      BY <2>2 DEF Commit, TypeOK, Busy
    <3>2. e \in Entries /\ e.payload = frame[s].payload
      BY <3>1 DEF Received, Entries, EntryOf
    <3>3. frames[PathOf[s]] \cup txn[s] = frames[PathOf[s]] \cup {e.payload}
      BY <3>1, <3>2 DEF HostInv, Inserting
    <3>4. /\ frames' = [frames EXCEPT ![PathOf[s]] = @ \cup {e.payload}]
          /\ timeline' = [timeline EXCEPT ![PathOf[s]] = Inserted(@, e)]
          /\ UNCHANGED received
      BY <2>2, <3>3 DEF Commit, hostRest
    <3> HIDE DEF e
    <3>5. Promised!Record(s, e)
      BY <3>4 DEF Promised!Record, Promised!Inserted, Inserted
    <3> QED
      BY <3>2, <3>5 DEF Promised!Next, Promised!Entries, Entries
  <2>3. ASSUME NEW s \in Streams, Report(s) PROVE Promised!Next
    <3> DEFINE e == EntryOf(frame[s])
    <3>1. /\ handler[s] = "committed" /\ frame[s] \in Received /\ UNCHANGED diskVars
          /\ received' = [received EXCEPT ![s] = Append(@, frame[s])]
          /\ received \in [Streams -> Seq(Received)]
      BY <2>3 DEF Report, TypeOK, Busy
    <3>2. e \in Entries /\ e.payload = frame[s].payload
      BY <3>1 DEF Received, Entries, EntryOf
    <3>3. e.payload \in frames[PathOf[s]] /\ e \in timeline[PathOf[s]]
      BY <3>1, <3>2 DEF HostInv, Committed
    <3>4. Told(received') = [Told(received) EXCEPT ![s] = Append(@, e)]
      BY <3>1, ToldMore
    <3> HIDE DEF e
    <3>5. Promised!Report(s, e)
      BY <3>1, <3>3, <3>4 DEF Promised!Report, diskVars, Told
    <3>6. e \in Promised!Entries
      BY <3>2 DEF Promised!Entries, Entries
    <3> QED
      BY <3>5, <3>6, Zenon DEF Promised!Next, Promised!Report
  <2>4. ASSUME NEW s \in Streams, HandleStream(s), ~Commit(s), ~Report(s)
        PROVE  UNCHANGED <<diskVars, received>>
    BY <2>4 DEF HandleStream, HandlerOpens, HandlerReads, InsertPayload,
                HandlerEnds, HandlerFails, hostRest
  <2>5. CASE \A s \in Streams : ~HandleStream(s)
    BY <2>1, <2>5, OtherSteps DEF HostInv
  <2> QED
    BY <2>1, <2>2, <2>3, <2>4, <2>5
<1>3. TypeOK /\ HostInv /\ [Next]_vars =>
         [Promised!Next]_<<frames, timeline,
                           [s \in Streams |->
                               [i \in DOMAIN received[s] |-> EntryOf(received[s][i])]]>>
  BY <1>2 DEF Told
<1> QED
  BY <1>1, <1>3, HostInvariance, PTL DEF Spec, TimelineSpec, Promised!Spec

-----------------------------------------------------------------------------
(* What sequence numbers tell about loss                                   *)

Num(item) == Arrived(item).header.seq_num

\* The numbers of the frames that precede place i of a stream.
Before(q, i) == {Num(q[j]) : j \in {j \in DOMAIN q : j < i /\ Decodes(q[j].bytes)}}

\* Below n, the numbers passed and those left out are all there are.
Complete(n, passed, left) ==
    /\ \A k \in passed : k < n
    /\ \A k \in Nat : k < n => k \in passed \cup left

\* The frames of a stream from those seen over the one in hand and those in the
\* stream up to the next: each comes when all before it have passed.
Tracks(n, seen, hand, q, left) ==
    /\ \A k \in hand : Complete(k, seen, left)
    /\ \A i \in DOMAIN q : Decodes(q[i].bytes) =>
          Complete(Num(q[i]), seen \cup hand \cup Before(q, i), left)
    /\ Complete(n, seen \cup hand \cup Before(q, Len(q) + 1), left)

LEMMA NumType ==
    ASSUME NEW item \in Items, Decodes(item.bytes)
    PROVE  Num(item) \in Nat
BY Zenon DEF Items, Received, Headers, Num, U64s

LEMMA BeforeType ==
    ASSUME NEW q \in Seq(Items), NEW i
    PROVE  Before(q, i) \subseteq Nat
BY NumType, ElementOfSeq DEF Before

LEMMA BeforeTail ==
    ASSUME NEW q \in Seq(Items), q # <<>>, NEW i \in 1..Len(q)
    PROVE  Before(q, i + 1) = {k \in {Num(Head(q))} : Decodes(Head(q).bytes)}
                                \cup Before(Tail(q), i)
<1>1. /\ Len(q) \in Nat /\ DOMAIN q = 1..Len(q) /\ Len(q) >= 1
      /\ DOMAIN Tail(q) = 1..(Len(q) - 1) /\ Head(q) = q[1]
      /\ \A j \in 1..(Len(q) - 1) : Tail(q)[j] = q[j + 1]
  BY HeadTailProperties, EmptySeq
<1>2. ASSUME NEW k \in Before(q, i + 1)
      PROVE  k \in {x \in {Num(Head(q))} : Decodes(Head(q).bytes)}
                     \cup Before(Tail(q), i)
  <2>1. PICK j \in DOMAIN q : j < i + 1 /\ Decodes(q[j].bytes) /\ k = Num(q[j])
    BY <1>2 DEF Before
  <2>2. CASE j = 1
    BY <1>1, <2>1, <2>2
  <2>3. CASE j # 1
    <3>1. /\ j - 1 \in 1..(Len(q) - 1) /\ j - 1 < i /\ (j - 1) + 1 = j
      BY <1>1, <2>1, <2>3, SMT
    <3>2. Tail(q)[j - 1] = q[j]
      BY <1>1, <3>1
    <3> QED
      BY <1>1, <2>1, <3>1, <3>2 DEF Before
  <2> QED
    BY <2>2, <2>3
<1>3. ASSUME NEW k \in Before(Tail(q), i)
      PROVE  k \in Before(q, i + 1)
  <2>1. PICK j \in 1..(Len(q) - 1) : /\ j < i /\ Decodes(Tail(q)[j].bytes)
                                    /\ k = Num(Tail(q)[j])
    BY <1>1, <1>3 DEF Before
  <2>2. j + 1 \in 1..Len(q) /\ j + 1 < i + 1 /\ Tail(q)[j] = q[j + 1]
    <3>1. Tail(q)[j] = q[j + 1]
      BY <1>1
    <3> QED
      BY <1>1, <2>1, <3>1, SMT
  <2> QED
    BY <1>1, <2>1, <2>2 DEF Before
<1>4. Decodes(Head(q).bytes) => Num(Head(q)) \in Before(q, i + 1)
  <2>1. 1 \in DOMAIN q /\ 1 < i + 1
    BY <1>1, SMT
  <2> QED
    BY <1>1, <2>1 DEF Before
<1> QED
  BY <1>2, <1>3, <1>4

LEMMA BeforeAppend ==
    ASSUME NEW q \in Seq(Items), NEW x \in Items
    PROVE  /\ \A i \in 1..(Len(q) + 1) : Before(Append(q, x), i) = Before(q, i)
           /\ Before(Append(q, x), Len(q) + 2) =
                 Before(q, Len(q) + 1) \cup {k \in {Num(x)} : Decodes(x.bytes)}
<1> DEFINE r == Append(q, x)
<1>1. /\ Len(q) \in Nat /\ DOMAIN q = 1..Len(q) /\ DOMAIN r = 1..(Len(q) + 1)
      /\ r[Len(q) + 1] = x /\ \A j \in 1..Len(q) : r[j] = q[j]
  BY AppendProperties
<1> HIDE DEF r
<1>2. ASSUME NEW i \in 1..(Len(q) + 1)
      PROVE  {j \in DOMAIN r : j < i /\ Decodes(r[j].bytes)}
               = {j \in DOMAIN q : j < i /\ Decodes(q[j].bytes)}
  <2>1. \A j \in DOMAIN r : j < i => j \in DOMAIN q
    BY <1>1, SMT
  <2>2. \A j \in DOMAIN q : j \in DOMAIN r
    BY <1>1, SMT
  <2> QED
    BY <1>1, <2>1, <2>2
<1>3. ASSUME NEW i \in 1..(Len(q) + 1)
      PROVE  Before(r, i) = Before(q, i)
  BY <1>1, <1>2 DEF Before
<1>4. {j \in DOMAIN r : j < Len(q) + 2 /\ Decodes(r[j].bytes)}
        = {j \in DOMAIN q : j < Len(q) + 1 /\ Decodes(q[j].bytes)}
            \cup {j \in {Len(q) + 1} : Decodes(x.bytes)}
  <2>1. \A j : j \in DOMAIN r <=> j \in DOMAIN q \/ j = Len(q) + 1
    BY <1>1, SMT
  <2>2. /\ \A j \in DOMAIN q : j < Len(q) + 1 /\ j < Len(q) + 2
        /\ Len(q) + 1 < Len(q) + 2
    BY <1>1, SMT
  <2> QED
    BY <1>1, <2>1, <2>2
<1>5. Before(r, Len(q) + 2) =
         Before(q, Len(q) + 1) \cup {k \in {Num(x)} : Decodes(x.bytes)}
  BY <1>1, <1>4 DEF Before
<1> QED
  BY <1>3, <1>5 DEF r

LEMMA CompleteNext ==
    ASSUME NEW n \in Nat, NEW passed, passed \subseteq Nat, NEW left,
           Complete(n, passed, left)
    PROVE  /\ Complete(n + 1, passed \cup {n}, left)
           /\ Complete(n + 1, passed, left \cup {n})
<1>1. \A k \in Nat : k < n + 1 <=> k < n \/ k = n
  BY SMT
<1> QED
  BY <1>1 DEF Complete

LEMMA TracksSkip ==
    ASSUME NEW n, NEW seen, NEW hand, NEW q \in Seq(Items), NEW left, q # <<>>,
           Tracks(n, seen, hand, q, left), ~Decodes(Head(q).bytes)
    PROVE  Tracks(n, seen, hand, Tail(q), left)
<1>1. /\ Len(q) \in Nat /\ DOMAIN q = 1..Len(q) /\ Len(Tail(q)) + 1 = Len(q)
      /\ DOMAIN Tail(q) = 1..(Len(q) - 1) /\ Len(q) >= 1
      /\ \A j \in 1..(Len(q) - 1) : Tail(q)[j] = q[j + 1]
  BY HeadTailProperties, EmptySeq
<1>2. \A i \in 1..Len(q) : Before(q, i + 1) = Before(Tail(q), i)
  BY BeforeTail
<1>3. \A i \in 1..(Len(q) - 1) : i \in 1..Len(q) /\ i + 1 \in 1..Len(q)
  BY <1>1, SMT
<1>4. Len(q) \in 1..Len(q)
  BY <1>1, SMT
<1> QED
  BY <1>1, <1>2, <1>3, <1>4 DEF Tracks

LEMMA TracksTake ==
    ASSUME NEW n, NEW seen, NEW q \in Seq(Items), NEW left, q # <<>>,
           Tracks(n, seen, {}, q, left), Decodes(Head(q).bytes)
    PROVE  Tracks(n, seen, {Num(Head(q))}, Tail(q), left)
<1>1. /\ Len(q) \in Nat /\ DOMAIN q = 1..Len(q) /\ Len(Tail(q)) + 1 = Len(q)
      /\ DOMAIN Tail(q) = 1..(Len(q) - 1) /\ Len(q) >= 1 /\ Head(q) = q[1]
      /\ \A j \in 1..(Len(q) - 1) : Tail(q)[j] = q[j + 1]
  BY HeadTailProperties, EmptySeq
<1>2. \A i \in 1..Len(q) :
         Before(q, i + 1) = {Num(Head(q))} \cup Before(Tail(q), i)
  BY BeforeTail
<1>3. \A i \in 1..(Len(q) - 1) : i \in 1..Len(q) /\ i + 1 \in 1..Len(q)
  BY <1>1, SMT
<1>4. Len(q) \in 1..Len(q) /\ 1 \in 1..Len(q)
  BY <1>1, SMT
<1>5. Complete(Num(Head(q)), seen, left)
  <2>1. Before(q, 1) = {}
    BY <1>1, SMT DEF Before
  <2> QED
    BY <1>1, <1>4, <2>1 DEF Tracks
<1>6. ASSUME NEW i \in 1..(Len(q) - 1), Decodes(Tail(q)[i].bytes)
      PROVE  Complete(Num(Tail(q)[i]),
                      seen \cup {Num(Head(q))} \cup Before(Tail(q), i), left)
  <2>1. Complete(Num(q[i + 1]), seen \cup {} \cup Before(q, i + 1), left)
    BY <1>1, <1>3, <1>6 DEF Tracks
  <2>2. seen \cup {} \cup Before(q, i + 1)
          = seen \cup {Num(Head(q))} \cup Before(Tail(q), i)
    BY <1>2, <1>3
  <2>3. Tail(q)[i] = q[i + 1]
    BY <1>1
  <2> QED
    BY <2>1, <2>2, <2>3
<1>7. Complete(n, seen \cup {Num(Head(q))} \cup Before(Tail(q), Len(Tail(q)) + 1), left)
  <2>1. Complete(n, seen \cup {} \cup Before(q, Len(q) + 1), left)
    BY DEF Tracks
  <2>2. seen \cup {} \cup Before(q, Len(q) + 1)
          = seen \cup {Num(Head(q))} \cup Before(Tail(q), Len(q))
    BY <1>2, <1>4
  <2> QED
    BY <1>1, <2>1, <2>2
<1> QED
  BY <1>1, <1>5, <1>6, <1>7 DEF Tracks

LEMMA TracksReport ==
    ASSUME NEW n, NEW seen, NEW k, NEW q, NEW left, Tracks(n, seen, {k}, q, left)
    PROVE  Tracks(n, seen \cup {k}, {}, q, left) /\ Complete(k, seen, left)
<1>1. \A i : seen \cup {k} \cup Before(q, i) = (seen \cup {k}) \cup {} \cup Before(q, i)
  OBVIOUS
<1> QED
  BY <1>1 DEF Tracks

LEMMA TracksWrite ==
    ASSUME NEW n \in Nat, NEW seen, NEW hand, NEW q \in Seq(Items), NEW left,
           seen \subseteq Nat, hand \subseteq Nat, NEW x \in Items,
           Tracks(n, seen, hand, q, left)
    PROVE  /\ Decodes(x.bytes) /\ Num(x) = n =>
                 Tracks(n + 1, seen, hand, Append(q, x), left)
           /\ ~Decodes(x.bytes) =>
                 Tracks(n + 1, seen, hand, Append(q, x), left \cup {n})
           /\ Tracks(n + 1, seen, hand, q, left \cup {n})
<1> DEFINE r == Append(q, x)
           all == seen \cup hand \cup Before(q, Len(q) + 1)
<1>1. /\ Len(q) \in Nat /\ DOMAIN q = 1..Len(q) /\ DOMAIN r = 1..(Len(q) + 1)
      /\ Len(r) + 1 = Len(q) + 2
      /\ r[Len(q) + 1] = x /\ \A j \in 1..Len(q) : r[j] = q[j]
  BY AppendProperties
<1>2. /\ \A i \in 1..(Len(q) + 1) : Before(r, i) = Before(q, i)
      /\ Before(r, Len(q) + 2) =
            Before(q, Len(q) + 1) \cup {k \in {Num(x)} : Decodes(x.bytes)}
  BY BeforeAppend
<1>3. /\ \A i \in 1..Len(q) : i \in 1..(Len(q) + 1)
      /\ \A i \in 1..(Len(q) + 1) : i \in 1..Len(q) \/ i = Len(q) + 1
      /\ Len(q) + 1 \in 1..(Len(q) + 1)
  BY <1>1, SMT
<1>4. /\ Complete(n, all, left)
      /\ Complete(n + 1, all \cup {n}, left) /\ Complete(n + 1, all, left \cup {n})
  <2>1. all \subseteq Nat /\ Complete(n, all, left)
    BY BeforeType DEF Tracks
  <2> HIDE DEF all
  <2> QED
    BY <2>1, CompleteNext
<1>5. \A m, passed : Complete(m, passed, left) => Complete(m, passed, left \cup {n})
  BY DEF Complete
<1>6. /\ \A k \in hand : Complete(k, seen, left)
      /\ \A i \in 1..Len(q) : Decodes(q[i].bytes) =>
            Complete(Num(q[i]), seen \cup hand \cup Before(q, i), left)
  BY <1>1 DEF Tracks
<1>7. Tracks(n + 1, seen, hand, q, left \cup {n})
  BY <1>1, <1>4, <1>5, <1>6 DEF Tracks
<1> HIDE DEF r
<1>8. ASSUME NEW i \in 1..(Len(q) + 1), Decodes(r[i].bytes), Num(x) = n \/ ~Decodes(x.bytes)
      PROVE  Complete(Num(r[i]), seen \cup hand \cup Before(r, i), left)
  <2>1. CASE i \in 1..Len(q)
    BY <1>1, <1>2, <1>6, <1>8, <2>1
  <2>2. CASE i = Len(q) + 1
    <3>1. Num(r[i]) = n /\ Before(r, i) = Before(q, Len(q) + 1)
      BY <1>1, <1>2, <1>8, <2>2
    <3> QED
      BY <1>4, <3>1
  <2> QED
    BY <1>3, <2>1, <2>2
<1>9. CASE Decodes(x.bytes) /\ Num(x) = n
  <2>1. seen \cup hand \cup Before(r, Len(r) + 1) = all \cup {n}
    BY <1>1, <1>2, <1>9
  <2>2. Complete(n + 1, seen \cup hand \cup Before(r, Len(r) + 1), left)
    BY <1>4, <2>1
  <2> HIDE DEF all
  <2> QED
    BY <1>1, <1>6, <1>7, <1>8, <1>9, <2>2 DEF Tracks, r
<1>10. CASE ~Decodes(x.bytes)
  <2>1. seen \cup hand \cup Before(r, Len(r) + 1) = all
    BY <1>1, <1>2, <1>10
  <2>2. Complete(n + 1, seen \cup hand \cup Before(r, Len(r) + 1), left \cup {n})
    BY <1>4, <2>1
  <2>3. \A k \in hand : Complete(k, seen, left \cup {n})
    BY <1>5, <1>6
  <2>4. \A i \in DOMAIN r : Decodes(r[i].bytes) =>
           Complete(Num(r[i]), seen \cup hand \cup Before(r, i), left \cup {n})
    BY <1>1, <1>5, <1>8, <1>10
  <2> HIDE DEF all
  <2> QED
    BY <1>7, <1>10, <2>2, <2>3, <2>4 DEF Tracks, r
<1> QED
  BY <1>7, <1>9, <1>10 DEF r

Seen(s) == {received[s][j].header.seq_num : j \in DOMAIN received[s]}
InHand(s) == IF handler[s] \in Busy THEN {frame[s].header.seq_num} ELSE {}

TracksAll ==
    \A s \in Streams : handler[s] # "done" =>
        Tracks(seq_counter[s], Seen(s), InHand(s), pipe[s], unsent[s])

\* SeqTracksLoss in terms of Complete.
ReportsComplete ==
    \A s \in Streams : \A i \in DOMAIN received[s] :
        Complete(received[s][i].header.seq_num,
                 {received[s][j].header.seq_num : j \in 1..(i - 1)}, unsent[s])

LEMMA ReportsTrackLoss == ReportsComplete /\ TypeOK => SeqTracksLoss
<1> SUFFICES ASSUME ReportsComplete, TypeOK, NEW s \in Streams,
                    NEW i \in DOMAIN received[s]
             PROVE  LET n    == received[s][i].header.seq_num
                        seen == {received[s][j].header.seq_num : j \in 1..(i - 1)}
                    IN  /\ \A k \in seen : k < n
                        /\ 0..(n - 1) \subseteq seen \cup unsent[s]
  BY Zenon DEF SeqTracksLoss
<1> DEFINE n == received[s][i].header.seq_num
           seen == {received[s][j].header.seq_num : j \in 1..(i - 1)}
<1>1. Complete(n, seen, unsent[s])
  BY DEF ReportsComplete
<1>2. n \in Nat
  <2>1. received[s][i] \in Received
    BY DEF TypeOK
  <2> QED
    BY <2>1, Zenon DEF Received, Headers, U64s
<1> HIDE DEF n, seen
<1>3. \A k \in 0..(n - 1) : k \in Nat /\ k < n
  BY <1>2, SMT
<1>4. /\ \A k \in seen : k < n
      /\ 0..(n - 1) \subseteq seen \cup unsent[s]
  BY <1>1, <1>3 DEF Complete
<1> QED
  BY <1>4 DEF n, seen

LEMMA SeenType ==
    ASSUME TypeOK, NEW s \in Streams
    PROVE  Seen(s) \subseteq Nat /\ InHand(s) \subseteq Nat
<1>1. \A r \in Received : r.header.seq_num \in Nat
  BY Zenon DEF Received, Headers, U64s
<1>2. \A j \in DOMAIN received[s] : received[s][j] \in Received
  BY DEF TypeOK
<1>3. handler[s] \in Busy => frame[s] \in Received
  BY DEF TypeOK
<1> QED
  BY <1>1, <1>2, <1>3 DEF Seen, InHand

\* The rope's side: a call of write_frame takes the next number, sends it or
\* leaves it out.
LEMMA WriteSteps ==
    ASSUME TypeOK, NEW s \in Streams,
           WriteFrame(s) \/ WriteFrameFails(s) \/ WriteMalformed(s),
           handler[s] # "done" => Tracks(seq_counter[s], Seen(s), InHand(s),
                                         pipe[s], unsent[s])
    PROVE  /\ handler[s] # "done" =>
                 Tracks(seq_counter'[s], Seen(s), InHand(s), pipe'[s], unsent'[s])
           /\ unsent[s] \subseteq unsent'[s]
           /\ \A t \in Streams \ {s} : /\ seq_counter'[t] = seq_counter[t]
                                       /\ pipe'[t] = pipe[t] /\ unsent'[t] = unsent[t]
           /\ UNCHANGED <<handler, frame, received>>
<1>0. /\ seq_counter[s] \in Nat /\ pipe[s] \in Seq(Items)
      /\ DOMAIN seq_counter = Streams /\ DOMAIN pipe = Streams /\ DOMAIN unsent = Streams
      /\ Seen(s) \subseteq Nat /\ InHand(s) \subseteq Nat
  BY SeenType DEF TypeOK
<1>1. /\ NextSeq(s) /\ seq_counter'[s] = seq_counter[s] + 1
      /\ \A t \in Streams \ {s} : seq_counter'[t] = seq_counter[t]
      /\ UNCHANGED <<handler, frame, received>>
  BY <1>0 DEF WriteFrame, WriteFrameFails, WriteMalformed, NextSeq
<1>2. CASE WriteFrame(s)
  <2>1. PICK p \in Payloads : Put(s, FrameOf(s, p), p)
    BY <1>2 DEF WriteFrame
  <2> DEFINE x == [bytes |-> FrameOf(s, p), payload |-> p]
  <2>2. x \in Items /\ Decodes(x.bytes) /\ Num(x) = seq_counter[s]
    BY <1>1, FrameArrives DEF Num
  <2>3. /\ pipe' = [pipe EXCEPT ![s] = Append(@, x)] /\ UNCHANGED unsent
    BY <1>2, <2>1 DEF Put, WriteFrame
  <2> HIDE DEF x
  <2>4. /\ pipe'[s] = Append(pipe[s], x)
        /\ \A t \in Streams \ {s} : pipe'[t] = pipe[t]
    BY <1>0, <2>3
  <2>5. ASSUME handler[s] # "done"
        PROVE  Tracks(seq_counter[s] + 1, Seen(s), InHand(s),
                      Append(pipe[s], x), unsent[s])
    BY <1>0, <2>2, <2>5, TracksWrite
  <2> QED
    BY <1>1, <2>3, <2>4, <2>5
<1>3. CASE WriteFrameFails(s)
  <2>1. /\ unsent'[s] = unsent[s] \cup {seq_counter[s]} /\ UNCHANGED pipe
        /\ \A t \in Streams \ {s} : unsent'[t] = unsent[t]
    BY <1>0, <1>3 DEF WriteFrameFails
  <2>2. PICK p \in Payloads : TRUE
    BY DataPathAssumption DEF DataPathAssumption
  <2>3. [bytes |-> FrameOf(s, p), payload |-> p] \in Items
    BY <1>1, FrameArrives
  <2>4. ASSUME handler[s] # "done"
        PROVE  Tracks(seq_counter[s] + 1, Seen(s), InHand(s), pipe[s],
                      unsent[s] \cup {seq_counter[s]})
    <3>1. Tracks(seq_counter[s], Seen(s), InHand(s), pipe[s], unsent[s])
      BY <2>4
    <3> QED
      BY <1>0, <2>3, <3>1, TracksWrite
  <2> QED
    BY <1>1, <2>1, <2>4
<1>4. CASE WriteMalformed(s)
  <2> DEFINE p == CHOOSE p \in Payloads : TRUE
  <2>1. PICK b \in {SubSeq(FrameOf(s, p), 1, SIZE - 1),
                    [FrameOf(s, p) EXCEPT ![1] = 0]} : Put(s, b, p)
    BY <1>4 DEF WriteMalformed
  <2>2. p \in Payloads
    BY DataPathAssumption DEF DataPathAssumption
  <2> HIDE DEF p
  <2> DEFINE x == [bytes |-> b, payload |-> p]
  <2>3. x \in Items /\ ~Decodes(x.bytes)
    BY <1>1, <2>2, MalformedArrives
  <2>4. /\ pipe' = [pipe EXCEPT ![s] = Append(@, x)]
        /\ unsent'[s] = unsent[s] \cup {seq_counter[s]}
        /\ \A t \in Streams \ {s} : unsent'[t] = unsent[t]
    BY <1>0, <1>4, <2>1 DEF Put, WriteMalformed
  <2> HIDE DEF x
  <2>5. /\ pipe'[s] = Append(pipe[s], x)
        /\ \A t \in Streams \ {s} : pipe'[t] = pipe[t]
    BY <1>0, <2>4
  <2>6. ASSUME handler[s] # "done"
        PROVE  Tracks(seq_counter[s] + 1, Seen(s), InHand(s),
                      Append(pipe[s], x), unsent[s] \cup {seq_counter[s]})
    BY <1>0, <2>3, <2>6, TracksWrite
  <2> QED
    BY <1>1, <2>4, <2>5, <2>6
<1> QED
  BY <1>2, <1>3, <1>4

\* Steps that are neither a handler's nor write_frame's.
LEMMA QuietSteps ==
    ASSUME TypeOK, HostInv, [Next]_vars, \A s \in Streams :
               /\ ~HandleStream(s)
               /\ ~WriteFrame(s) /\ ~WriteFrameFails(s) /\ ~WriteMalformed(s)
    PROVE  /\ UNCHANGED <<seq_counter, unsent, received>>
           /\ \A s \in Streams : handler'[s] # "done" =>
                 /\ handler[s] # "done" /\ pipe'[s] = pipe[s] /\ InHand(s)' = InHand(s)
<1>1. /\ UNCHANGED received
      /\ \A s \in Streams :
            \/ handler'[s] = handler[s] /\ frame'[s] = frame[s] /\ txn'[s] = txn[s]
            \/ handler'[s] \in {"none", "config"} /\ handler[s] = "none"
            \/ handler'[s] = "done"
  BY OtherSteps DEF HostInv
<1>2. \A s \in Streams : handler'[s] # "done" =>
         handler[s] # "done" /\ InHand(s)' = InHand(s)
  BY <1>1 DEF InHand, Busy
<1>3. CASE Crash
  <2>1. /\ UNCHANGED <<seq_counter, unsent>>
        /\ \A s \in Streams :
              /\ handler'[s] = IF handler[s] = "none" THEN "none" ELSE "done"
              /\ pipe'[s] = IF handler[s] = "none" THEN pipe[s] ELSE <<>>
    BY <1>3 DEF Crash, knotVars
  <2> QED
    BY <1>1, <1>2, <2>1
<1>4. CASE UNCHANGED <<seq_counter, unsent, pipe>>
  BY <1>1, <1>2, <1>4
<1>5. Tick \/ Accept \/ Restart \/ UNCHANGED vars => UNCHANGED <<seq_counter, unsent, pipe>>
  BY DEF Tick, Accept, Restart, vars, knotVars
<1>6. ASSUME NEW c \in Conns, Connect(c) \/ Lose(c) \/ AcceptUni(c)
      PROVE  UNCHANGED <<seq_counter, unsent, pipe>>
  BY <1>6 DEF Connect, Lose, AcceptUni, knotVars
<1>7. ASSUME NEW s \in Streams, NEW c \in Conns, CreateStream(s, c)
      PROVE  UNCHANGED <<seq_counter, unsent, pipe>>
  BY <1>7 DEF CreateStream
<1>8. ASSUME NEW s \in Streams, DropStream(s)
      PROVE  UNCHANGED <<seq_counter, unsent, pipe>>
  BY <1>8 DEF DropStream
<1> QED
  BY <1>3, <1>4, <1>5, <1>6, <1>7, <1>8 DEF Next, Rope

LEMMA TracksStep ==
    TypeOK /\ HostInv /\ TracksAll /\ ReportsComplete /\ [Next]_vars
        => TracksAll' /\ ReportsComplete'
<1> SUFFICES ASSUME TypeOK, HostInv, TracksAll, ReportsComplete, [Next]_vars
             PROVE  TracksAll' /\ ReportsComplete'
  OBVIOUS
<1>1. ASSUME NEW s \in Streams,
             WriteFrame(s) \/ WriteFrameFails(s) \/ WriteMalformed(s)
      PROVE  TracksAll' /\ ReportsComplete'
  <2>1. /\ handler[s] # "done" =>
              Tracks(seq_counter'[s], Seen(s), InHand(s), pipe'[s], unsent'[s])
        /\ unsent[s] \subseteq unsent'[s]
        /\ \A t \in Streams \ {s} : /\ seq_counter'[t] = seq_counter[t]
                                    /\ pipe'[t] = pipe[t] /\ unsent'[t] = unsent[t]
        /\ UNCHANGED <<handler, frame, received>>
    BY <1>1, WriteSteps DEF TracksAll
  <2>2. \A t \in Streams : Seen(t)' = Seen(t) /\ InHand(t)' = InHand(t)
    BY <2>1 DEF Seen, InHand
  <2>3. TracksAll'
    BY <2>1, <2>2 DEF TracksAll
  <2>4. \A t \in Streams : unsent[t] \subseteq unsent'[t]
    BY <2>1
  <2>5. ReportsComplete'
    BY <2>1, <2>4 DEF ReportsComplete, Complete
  <2> QED
    BY <2>3, <2>5
<1>2. ASSUME NEW s \in Streams, HandleStream(s)
      PROVE  TracksAll' /\ ReportsComplete'
  <2>0. /\ \A t \in Streams \ {s} :
              /\ handler'[t] = handler[t] /\ frame'[t] = frame[t]
              /\ received'[t] = received[t] /\ pipe'[t] = pipe[t]
        /\ UNCHANGED <<seq_counter, unsent>>
        /\ handler[s] \in {"config", "reading"} \cup Busy
    BY <1>2, HandlerSteps DEF knotVars
  <2>1. \A t \in Streams \ {s} : Seen(t)' = Seen(t) /\ InHand(t)' = InHand(t)
    BY <2>0 DEF Seen, InHand
  <2>2. Tracks(seq_counter[s], Seen(s), InHand(s), pipe[s], unsent[s])
    BY <2>0 DEF TracksAll, Busy
  <2>3. ASSUME handler'[s] # "done" =>
                  Tracks(seq_counter[s], Seen(s)', InHand(s)', pipe'[s], unsent[s])
        PROVE  TracksAll'
    BY <2>0, <2>1, <2>3 DEF TracksAll
  <2>4. ASSUME received'[s] = received[s]
        PROVE  ReportsComplete' /\ Seen(s)' = Seen(s)
    <3>1. \A t \in Streams : received'[t] = received[t] /\ unsent'[t] = unsent[t]
      BY <2>0, <2>4
    <3>2. Seen(s)' = Seen(s)
      BY <3>1 DEF Seen
    <3>3. ASSUME NEW t \in Streams, NEW i \in DOMAIN received'[t]
          PROVE  Complete(received'[t][i].header.seq_num,
                          {received'[t][j].header.seq_num : j \in 1..(i - 1)}, unsent'[t])
      BY <3>1, <3>3 DEF ReportsComplete
    <3>4. ReportsComplete'
      BY <3>3, Zenon DEF ReportsComplete
    <3> QED
      BY <3>2, <3>4
  <2>5. CASE HandlerOpens(s) /\ handler'[s] = "reading"
    <3>1. /\ UNCHANGED <<received, pipe>> /\ handler[s] = "config"
      BY <2>5 DEF HandlerOpens, hostRest
    <3>2. InHand(s)' = InHand(s)
      BY <2>5, <3>1 DEF InHand, Busy
    <3> QED
      BY <2>2, <2>3, <2>4, <3>1, <3>2
  <2>6. CASE /\ HandlerReads(s) /\ handler'[s] \in {"reading", "begun"}
             /\ pipe[s] # <<>> /\ pipe'[s] = Tail(pipe[s])
             /\ handler'[s] = "begun" =>
                   /\ Decodes(Head(pipe[s]).bytes)
                   /\ frame'[s] = Arrived(Head(pipe[s]))
             /\ handler'[s] = "reading" => ~Decodes(Head(pipe[s]).bytes)
    <3>1. /\ UNCHANGED received /\ handler[s] = "reading" /\ pipe[s] \in Seq(Items)
      BY <2>6 DEF HandlerReads, hostRest, TypeOK
    <3>2. InHand(s) = {}
      BY <3>1 DEF InHand, Busy
    <3>3. CASE handler'[s] = "reading"
      <4>1. InHand(s)' = {}
        BY <3>3 DEF InHand, Busy
      <4>2. Tracks(seq_counter[s], Seen(s), {}, Tail(pipe[s]), unsent[s])
        BY <2>2, <2>6, <3>1, <3>2, <3>3, TracksSkip
      <4> QED
        BY <2>3, <2>4, <2>6, <3>1, <4>1, <4>2
    <3>4. CASE handler'[s] = "begun"
      <4>1. InHand(s)' = {Num(Head(pipe[s]))}
        BY <2>6, <3>4 DEF InHand, Busy, Num
      <4>2. Tracks(seq_counter[s], Seen(s), {Num(Head(pipe[s]))}, Tail(pipe[s]), unsent[s])
        BY <2>2, <2>6, <3>1, <3>2, <3>4, TracksTake
      <4> QED
        BY <2>3, <2>4, <2>6, <3>1, <4>1, <4>2
    <3> QED
      BY <2>6, <3>3, <3>4
  <2>7. CASE \/ InsertPayload(s) /\ handler'[s] = "stored"
             \/ Commit(s) /\ handler'[s] = "committed"
    <3>1. /\ UNCHANGED <<received, pipe, frame>> /\ handler[s] \in Busy
      BY <2>7 DEF InsertPayload, Commit, hostRest, Busy
    <3>2. InHand(s)' = InHand(s)
      BY <2>7, <3>1 DEF InHand, Busy
    <3> QED
      BY <2>2, <2>3, <2>4, <3>1, <3>2
  <2>8. CASE Report(s) /\ handler'[s] = "reading"
    <3> DEFINE k == frame[s].header.seq_num  n == Len(received[s]) + 1
    <3>1. /\ UNCHANGED pipe /\ handler[s] = "committed"
          /\ received'[s] = Append(received[s], frame[s])
          /\ received[s] \in Seq(Received) /\ frame[s] \in Received
      BY <2>8 DEF Report, TypeOK, Busy
    <3>2. InHand(s) = {k} /\ InHand(s)' = {}
      BY <2>8, <3>1 DEF InHand, Busy
    <3>3. /\ Tracks(seq_counter[s], Seen(s) \cup {k}, {}, pipe[s], unsent[s])
          /\ Complete(k, Seen(s), unsent[s])
      BY <2>2, <3>2, TracksReport
    <3>4. /\ DOMAIN received[s] = 1..Len(received[s]) /\ Len(received[s]) \in Nat
          /\ DOMAIN received'[s] = 1..n
          /\ received'[s][n] = frame[s] /\ n \in 1..n
          /\ \A i \in 1..n : i # n =>
                i \in DOMAIN received[s] /\ received'[s][i] = received[s][i]
          /\ \A i \in DOMAIN received[s] : i \in 1..n /\ received'[s][i] = received[s][i]
      BY <3>1, AppendProperties
    <3>5. 1..(n - 1) = DOMAIN received[s]
      BY <3>4, SMT
    <3>6. \A i \in 1..n : \A j \in 1..(i - 1) : j \in DOMAIN received[s]
      BY <3>4, SMT
    <3> HIDE DEF n
    <3>7. Seen(s)' = Seen(s) \cup {k}
      BY <3>4 DEF Seen
    <3>8. ASSUME NEW i \in DOMAIN received'[s]
          PROVE  Complete(received'[s][i].header.seq_num,
                          {received'[s][j].header.seq_num : j \in 1..(i - 1)}, unsent[s])
      <4>1. {received'[s][j].header.seq_num : j \in 1..(i - 1)}
              = {received[s][j].header.seq_num : j \in 1..(i - 1)}
        BY <3>4, <3>6, <3>8
      <4>2. CASE i = n
        <5>1. {received[s][j].header.seq_num : j \in 1..(i - 1)} = Seen(s)
          BY <3>5, <4>2 DEF Seen
        <5> QED
          BY <3>3, <3>4, <4>1, <4>2, <5>1
      <4>3. CASE i # n
        <5>1. i \in DOMAIN received[s] /\ received'[s][i] = received[s][i]
          BY <3>4, <3>8, <4>3
        <5> QED
          BY <4>1, <5>1 DEF ReportsComplete
      <4> QED
        BY <4>2, <4>3
    <3>9. ReportsComplete'
      <4>1. \A t \in Streams : unsent'[t] = unsent[t]
        BY <2>0
      <4>2. ASSUME NEW t \in Streams, t # s, NEW i \in DOMAIN received'[t]
            PROVE  Complete(received'[t][i].header.seq_num,
                            {received'[t][j].header.seq_num : j \in 1..(i - 1)},
                            unsent'[t])
        <5>1. received'[t] = received[t]
          BY <2>0, <4>2
        <5> QED
          BY <4>1, <4>2, <5>1 DEF ReportsComplete
      <4>3. ASSUME NEW t \in Streams, NEW i \in DOMAIN received'[t]
            PROVE  Complete(received'[t][i].header.seq_num,
                            {received'[t][j].header.seq_num : j \in 1..(i - 1)},
                            unsent'[t])
        <5>1. CASE t = s
          BY <3>8, <4>1, <4>3, <5>1
        <5> QED
          BY <4>2, <4>3, <5>1
      <4> QED
        BY <4>3, Zenon DEF ReportsComplete
    <3>10. Tracks(seq_counter[s], Seen(s)', InHand(s)', pipe'[s], unsent[s])
      BY <3>1, <3>2, <3>3, <3>7
    <3> QED
      BY <2>3, <3>9, <3>10
  <2>9. CASE handler'[s] = "done" /\ UNCHANGED <<diskVars, received>>
    BY <2>3, <2>4, <2>9
  <2> QED
    BY <1>2, <2>5, <2>6, <2>7, <2>8, <2>9, HandlerSteps
<1>3. CASE \A s \in Streams :
             /\ ~HandleStream(s)
             /\ ~WriteFrame(s) /\ ~WriteFrameFails(s) /\ ~WriteMalformed(s)
  <2>1. /\ UNCHANGED <<seq_counter, unsent, received>>
        /\ \A s \in Streams : handler'[s] # "done" =>
              /\ handler[s] # "done" /\ pipe'[s] = pipe[s] /\ InHand(s)' = InHand(s)
    BY <1>3, QuietSteps
  <2>2. \A s \in Streams : Seen(s)' = Seen(s)
    BY <2>1 DEF Seen
  <2> QED
    BY <2>1, <2>2 DEF TracksAll, ReportsComplete
<1> QED
  BY <1>1, <1>2, <1>3

\* The sequence numbers the application sees of a stream rise, and each that is
\* missing is that of a failed write_frame or of a malformed frame.
THEOREM SeqNumbersTrackLoss == Spec => []SeqTracksLoss
<1>1. Init => TracksAll /\ ReportsComplete
  <2> SUFFICES ASSUME Init PROVE TracksAll /\ ReportsComplete
    OBVIOUS
  <2>1. \A s \in Streams : /\ Seen(s) = {} /\ InHand(s) = {} /\ pipe[s] = <<>>
                          /\ seq_counter[s] = 0 /\ received[s] = <<>>
    BY DEF Init, Seen, InHand, Busy
  <2>2. ASSUME NEW u PROVE Tracks(0, {}, {}, <<>>, u)
    <3>1. \A k \in Nat : ~(k < 0)
      BY SMT
    <3>2. Before(<<>>, Len(<<>>) + 1) = {}
      BY DEF Before
    <3>3. Complete(0, {} \cup {} \cup Before(<<>>, Len(<<>>) + 1), u)
      BY <3>1, <3>2 DEF Complete
    <3> QED
      BY <3>3 DEF Tracks
  <2>3. TracksAll
    BY <2>1, <2>2 DEF TracksAll
  <2>4. DOMAIN <<>> = {}
    OBVIOUS
  <2>5. ReportsComplete
    BY <2>1, <2>4 DEF ReportsComplete
  <2> QED
    BY <2>3, <2>5
<1>2. TypeOK /\ HostInv /\ TracksAll /\ ReportsComplete /\ [Next]_vars
        => (TracksAll /\ ReportsComplete)'
  BY TracksStep
<1>3. Spec => [](TypeOK /\ HostInv /\ TracksAll /\ ReportsComplete)
  BY <1>1, <1>2, HostInvariance, PTL DEF Spec
<1> QED
  BY <1>3, ReportsTrackLoss, PTL

=============================================================================
