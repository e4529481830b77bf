# A specification of knot-protocol

TLA+ specifications of the Rust library in `src/src/` (`lib.rs`, `mock.rs`,
`stream.rs`) and of the hubs in `src/examples/`: a *host* admits *ropes* over a
transport connection, exchanges control messages with each over one
bidirectional stream, and records data streams that ropes open with the host's
permission.

## 1. Inventory

| Component | State | Operations | Interacts by |
| --- | --- | --- | --- |
| Handshake: `tie_the_knot` / first half of `handle_connection` (lib.rs 145-297, 504-549) | `CONNECTION_COUNTER`, the Tie, the verdict, the answer | send Tie; check node, version, policy, validator in that order; Reject or Welcome; fail at any await | the control stream; `connection.close` |
| Host connection (lib.rs 299-409) | `flag_reader`, the queue `control_sender_rx`, the tasks themselves | control sender, control reader (one arm per message), accept loop | unbounded queues, spawned tasks, `HubEvent`s into one channel shared by all connections |
| Stream handler `handle_stream` (lib.rs 446-484) | one task per unidirectional stream, its recording | read config, record frames, report them | `HubEvent`s, the session directory |
| Client `KnotClient` (lib.rs 486-730) | `control_tx`/`control_rx`, `pending_streams`, `event_rx`, two tasks | `create_stream`, `send_event`, `send_ack`, `next_event`, `control_tx()`, drop | oneshot senders in a map keyed by `stream_id` |
| Data stream `KnotStream` (lib.rs 496-501, 732-751) | `seq_counter`, `start_time`, writer | `write_frame`, drop | the unidirectional stream |
| Recording `DeduplicatedRecordingWriter` (lib.rs 411-444) | tables `frames` and `timeline` | `new`, `write_frame` | one redb file per sanitized topic |
| Header codec and configuration (stream.rs) | none (pure) | `encode`, `decode`, `sanitized_name` | used by both ends |
| Mock transport (mock.rs) | bounded channels and duplex pipes | `open_*`, `accept_*`, `connect` | implements `KnotConnection` |
| Hub application (examples/08_smart_home.rs, 04_commands_ack.rs) | map `rope_id -> control_sender` | insert on RopeConnected, remove on RopeDisconnected; order light and gate on motion; send a command to a new rope | `HubEvent`s, `control_sender` |
| Interactive admission (examples/09_interactive_admission_2fa.rs) | `pending_2fa`, `trusted_devices` | hold a new device, challenge it, compare its PIN, forget it | `HubEvent`s, `control_sender` |

What is hard here, and what must hold:

* **Tasks of one connection.** Nine kinds of tasks and calls run concurrently
  and communicate by queues; three of them send the application its events.
  The application must see RopeConnected first, RopeDisconnected once, and
  StreamOpened before any frame of the stream.
* **Correlation by stream_id.** A StreamAccepted completes whichever waiter is
  registered for its `stream_id`. With cancelled, retried and simultaneous calls
  no grant may serve twice, and no accept may be lost while its waiter waits.
* **Ends.** Connections end by transport failure, by dropping the client, by
  a failed write or by an error of the host; each task notices by itself. What
  was written before must arrive, and every task should end.
* **Flow control.** Bounded pipes in both directions with automatic Pongs in
  both must not block everyone.
* **Many connections.** Handshakes overlap; each may fail at any await; ids must
  stay unique; the application must learn of exactly those admitted, and its
  registry must follow connections that come and go under one `rope_id`.
* **Recording.** A frame is stored with its timeline entry or not at all, also
  when the process dies; what the application was told of is on disk; streams
  whose topics share a file, and streams opened again after a reconnect, must
  not mix while they are recorded; a stream that is over must give its file up.
* **Applications.** Events name a rope, not a connection, and those of an old
  connection may come late: what the hub holds on a rope's behalf must
  neither be lost too early nor be held for ever.

`PROJECT.json` lists each hazard with its line and the properties about it.

## 2. Modules

**`StreamGate`** is the abstract promise of stream gating: calls are asked,
the host grants each at most once, a stream is opened by spending an unspent
grant of the same `stream_id`, frames come only over such a stream. It has four
variables and knows nothing of tasks.

**`ControlChannel`** is one connection from the Welcome until everything has
ended, one action per arm, await or early return of the code. `phase` is where
`handle_connection` is; `host_reader`, `host_sender`, `client_reader`,
`client_writer` say whether a spawned task still runs; `control_rx`,
`control_sender_rx`, `event_rx`, `pending_streams`, `flag_reader` are the
variables of the code by their names; `c2h` and `h2c` are the two pipes of the
control stream; `uni_queue` the opened streams not accepted yet; `call[c]` is
how far a `create_stream` call and the `KnotStream` it returns have got;
`handler[c]` its `handle_stream` task; `hub_events` the log of events sent to
the application. `accepting` is the host reader between its two visible
effects, StreamOpened and StreamAccepted. `granted_by` is a history variable:
the call whose request caused the accept that woke a call. Who holds which
sender matters for when tasks end, so `control_tx`, `hub_holds` and the tasks
themselves count as holders. The transport is the one of `mock.rs`: a pipe
closes when both halves are dropped, `open_uni` waits for room; `Lose` adds a
failure of the transport at any point, after which reads and writes fail.

**`Admission`** is all connections of a host side by side: the Tie or other
first message of each peer, the checks in the code's order, the id drawn, the
answer on the wire, and the application's registry fed by the events of all
connections. A served connection is one state here, as ControlChannel has the
rest. Writing to a peer that is gone may succeed or fail.

**`Membership`** is the abstract promise of admission: a peer claims a `rope_id`
once, is admitted under an id of its own only if no check fails, is answered
once and accordingly, enters the registry once and leaves it at most once after
that. No tasks, wire, counter, queue of events or failures. Its registry goes by
`rope_id` alone, as the hub's does, so that it promises nothing to a connection
whose `rope_id` another one has.

**`FrameCodec`** is the header of a frame as 28 bytes: `Encode`, `Decodes` (the
two checks of `decode`) and `Decode`, on fields of their widths, and the header
`write_frame` fills in. **`StreamConfig`** is `sanitized_name`, the topic of a
stream to the name of its file: `CollapsedPrefixes` is what its loop over runs
of underscores leaves of each prefix of a name, `NormalName` what a file name is
to look like.

**`Timeline`** is the abstract promise of a recording: a frame enters the two
tables of its file in one step, nothing is taken out of them but the entry
replaced at its timestamp, and the application is only told of what was
recorded. No transactions, handlers, connections or crashes.

**`DataPath`** is a stream from `write_frame` to the disk. `connection_rx`,
`link`, `uni_rx` are the endpoint, the connections and their unidirectional
streams of `mock.rs`; `stream`, `start_time`, `seq_counter` are `KnotStream`;
`pipe` holds the bytes written and not read; `handler`, `frame`, `txn` are where
`handle_stream` and its transaction are (`begun`, `stored` and `committed` lie
between the database calls of `write_frame`); `frames` and `timeline` are the
committed tables of each file; `received` is the log of FrameReceived. `Crash`
ends the host process at any of these points with everything but the committed
tables, `Restart` lets ropes connect again; a database call may fail at any
point, a connection be lost, a foreign peer send frames too short or with
another magic. The grant of a stream and the handshake are taken from
`ControlChannel` and `Admission`: they are one step here. `unsent` is a history
variable, the numbers `seq_counter` gave to frames that did not leave.

**`ExampleHubs`** is the hubs of three examples and what passes between
them and their ropes, `app` saying which of the three runs: `SmartHome` (08),
`TwoFactor` (09), `Commands` (04) are the `on_event` closures, `GateLoop`,
`LightLoop`, `OwnerLoop`, `LockLoop`, `AckLoop` the loops over `next_event` of
their ropes. Ropes leave and come back as in 06. A connection is two queues and
the one queue of `HubEvent`s; when it ends each side still gets some prefix of
what was on its way. The example's user always enters the right PIN; `Mistyping`
adds users that may not.

**`MCControlChannel`**, **`MCAdmission`**, **`MCDataPath`**, **`MCExampleHubs`**
give the constants values for TLC. `MCDataPath` also evaluates `sanitized_name`
on every topic of up to five characters.

**`ControlChannelProofs`**, **`StreamGateProofs`**, **`EventOrderProofs`**,
**`AdmissionProofs`**, **`FrameCodecProofs`**, **`StreamConfigProofs`**,
**`DataPathProofs`**, **`ExampleHubsProofs`** hold the theorems (section 5).

An operator named `Mut...` is a wrong variant of the definition after it, of
the kind a change to the code could introduce. No specification uses it. Each
property is shown to fail when one of these replaces the right definition
(`mutants` in `PROJECT.json`), so that no property holds emptily.

## 3. Runs

Run `tlc -config <cfg> <module>` in this directory.

| Configuration | Shows | Instance |
| --- | --- | --- |
| `channel_same_id` | safety of the connection: order of events, grants, wake-ups, streams, ends that are told (`EndsAreTold`), frames that are held (`UnreportedFramesAreHeld`), and `GateSpec`, the refinement of StreamGate | 2 calls with one stream_id, 1 frame each, pipes and uni queue of 1 |
| `channel_traffic` | `StreamAnswered`: no deadlock with full pipes | 1 call, a Ping or Ack from the rope, a Ping or Command from the hub |
| `channel_teardown` | `LossAnnounced`, `FramesDelivered`, `LossStopsReaders` | 1 call, 2 frames, 1 event |
| `admission` | both ends agree on who is admitted and why, unique ids, reachability, ends of handshakes, forgetting what is gone (`PartedAreForgotten` at once, `DepartedForgotten` eventually), and `MembershipSpec`, the refinement of Membership | a foreign peer with any Tie or message and a regular rope, 2 nodes, 2 rope_ids that either may have, a policy and a validator that may refuse |
| `data_path` | safety of the recording and `TimelineSpec`, the refinement of Timeline | 2 connections, 2 streams into one file (one of them foreign), 1 frame each, 2 timestamps, payloads of 5, 259 and too many bytes, 1 crash |
| `data_path_streams` | `SeqTracksLoss`, `FileReleased` | as before with 1 and 2 frames, 1 timestamp, 2 payloads |
| `example_hubs` | the hubs of the examples: `SettledByPin`; `ChallengeSettles`, `MotionLocksGate`, `CommandIsAcked`, and for each of the three what is under way until then: `ChallengeUnderWay`, `AlarmUnderWay`, `CommandUnderWay`; each rope is only sent what it acts on (`TypeOK`) | 3 connections, two of them of one rope_id in the examples 04 and 09, 1 motion event |
| `channel_hang` | violated: `create_stream` does not return after a loss | 1 call |
| `channel_half_served` | violated: a connected rope is never announced as gone | 1 call |
| `channel_shutdown` | violated: dropping everything does not close the control stream | 1 call |
| `admission_hijack` | violated: one rope_id, two nodes | 2 connections, 2 nodes |
| `admission_takeover` | violated: the reconnected rope is erased from the registry | 2 connections, 1 node |

**Bounds.** All interaction between calls goes through `pending_streams`, whose
entries are per `stream_id`, so two calls on one id show replacement,
cancellation and misdelivery; that nothing crosses to another `stream_id` is
proved for any number of both (`GrantsAreSpentOnce`). A pipe
that holds one message makes every write wait, and one queued stream makes
`open_uni` wait; larger capacities only remove waiting. One message of each
side beside the handshake, the stream request and the pongs they cause fills both pipes at
once. Two frames show order and a partly delivered stream. Two connections are
enough for a registry entry of one to be touched by the other. A policy sees
the token and the capabilities alike, so one of them varies.
In `DataPath` two streams are the least that can contend for a file, and one
crash already comes at every point of a transaction; two frames of one
millisecond collide within a stream and across streams, a second timestamp
shows what does not collide; two frames of one stream are needed for a number to
be left out between two that arrive. Payload lengths and sequence numbers use
both bytes of a field where they can; wider values are left to the proofs. In `ExampleHubs` one
connection that comes back under the rope_id of another, beside the one that
causes the hub to send, is what late events need.
`MaxClientSends`, `MaxHubSends` and `MaxFrames` bound what the applications
send; they are guards of the application's actions only. Symmetry is used in
safety runs only: the two calls are interchangeable (with their ids).
Deadlock is not checked: a connection that has ended takes no more steps.

**Fairness.** Weak fairness per task: tokio polls a spawned task or awaited
future whenever it can proceed, and each task is sequential, so a task with an
enabled step takes one. No fairness is assumed for what applications choose
(sending, dropping, cancelling, writing frames) nor for the loss of the
transport. In `Admission` the application handles its events (`OnEvent`), and
the rest is as above. In `DataPath` each `handle_stream` task is fair while the
process runs; `FileReleased` needs nothing of connections, clocks or ropes. In
`ExampleHubs` the tasks of both sides, the ropes' loops and the `on_event`
closure are fair, connections and motion are not.

## 4. What was found

* `create_stream` waits for ever when the control channel dies between
  StreamOpen and StreamAccepted (`lib.rs:715`): the oneshot sender that would
  have to be dropped lives in `pending_streams`, which the waiting call keeps
  alive. `CreateStreamReturns` is what the error context on that line promises;
  `StreamAnswered` is what does hold.
* When the session directory cannot be created (`lib.rs:322`) the rope was
  announced already and is never announced as gone (`EveryRopeAnnouncedGone`;
  `docs/STATE.md:60`).
* After the rope's application dropped its client and its streams, and the hub
  the sender it had been given (`EverythingDropped`), the control tasks of both
  sides keep each other alive (`ShutdownReleasesSocket`; `docs/STATE.md:21` and
  `:26`). The accept loop does end and RopeDisconnected is sent.
* Nothing refuses a second node under a `rope_id` in use (`RopeIdHasOneNode`;
  `docs/WIRE.md:118`, `docs/SECURITY.md:82`).
* The RopeDisconnected of an old connection erases a rope that has reconnected
  (`ReconnectedIsReachable`; `docs/COMPLIANCE.md:62`). `ServedIsReachable` says
  what is left: a rope_id that is served keeps a sender of a served connection
  unless a connection announced under it has ended, as here, or was given up
  when its session directory could not be created. A handshake that is refused,
  abandoned or lost takes nothing out.

Met while modelling, without a run of their own because no property of the
code says otherwise:

* A rope whose session directory could not be created leaves more than a missing
  event: its RopeConnected (`lib.rs:313`) has put its sender into the hub's map,
  in the place of a rope that is served under the same `rope_id`, and nothing
  takes the dead sender out again. The served rope can then not be reached
  (the other exception in `ServedIsReachable`).
* `write_frame` ignores the timestamp it is given and counts milliseconds from
  the creation of its stream (`lib.rs:733`, `:738`), where
  `docs/COMPLIANCE.md:48` speaks of one clock for all: two streams of one file
  overwrite each other's timeline entries at equal offsets. `RecordingIsOwn`
  says how far a recording can be relied on: until another stream opens the file.
* Payloads stay in `frames` when their timeline entry has been replaced: nothing
  removes them.
* `09_interactive_admission_2fa.rs:99` prints that a device is trusted, but only
  takes it out of `pending_2fa`; it is never put into `trusted_devices`.
* There, an answer or a disconnect of a device's old connection ends the
  verification of its new one (`SettledByPin` excepts rope_ids of which a
  connection has ended; without the exception it does not hold).
* A device that has answered with a wrong PIN stays pending while connected; it is
  not challenged again (the exception in `ChallengeSettles`).

## 5. Proofs

Checked with `tlapm <module>`, for every value of the constants that satisfies
`ConstantsAssumption`, `AdmissionAssumption`, `DataPathAssumption`,
`StreamConfigAssumption` or `ExampleHubsAssumption` (sets of any size, any
bounds, any policy, any map of topics to files, any users). Every safety
property of a passing run is the conclusion of a theorem.

* **Types.** `TypeInv` is `TypeOK` and two facts more: no sender task runs
  before the host serves, so `h2c` is empty while the host is welcoming, without
  which the Welcome, written without asking for room, might overfill the pipe. Theorem `TypeCorrectness`.
* **Grants** (`StreamGateProofs`). `GrantsSpentOnce` is not inductive: an accept
  in a queue could be for a grant already used. `GrantInv` says that each
  call's request is in one place (its queue, the wire, or announced) and each
  grant in one place (being announced, queued, on the wire, or used), with no
  duplicates within a place, and that waiters are registered under their own
  id. The proof moves a token from place to place, one lemma per action that
  moves one and one for all actions that move none. Theorem `GrantsAreSpentOnce`.
  `NoLostWakeup` speaks only of moments when all four control tasks run; but a
  call may be made before the host has spawned its two, and a request written
  then waits in the pipe. `WakeInv` therefore follows it whenever each task on
  the route runs or is still to be spawned: a task that has ended never comes
  back, every other step leaves what is under way under way, and the one step
  that takes an accept off the route completes the oneshot registered for its
  stream_id, so whoever is registered there stops waiting. Theorem
  `WakeupsAreNotLost`.
* **Streams and refinement** (`StreamGateProofs`, second half). `StreamInv` ties streams
  to grants: a call that has not been woken has no stream, a stream has a grant,
  the accept queue and the handlers agree. With it, `NoStrandedStream`
  (theorem `StreamsAreNotStranded`) and the refinement mapping: each
  step of ControlChannel is a step of StreamGate or a stutter. Theorem
  `ImplementsStreamGate`.
* **Events** (`EventOrderProofs`). `EventInv` links the log to `flag_reader` and
  to the phase of the host; a frame's StreamOpened is found through the
  grant its stream has spent. Theorems `FramesComeAfterTheirStream`, `LifecycleIsOrdered`.
  `EndsAreTold` needs more than that at most one task tells: `EndsInv` ties the
  flag to the event it stands for and to the end of a task, in both directions,
  and the reader to the phases it may run in, so that neither task can find the
  flag set with nothing sent. Theorem `EndsAreNeverSilent`, the safety half of
  `LossAnnounced`. The safety half of `FramesDelivered` is theorem
  `UnreportedFramesStayHeld`: `FramesInv` says that only a stream that was opened
  has frames, that it has a handler, that a handler which ended in order has
  read everything (this is where the end of the stream must not overtake its
  last frame), and that streams wait to be accepted only while the accept loop
  runs; a grant, hence an event, hence a serving host, is behind each stream.
* **Admission** (`AdmissionProofs`). `AdmissionInv` says that ids drawn are below
  the counter, that the answer on the wire is the only one, and that whatever
  the host decided it decided on the Tie the peer sent. Theorems
  `TypeCorrectness`, `ConnectionIdsAreUnique`, `AdmissionsAreRight`.
  What the registry will hold is in the queue of events: `RegistryInv` follows a
  served connection from its RopeConnected in the queue to an entry under its
  rope_id, and finds in whatever may remove that entry the event of another
  connection of the rope_id that has ended. `EventsInv` says that of each connection the queue
  holds RopeConnected and RopeDisconnected at most once and in this order, and
  only as far as the host has come. So handling the head of the queue moves one
  connection from stranger to member or from member to parted and leaves the
  others (`KnownHandled`, `KnownElsewhere`), and a sender in the registry is a
  member's: theorem `TheDepartedAreForgotten`. Together they give
  `ServedIsReachable`: there is an entry, its connection was announced and its
  end is not handled, so if all that were announced under the rope_id are still
  served it is served too. Theorem `ServedStaysReachable`. The same step is `Enter` or
  `Leave` of Membership; with `AnsweredInv` (no id before the verdict, no answer
  before the Tie) drawing an id is `Admit`, reading the reply is `Answer`, and
  all else, losses and refusals written to nobody included, stutters: theorem
  `ImplementsMembership`.
* **Codec** (`FrameCodecProofs`). A number of a field's width is the sum of its
  bytes, from `n = 65536 * Upper(n) + Low(n)` upwards; with that each field is
  read back from its own offset. Theorem `DecodeUndoesEncode`. The other way,
  16 bits joined to a number are found again by `Upper`, `B1` and `B0`
  (`BytesOfJoined`), so whatever bytes decode, `Encode` restores. Theorem
  `EncodeUndoesDecode`.
* **File names** (`StreamConfigProofs`, under `StreamConfigAssumption`: the
  underscore is not alphanumeric, and lower case is idempotent and stays
  alphanumeric). The recursion of `CollapsedPrefixes` is shown to define a value
  for each prefix (`PrefixesDefined`), and what holds of them by looking at the
  first prefix for which it would fail (`Least`, from the well-foundedness of
  the naturals): no two underscores in a row (`CollapsedHasNoPairs`), and a name
  without such a pair is left as it is (`CollapsedKeeps`). With the two ends
  that `Trimmed` cuts at (`TrimmedCuts`) this is theorem `FileNamesAreNormal`:
  every topic, of any length, has a normal name, and the name of that is itself.
* **Recording** (`DataPathProofs`). `TypeOK` is inductive with the help of the
  codec: what `WriteFrame` puts into a pipe decodes to a header of proper types.
  `HostInv` says that a stream waits in one accept queue at most once and only
  before it has a handler, that a file has one holder, and what a transaction
  holds in each of its states. From the single holder, a transaction's view of
  the `frames` table is still true at its commit, which gives
  `TimelineStaysPlayable` and `ReportsAreDurable`, that nobody else writes the
  file, which gives `RecordingStaysOwn`, and with it the refinement
  `ImplementsTimeline`: `Commit` is `Record`, `Report` is `Report`, everything
  else, crashes included, stutters. `SeqNumbersTrackLoss` follows the numbers
  along the stream: those seen, the one in hand, those in the pipe (`Tracks`)
  rise, and each number below one of them is among them or in `unsent`.

* **Applications** (`ExampleHubsProofs`). The four invariants are about messages
  on a route whose end may be lost at any moment. `QueueInv` says what the one
  queue of events can hold of a connection: nothing before its handshake,
  RopeConnected before anything else, RopeDisconnected only when the connection
  and its tasks are over. `SettledByPin` then needs only `PinsAreHeeded`: a right
  answer in a queue was entered by the user of its rope. Lemmas `OrdersCarried`
  and `ReportsCarried` say once for all three hubs what becomes of an order or a
  report in one step: it stays, or is heeded, read or handled, unless its
  connection ends in that step. `TypeOK` is exact about who is sent what:
  the sender held under a rope_id is that of a connection of the rope, which is
  all that keeps a gate from being sent the floodlight's order (`OrdersTo`,
  `OrdersAreAddressed`). `AlarmInv` (a sender held is of a connection the host
  has announced; only a camera reports motion) and
  `PendingInv` make the other invariants inductive; the latter is stronger than
  `ChallengeUnderWay` in asking one and the same connection for what is due to
  the device, that its RopeConnected is handled and its RopeDisconnected is not.
  Theorems `TypeCorrectness`, `SettlingNeedsPin`, `ChallengesAreCarried`,
  `AlarmsAreCarried`, `GreetingsAreCarried`.

Only model-checked: the liveness properties (fairness and ENABLED are beyond
the prover; the invariants `NoLostWakeup`, `EndsAreTold`,
`UnreportedFramesAreHeld`, `PartedAreForgotten` and the three about what is
under way are the proved half of seven of them).

## 6. Not modelled, and the plan

Not modelled: logging; message ids and envelope timestamps, which nothing
correlates on; the contents of `Capability` and `StreamConfig` but for what
admission and file names read; malformed envelopes between the two ends of this
library; the inside of redb, taken as what it documents (one opener of a file per
process, atomic commits); the iroh adapter, which is another crate; the examples
that only call operations of the library and print its events; the documented
grace period and takeover, which no code implements.

What remains: composing the proofs. `Admission` takes a served connection for
one state and `DataPath` takes the grant of a stream for one step; that
ControlChannel implements both views, as it implements StreamGate, is argued
here by the correspondence of their actions and not proved.
