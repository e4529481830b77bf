------------------------------ MODULE Timeline ------------------------------
(***************************************************************************)
(* What the recording of data streams promises (src/lib.rs,                *)
(* DeduplicatedRecordingWriter and handle_stream), without transactions,   *)
(* tasks, connections or crashes: a frame enters the two tables of its     *)
(* file in one step, nothing is taken out of them but an entry replaced at *)
(* its timestamp, and the application only learns of recorded frames.      *)
(***************************************************************************)
EXTENDS Sequences

CONSTANTS Streams, Files, PathOf, Payloads, Times

VARIABLES
    frames,    \* payloads stored per file
    timeline,  \* per file, the timestamps and what was recorded at them
    received   \* per stream, the frames the application was told of

Entries == [timestamp_ms : Times, payload : Payloads]

\* A table after an entry was inserted: the key is the timestamp.
Inserted(table, e) == {x \in table : x.timestamp_ms # e.timestamp_ms} \cup {e}

Init ==
    /\ frames = [f \in Files |-> {}]
    /\ timeline = [f \in Files |-> {}]
    /\ received = [s \in Streams |-> <<>>]

Record(s, e) ==
    LET f == PathOf[s] IN
    /\ frames' = [frames EXCEPT ![f] = @ \cup {e.payload}]
    /\ timeline' = [timeline EXCEPT ![f] = Inserted(@, e)]
    /\ UNCHANGED received

\* What the application is told of was recorded before; of its timestamp
\* something still is.
Report(s, e) ==
    /\ e.payload \in frames[PathOf[s]]
    /\ \E x \in timeline[PathOf[s]] : x.timestamp_ms = e.timestamp_ms
    /\ received' = [received EXCEPT ![s] = Append(@, e)]
    /\ UNCHANGED <<frames, timeline>>

Next == \E s \in Streams, e \in Entries : Record(s, e) \/ Report(s, e)

Spec == Init /\ [][Next]_<<frames, timeline, received>>

=============================================================================
