----------------------------- MODULE FrameCodec -----------------------------
(***************************************************************************)
(* The 28-byte header of a data frame (FrameHeader in src/stream.rs) as    *)
(* the bytes encode produces and decode reads, and the header write_frame  *)
(* fills in (src/lib.rs).  A byte sequence is 1-based here: offset n of    *)
(* the code is index n + 1.                                                *)
(*                                                                         *)
(* Integers are natural numbers.  U32s and U64s are the values the fields  *)
(* can hold; words are taken apart 16 bits at a time so that no constant   *)
(* beyond TLC's integers is needed.                                        *)
(***************************************************************************)
EXTENDS Integers, Sequences

Byte == 0..255
Magic == <<75, 80>>
SIZE == 28

Upper(n) == n \div 65536

U16s == 0..65535
U32s == {n \in Nat : Upper(n) \in U16s}
U64s == {n \in Nat : Upper(Upper(n)) \in U32s}

Headers == [magic : {Magic}, stream_id : U32s, seq_num : U64s,
            timestamp_ms : U64s, frame_type : Byte, flags : Byte,
            payload_len : U32s]

\* The two low bytes of a word.
B1(n) == (n \div 256) % 256
B0(n) == n % 256

\* to_be_bytes, field by field, into the slices of the header.
Encode(h) ==
    LET id == h.stream_id  sq == h.seq_num  ts == h.timestamp_ms
        ln == h.payload_len
    IN  <<h.magic[1], h.magic[2],
          B1(Upper(id)), B0(Upper(id)), B1(id), B0(id),
          B1(Upper(Upper(Upper(sq)))), B0(Upper(Upper(Upper(sq)))),
          B1(Upper(Upper(sq))), B0(Upper(Upper(sq))),
          B1(Upper(sq)), B0(Upper(sq)), B1(sq), B0(sq),
          B1(Upper(Upper(Upper(ts)))), B0(Upper(Upper(Upper(ts)))),
          B1(Upper(Upper(ts))), B0(Upper(Upper(ts))),
          B1(Upper(ts)), B0(Upper(ts)), B1(ts), B0(ts),
          h.frame_type, h.flags,
          B1(Upper(ln)), B0(Upper(ln)), B1(ln), B0(ln)>>

MutU16(b, i) == b[i] + (256 * b[i + 1])

\* from_be_bytes of the bytes from index i on.
U16(b, i) == 256 * b[i] + b[i + 1]
U32(b, i) == 65536 * U16(b, i) + U16(b, i + 2)
U64(b, i) == 65536 * (65536 * U32(b, i)) + U32(b, i + 4)

MutDecodes(bytes) == Len(bytes) >= SIZE

\* decode succeeds: enough bytes, and the magic at their front.
Decodes(bytes) == Len(bytes) >= SIZE /\ <<bytes[1], bytes[2]>> = Magic

\* What decode returns then.
Decode(bytes) ==
    [magic        |-> <<bytes[1], bytes[2]>>,
     stream_id    |-> U32(bytes, 3),
     seq_num      |-> U64(bytes, 7),
     timestamp_ms |-> U64(bytes, 15),
     frame_type   |-> bytes[23],
     flags        |-> bytes[24],
     payload_len  |-> U32(bytes, 25)]

\* The header of write_frame: stream_id_num is 1 for every stream, and the
\* length is cut to 32 bits.
KnotHeader(seq_counter, elapsed, frame_type, len) ==
    [magic        |-> Magic,
     stream_id    |-> 1,
     seq_num      |-> seq_counter,
     timestamp_ms |-> elapsed,
     frame_type   |-> frame_type,
     flags        |-> 0,
     payload_len  |-> (65536 * (Upper(len) % 65536)) + (len % 65536)]

=============================================================================
