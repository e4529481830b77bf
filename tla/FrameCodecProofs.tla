-------------------------- MODULE FrameCodecProofs --------------------------
(***************************************************************************)
(* decode undoes encode, for every header whose fields are in the range of *)
(* their types, and encode undoes decode, for every bytes that decode.     *)
(* There is no induction: a number is taken apart, and put together, a     *)
(* byte at a time at the offsets of the code.                              *)
(***************************************************************************)
EXTENDS FrameCodec, SequenceTheorems, TLAPS

\* The number in the two low bytes of a word.
Low(n) == (256 * B1(n)) + B0(n)

\* A word is its upper part and its two low bytes.
LEMMA Halves ==
    ASSUME NEW n \in Nat
    PROVE  /\ Upper(n) \in Nat
           /\ Low(n) \in Nat
           /\ n = (65536 * Upper(n)) + Low(n)
<1>1. Upper(n) \in Nat /\ n = (65536 * Upper(n)) + (n % 65536)
  BY SMT DEF Upper
<1>2. Low(n) = (n % 65536)
  BY SMT DEF B1, B0, Low
<1>3. (n % 65536) \in Nat
  BY SMT
<1> QED
  BY <1>1, <1>2, <1>3, SMT

\* So a number of 16 bits is those two bytes,
LEMMA Word16 ==
    ASSUME NEW n \in U16s
    PROVE  n \in Nat /\ n = Low(n)
<1>1. n \in Nat /\ n < 65536
  BY SMT DEF U16s
<1>2. Upper(n) = 0
  BY <1>1, SMT DEF Upper
<1>3. n = (65536 * Upper(n)) + Low(n) /\ Low(n) \in Nat
  BY <1>1, Halves
<1> QED
  BY <1>1, <1>2, <1>3, SMT

\* one of 32 bits the four that encode writes of it,
LEMMA Word32 ==
    ASSUME NEW n \in U32s
    PROVE  /\ n \in Nat
           /\ n = (65536 * Low(Upper(n))) + Low(n)
<1>1. n \in Nat /\ Upper(n) \in U16s
  BY Zenon DEF U32s
<1>2. Upper(n) = Low(Upper(n))
  BY <1>1, Word16
<1>3. n = (65536 * Upper(n)) + Low(n)
  BY <1>1, Halves
<1> QED
  BY <1>1, <1>2, <1>3, SMT

\* and one of 64 bits the eight.
LEMMA Word64 ==
    ASSUME NEW n \in U64s
    PROVE  n = (65536 * (65536 * ((65536 * Low(Upper(Upper(Upper(n)))))
                                  + Low(Upper(Upper(n))))))
               + ((65536 * Low(Upper(n))) + Low(n))
<1>1. n \in Nat /\ Upper(Upper(n)) \in U32s
  BY Zenon DEF U64s
<1>2. /\ Upper(n) \in Nat /\ Low(n) \in Nat
      /\ n = (65536 * Upper(n)) + Low(n)
  BY <1>1, Halves
<1>3. /\ Upper(Upper(n)) \in Nat /\ Low(Upper(n)) \in Nat
      /\ Upper(n) = (65536 * Upper(Upper(n))) + Low(Upper(n))
  BY <1>2, Halves
<1>4. Upper(Upper(n)) = (65536 * Low(Upper(Upper(Upper(n)))))
                        + Low(Upper(Upper(n)))
  BY <1>1, Word32
<1>5. n = (65536 * (65536 * Upper(Upper(n)))) + ((65536 * Low(Upper(n))) + Low(n))
  BY <1>1, <1>2, <1>3, SMT
<1> QED
  BY <1>4, <1>5

\* FrameHeader::decode accepts what encode wrote and returns the same header.
THEOREM DecodeUndoesEncode ==
    \A h \in Headers : Decodes(Encode(h)) /\ Decode(Encode(h)) = h
<1> SUFFICES ASSUME NEW h \in Headers
             PROVE  Decodes(Encode(h)) /\ Decode(Encode(h)) = h
  OBVIOUS
<1> DEFINE b == Encode(h)
<1>0. /\ h = [magic |-> h.magic, stream_id |-> h.stream_id,
              seq_num |-> h.seq_num, timestamp_ms |-> h.timestamp_ms,
              frame_type |-> h.frame_type, flags |-> h.flags,
              payload_len |-> h.payload_len]
      /\ h.magic = Magic /\ h.stream_id \in U32s /\ h.payload_len \in U32s
      /\ h.seq_num \in U64s /\ h.timestamp_ms \in U64s
  BY DEF Headers
<1>1. /\ Len(b) = 28 /\ b[1] = h.magic[1] /\ b[2] = h.magic[2]
      /\ b[23] = h.frame_type /\ b[24] = h.flags
  BY SMT DEF Encode
<1>a. <<b[1], b[2]>> = Magic
  <2>1. b[1] = 75 /\ b[2] = 80
    BY <1>0, <1>1, SMT DEF Magic
  <2> QED
    BY <2>1, Zenon DEF Magic
<1>2. U32(b, 3) = h.stream_id
  BY <1>0, Word32, SMT DEF U32, U16, Encode, Low
<1>3. U64(b, 7) = h.seq_num
  BY <1>0, Word64, SMT DEF U64, U32, U16, Encode, Low
<1>4. U64(b, 15) = h.timestamp_ms
  BY <1>0, Word64, SMT DEF U64, U32, U16, Encode, Low
<1>6. U32(b, 25) = h.payload_len
  BY <1>0, Word32, SMT DEF U32, U16, Encode, Low
<1> HIDE DEF b
<1>7. Decode(b) = [magic |-> h.magic, stream_id |-> h.stream_id,
              seq_num |-> h.seq_num, timestamp_ms |-> h.timestamp_ms,
              frame_type |-> h.frame_type, flags |-> h.flags,
              payload_len |-> h.payload_len]
  BY <1>0, <1>1, <1>a, <1>2, <1>3, <1>4, <1>6, Zenon DEF Decode
<1>8. Decodes(b)
  BY <1>1, <1>a, SMT DEF Decodes, SIZE
<1> QED
  BY <1>0, <1>7, <1>8, Zenon DEF b

-----------------------------------------------------------------------------
(* What write_frame puts into a header fits its fields.                     *)

\* Cutting to 16 bits,
LEMMA Rest16 ==
    ASSUME NEW n \in Nat
    PROVE  (n % 65536) \in U16s
BY SMT DEF U16s

\* the bound of 16 bits,
LEMMA Bits16 ==
    ASSUME NEW n \in Nat, n <= 65535
    PROVE  n \in U16s
<1>1. n % 65536 = n
  BY SMT
<1> QED
  BY <1>1, Rest16

\* and what is below a number of 16 bits.
LEMMA Below16 ==
    ASSUME NEW m \in U16s, NEW n \in Nat, n <= m
    PROVE  n \in U16s
<1>1. m \in Nat /\ m <= 65535
  BY SMT DEF U16s
<1>2. n <= 65535
  BY <1>1, SMT
<1> QED
  BY <1>2, Bits16

\* Putting 16 bits behind a number is undone by Upper.
LEMMA UpperOfJoined ==
    ASSUME NEW u \in Nat, NEW v \in U16s
    PROVE  (65536 * u) + v \in Nat /\ Upper((65536 * u) + v) = u
BY SMT DEF U16s, Upper

\* A smaller number has no larger upper part.
LEMMA UpperIsMonotonic ==
    ASSUME NEW m \in Nat, NEW n \in Nat, n <= m
    PROVE  Upper(n) \in Nat /\ Upper(m) \in Nat /\ Upper(n) <= Upper(m)
BY SMT DEF Upper

\* The numbers below a 64-bit number have 64 bits.
LEMMA SmallerU64 ==
    ASSUME NEW m \in U64s, NEW n \in Nat, n <= m
    PROVE  n \in U64s
<1>1. m \in Nat /\ Upper(Upper(Upper(m))) \in U16s
  BY Zenon DEF U64s, U32s
<1>2. Upper(n) \in Nat /\ Upper(m) \in Nat /\ Upper(n) <= Upper(m)
  BY <1>1, UpperIsMonotonic
<1>3. /\ Upper(Upper(n)) \in Nat /\ Upper(Upper(m)) \in Nat
      /\ Upper(Upper(n)) <= Upper(Upper(m))
  BY <1>2, UpperIsMonotonic
<1>4. /\ Upper(Upper(Upper(n))) \in Nat
      /\ Upper(Upper(Upper(n))) <= Upper(Upper(Upper(m)))
  BY <1>3, UpperIsMonotonic
<1>5. Upper(Upper(Upper(n))) \in U16s
  BY <1>1, <1>4, Below16
<1> QED
  BY <1>3, <1>5, Zenon DEF U64s, U32s

\* The header of write_frame is one that FrameHeader can hold, whatever the
\* length of the payload.
LEMMA KnotHeaderType ==
    ASSUME NEW n \in U64s, NEW t \in U64s, NEW len \in Nat, NEW k \in Byte
    PROVE  KnotHeader(n, t, k, len) \in Headers
<1> DEFINE x == (Upper(len) % 65536)  y == (len % 65536)
           l == (65536 * x) + y
<1>1. Upper(len) \in Nat
  BY Halves
<1>2. x \in U16s /\ x \in Nat /\ y \in U16s
  <2>1. x \in U16s /\ y \in U16s
    BY <1>1, Rest16
  <2> HIDE DEF x, y
  <2> QED
    BY <2>1, Word16
<1>3. KnotHeader(n, t, k, len) =
         [magic |-> Magic, stream_id |-> 1, seq_num |-> n, timestamp_ms |-> t,
          frame_type |-> k, flags |-> 0, payload_len |-> l]
  BY DEF KnotHeader
<1>4. l \in U32s
  <2> HIDE DEF x, y
  <2>1. l \in Nat /\ Upper(l) = x
    BY <1>2, UpperOfJoined
  <2> HIDE DEF l
  <2> QED
    BY <1>2, <2>1, Zenon DEF U32s
<1>5. 1 \in U32s /\ 0 \in Byte
  BY SMT DEF U32s, U16s, Upper, Byte
<1> HIDE DEF l
<1> QED
  BY <1>3, <1>4, <1>5 DEF Headers

\* encode writes 28 bytes.
LEMMA EncodeType ==
    ASSUME NEW h \in Headers
    PROVE  Encode(h) \in Seq(Byte) /\ Len(Encode(h)) = SIZE
<1>1. \A n \in Nat : Upper(n) \in Nat /\ B1(n) \in Byte /\ B0(n) \in Byte
  BY SMT DEF Upper, B1, B0, Byte
<1>2. /\ h.stream_id \in Nat /\ h.payload_len \in Nat
      /\ h.seq_num \in Nat /\ h.timestamp_ms \in Nat
      /\ h.frame_type \in Byte /\ h.flags \in Byte /\ h.magic = Magic
  BY DEF Headers, U32s, U64s
<1>3. h.magic[1] \in Byte /\ h.magic[2] \in Byte
  BY <1>2, SMT DEF Magic, Byte
<1> QED
  BY <1>1, <1>2, <1>3, SMTT(60) DEF Encode, SIZE

\* What is cut short and what has another magic does not decode.
LEMMA MalformedRefused ==
    ASSUME NEW h \in Headers
    PROVE  /\ SubSeq(Encode(h), 1, SIZE - 1) \in Seq(Byte)
           /\ ~Decodes(SubSeq(Encode(h), 1, SIZE - 1))
           /\ [Encode(h) EXCEPT ![1] = 0] \in Seq(Byte)
           /\ ~Decodes([Encode(h) EXCEPT ![1] = 0])
<1> DEFINE b == Encode(h)
<1>1. b \in Seq(Byte) /\ Len(b) = 28
  BY EncodeType DEF SIZE
<1> HIDE DEF b
<1>2. SubSeq(b, 1, 27) \in Seq(Byte) /\ Len(SubSeq(b, 1, 27)) = 27
  <2>1. \A i \in 1..27 : b[i] \in Byte
    <3>1. \A i \in 1..Len(b) : b[i] \in Byte
      BY <1>1, ElementOfSeq
    <3>2. 1..27 \subseteq 1..Len(b)
      BY <1>1, SMT
    <3> QED
      BY <3>1, <3>2, Zenon
  <2>2. /\ SubSeq(b, 1, 27) \in Seq(Byte)
        /\ Len(SubSeq(b, 1, 27)) = IF 1 <= 27 THEN 27 - 1 + 1 ELSE 0
    BY <2>1, SubSeqProperties, SMT
  <2> QED
    BY <2>2, SMT
<1>3. /\ [b EXCEPT ![1] = 0] \in Seq(Byte) /\ [b EXCEPT ![1] = 0][1] = 0
  <2>1. 0 \in Byte /\ 1 \in 1..Len(b)
    BY <1>1, SMT DEF Byte
  <2>2. [b EXCEPT ![1] = 0] \in Seq(Byte)
    BY <1>1, <2>1, ExceptSeq
  <2>3. 1 \in DOMAIN b
    BY <1>1, <2>1
  <2> QED
    BY <2>2, <2>3
<1>4. SIZE - 1 = 27 /\ ~(27 >= SIZE)
  BY SMT DEF SIZE
<1>5. ~Decodes(SubSeq(b, 1, 27))
  BY <1>2, <1>4, Zenon DEF Decodes
<1>6. ~Decodes([b EXCEPT ![1] = 0])
  BY <1>3, SMT DEF Decodes, Magic
<1> QED
  BY <1>2, <1>3, <1>4, <1>5, <1>6, Zenon DEF b

-----------------------------------------------------------------------------
(* The other way round: encode undoes decode.                               *)

\* Division by 256 and its rest.
LEMMA Split256 ==
    ASSUME NEW a \in Nat, NEW r \in Nat, r < 256
    PROVE  /\ (256 * a + r) \div 256 = a
           /\ (256 * a + r) % 256 = r
  BY SMT

\* A number put together from two bytes comes apart into them.
LEMMA BytesOfWord ==
    ASSUME NEW x \in Byte, NEW y \in Byte
    PROVE  /\ 256 * x + y \in U16s
           /\ B1(256 * x + y) = x /\ B0(256 * x + y) = y
<1>1. x \in Nat /\ x < 256 /\ y \in Nat /\ y < 256
  BY SMT DEF Byte
<1>2. (256 * x + y) \div 256 = x /\ (256 * x + y) % 256 = y
  BY <1>1, Split256
<1>3. x % 256 = x
  BY <1>1, SMT
<1>4. 256 * x + y \in Nat /\ 256 * x + y <= 65535
  <2>1. x <= 255 /\ y <= 255
    BY <1>1, SMT
  <2> QED
    BY <1>1, <2>1, SMT
<1>5. 256 * x + y \in U16s
  BY <1>4, Bits16
<1> QED
  BY <1>2, <1>3, <1>5, Zenon DEF B1, B0

\* 16 bits behind a number.
Join(u, v) == (65536 * u) + v

\* The bits above the lower word leave the bytes of that word alone.
LEMMA BytesOfJoined ==
    ASSUME NEW u \in Nat, NEW v \in U16s
    PROVE  /\ Join(u, v) \in Nat /\ Upper(Join(u, v)) = u
           /\ B1(Join(u, v)) = B1(v) /\ B0(Join(u, v)) = B0(v)
<1>1. v \in Nat /\ v <= 65535
  BY SMT DEF U16s
<1>2. PICK x \in Nat, y \in Nat : v = 256 * x + y /\ y < 256 /\ x < 256
  <2>1. /\ v \div 256 \in Nat /\ v % 256 \in Nat /\ v % 256 < 256
        /\ v = 256 * (v \div 256) + (v % 256) /\ v \div 256 < 256
    BY <1>1, SMT
  <2> QED
    BY <2>1
<1>3. v \div 256 = x /\ v % 256 = y /\ x % 256 = x
  BY <1>2, Split256, SMT
<1>4. PICK z \in Nat : z = 256 * u + x
  BY SMT
<1>5. Join(u, v) = 256 * z + y
  BY <1>2, <1>4, SMT DEF Join
<1>6. (256 * z + y) \div 256 = z /\ (256 * z + y) % 256 = y
  BY <1>2, Split256
<1>7. z % 256 = x
  BY <1>2, <1>4, Split256
<1>8. B1(Join(u, v)) = B1(v) /\ B0(Join(u, v)) = B0(v)
  <2>1. Join(u, v) \div 256 = z /\ Join(u, v) % 256 = y
    BY <1>5, <1>6
  <2>2. B1(Join(u, v)) = x /\ B0(Join(u, v)) = y
    BY <1>7, <2>1, Zenon DEF B1, B0
  <2>3. B1(v) = x /\ B0(v) = y
    BY <1>3, Zenon DEF B1, B0
  <2> QED
    BY <2>2, <2>3, Zenon
<1> QED
  BY <1>8, UpperOfJoined DEF Join

\* Two bytes of a sequence of bytes.
LEMMA U16Bytes ==
    ASSUME NEW b \in Seq(Byte), NEW i \in Nat \ {0}, i + 1 <= Len(b)
    PROVE  /\ U16(b, i) \in U16s /\ U16(b, i) \in Nat
           /\ B1(U16(b, i)) = b[i] /\ B0(U16(b, i)) = b[i + 1]
<1>1. i \in 1..Len(b) /\ i + 1 \in 1..Len(b)
  OBVIOUS
<1>2. b[i] \in Byte /\ b[i + 1] \in Byte
  BY <1>1, ElementOfSeq
<1>3. /\ U16(b, i) \in U16s
      /\ B1(U16(b, i)) = b[i] /\ B0(U16(b, i)) = b[i + 1]
  BY <1>2, BytesOfWord DEF U16
<1> QED
  BY <1>3, Word16

\* Four bytes.
LEMMA U32Bytes ==
    ASSUME NEW b \in Seq(Byte), NEW i \in Nat \ {0}, i + 3 <= Len(b)
    PROVE  /\ U32(b, i) \in U32s /\ U32(b, i) \in Nat
           /\ Upper(U32(b, i)) = U16(b, i)
           /\ B1(Upper(U32(b, i))) = b[i] /\ B0(Upper(U32(b, i))) = b[i + 1]
           /\ B1(U32(b, i)) = b[i + 2] /\ B0(U32(b, i)) = b[i + 3]
<1>1. /\ U16(b, i) \in U16s /\ U16(b, i) \in Nat
      /\ B1(U16(b, i)) = b[i] /\ B0(U16(b, i)) = b[i + 1]
  BY U16Bytes
<1>2. /\ U16(b, i + 2) \in U16s
      /\ B1(U16(b, i + 2)) = b[i + 2] /\ B0(U16(b, i + 2)) = b[i + 3]
  <2> DEFINE j == i + 2
  <2>1. j \in Nat \ {0} /\ j + 1 <= Len(b) /\ j + 1 = i + 3
    OBVIOUS
  <2> HIDE DEF j
  <2>2. /\ U16(b, j) \in U16s
        /\ B1(U16(b, j)) = b[j] /\ B0(U16(b, j)) = b[j + 1]
    BY <2>1, U16Bytes
  <2> QED
    BY <2>1, <2>2 DEF j
<1>3. /\ U32(b, i) \in Nat /\ Upper(U32(b, i)) = U16(b, i)
      /\ B1(U32(b, i)) = B1(U16(b, i + 2)) /\ B0(U32(b, i)) = B0(U16(b, i + 2))
  <2>1. U32(b, i) = Join(U16(b, i), U16(b, i + 2))
    BY SMT DEF U32, Join
  <2> DEFINE u == U16(b, i)  v == U16(b, i + 2)
  <2>2. u \in Nat /\ v \in U16s
    BY <1>1, <1>2
  <2>3. /\ Join(u, v) \in Nat /\ Upper(Join(u, v)) = u
        /\ B1(Join(u, v)) = B1(v) /\ B0(Join(u, v)) = B0(v)
    <3> HIDE DEF u, v
    <3> QED
      BY <2>2, BytesOfJoined
  <2> QED
    BY <2>1, <2>2, <2>3
<1>4. U32(b, i) \in U32s
  BY <1>1, <1>3, Zenon DEF U32s
<1> QED
  BY <1>1, <1>2, <1>3, <1>4

\* Eight bytes.
LEMMA U64Bytes ==
    ASSUME NEW b \in Seq(Byte), NEW i \in Nat \ {0}, i + 7 <= Len(b)
    PROVE  /\ U64(b, i) \in U64s
           /\ Upper(Upper(U64(b, i))) = U32(b, i)
           /\ Upper(U64(b, i)) \in Nat
           /\ B1(Upper(U64(b, i))) = b[i + 4] /\ B0(Upper(U64(b, i))) = b[i + 5]
           /\ B1(U64(b, i)) = b[i + 6] /\ B0(U64(b, i)) = b[i + 7]
<1> DEFINE j == i + 4  k == i + 6
           w == Join(U32(b, i), U16(b, j))
<1>1. U32(b, i) \in U32s /\ U32(b, i) \in Nat
  BY U32Bytes
<1>2. /\ j \in Nat \ {0} /\ j + 1 <= Len(b) /\ j + 1 = i + 5
      /\ k \in Nat \ {0} /\ k + 1 <= Len(b) /\ k + 1 = i + 7
      /\ j + 2 = k
  OBVIOUS
<1>3. U32(b, j) = (65536 * U16(b, j)) + U16(b, k)
  BY <1>2 DEF U32
<1> HIDE DEF j, k
<1>4. /\ U16(b, j) \in U16s /\ U16(b, j) \in Nat
      /\ B1(U16(b, j)) = b[j] /\ B0(U16(b, j)) = b[j + 1]
  BY <1>2, U16Bytes
<1>5. /\ U16(b, k) \in U16s /\ U16(b, k) \in Nat
      /\ B1(U16(b, k)) = b[k] /\ B0(U16(b, k)) = b[k + 1]
  BY <1>2, U16Bytes
<1>6. /\ w \in Nat /\ Upper(w) = U32(b, i)
      /\ B1(w) = b[j] /\ B0(w) = b[j + 1]
  BY <1>1, <1>4, BytesOfJoined, Zenon
<1>7. U64(b, i) = Join(w, U16(b, k))
  <2>1. U64(b, i) = 65536 * (65536 * U32(b, i)) + U32(b, j)
    BY DEF U64, j
  <2> QED
    BY <1>1, <1>3, <1>4, <1>5, <2>1, SMT DEF Join
<1> HIDE DEF w
<1>8. /\ U64(b, i) \in Nat /\ Upper(U64(b, i)) = w
      /\ B1(U64(b, i)) = b[k] /\ B0(U64(b, i)) = b[k + 1]
  BY <1>5, <1>6, <1>7, BytesOfJoined, Zenon
<1>9. U64(b, i) \in U64s
  BY <1>1, <1>6, <1>8, Zenon DEF U64s
<1> QED
  BY <1>2, <1>6, <1>8, <1>9 DEF j, k

\* What FrameHeader::decode accepts, from any peer, is a header of its fields'
\* widths, and encode writes back the very bytes it was read from: no two
\* headers on the wire are taken for one.
THEOREM EncodeUndoesDecode ==
    \A b \in Seq(Byte) : Decodes(b) =>
        Decode(b) \in Headers /\ Encode(Decode(b)) = SubSeq(b, 1, SIZE)
<1> SUFFICES ASSUME NEW b \in Seq(Byte), Decodes(b)
             PROVE  Decode(b) \in Headers /\ Encode(Decode(b)) = SubSeq(b, 1, SIZE)
  OBVIOUS
<1> DEFINE h == Decode(b)  e == Encode(h)
<1>1. Len(b) \in Nat /\ Len(b) >= 28
  BY SMT DEF Decodes, SIZE
<1>2. \A i \in 1..28 : b[i] \in Byte
  <2>1. \A i \in 1..Len(b) : b[i] \in Byte
    BY ElementOfSeq
  <2>2. 1..28 \subseteq 1..Len(b)
    BY <1>1, SMT
  <2> QED
    BY <2>1, <2>2, Zenon
<1>3. /\ h.magic = <<b[1], b[2]>>
      /\ h.stream_id = U32(b, 3) /\ h.seq_num = U64(b, 7)
      /\ h.timestamp_ms = U64(b, 15)
      /\ h.frame_type = b[23] /\ h.flags = b[24]
      /\ h.payload_len = U32(b, 25)
  BY DEF Decode
<1>a. h.magic = Magic /\ h.magic[1] = b[1] /\ h.magic[2] = b[2]
  <2>1. <<b[1], b[2]>> = <<75, 80>>
    BY DEF Decodes, Magic
  <2>2. b[1] = 75 /\ b[2] = 80
    BY <2>1, SMT
  <2>3. h.magic = <<75, 80>>
    BY <1>3, <2>1
  <2> HIDE DEF h
  <2>4. h.magic[1] = 75 /\ h.magic[2] = 80
    BY <2>3, SMT
  <2> QED
    BY <2>2, <2>3, <2>4, Zenon DEF Magic
<1>4. /\ U32(b, 3) \in U32s
      /\ B1(Upper(U32(b, 3))) = b[3] /\ B0(Upper(U32(b, 3))) = b[4]
      /\ B1(U32(b, 3)) = b[5] /\ B0(U32(b, 3)) = b[6]
  BY <1>1, U32Bytes
<1>5. /\ U64(b, 7) \in U64s
      /\ B1(Upper(Upper(Upper(U64(b, 7))))) = b[7]
      /\ B0(Upper(Upper(Upper(U64(b, 7))))) = b[8]
      /\ B1(Upper(Upper(U64(b, 7)))) = b[9]
      /\ B0(Upper(Upper(U64(b, 7)))) = b[10]
      /\ B1(Upper(U64(b, 7))) = b[11] /\ B0(Upper(U64(b, 7))) = b[12]
      /\ B1(U64(b, 7)) = b[13] /\ B0(U64(b, 7)) = b[14]
  BY <1>1, U32Bytes, U64Bytes
<1>6. /\ U64(b, 15) \in U64s
      /\ B1(Upper(Upper(Upper(U64(b, 15))))) = b[15]
      /\ B0(Upper(Upper(Upper(U64(b, 15))))) = b[16]
      /\ B1(Upper(Upper(U64(b, 15)))) = b[17]
      /\ B0(Upper(Upper(U64(b, 15)))) = b[18]
      /\ B1(Upper(U64(b, 15))) = b[19] /\ B0(Upper(U64(b, 15))) = b[20]
      /\ B1(U64(b, 15)) = b[21] /\ B0(U64(b, 15)) = b[22]
  BY <1>1, U32Bytes, U64Bytes
<1>7. /\ U32(b, 25) \in U32s
      /\ B1(Upper(U32(b, 25))) = b[25] /\ B0(Upper(U32(b, 25))) = b[26]
      /\ B1(U32(b, 25)) = b[27] /\ B0(U32(b, 25)) = b[28]
  BY <1>1, U32Bytes
<1>8. h \in Headers
  BY <1>2, <1>3, <1>a, <1>4, <1>5, <1>6, <1>7 DEF Headers, Decode
<1>9. e \in Seq(Byte) /\ Len(e) = 28
  BY <1>8, EncodeType DEF SIZE
<1>10. /\ SubSeq(b, 1, 28) \in Seq(Byte) /\ Len(SubSeq(b, 1, 28)) = 28
       /\ \A i \in 1..28 : SubSeq(b, 1, 28)[i] = b[i]
  <2>1. /\ SubSeq(b, 1, 28) \in Seq(Byte)
        /\ Len(SubSeq(b, 1, 28)) = IF 1 <= 28 THEN 28 - 1 + 1 ELSE 0
        /\ \A i \in 1..(28 - 1 + 1) : SubSeq(b, 1, 28)[i] = b[1 + i - 1]
    BY <1>2, SubSeqProperties, SMT
  <2> QED
    BY <2>1, SMT
<1>11. \A i \in 1..28 : e[i] = b[i]
  <2> HIDE DEF h
  <2>1. /\ e[1] = b[1] /\ e[2] = b[2] /\ e[23] = b[23] /\ e[24] = b[24]
    BY <1>3, <1>a, SMT DEF Encode
  <2>2. /\ e[3] = b[3] /\ e[4] = b[4] /\ e[5] = b[5] /\ e[6] = b[6]
    BY <1>3, <1>4, SMT DEF Encode
  <2>3. /\ e[7] = b[7] /\ e[8] = b[8] /\ e[9] = b[9] /\ e[10] = b[10]
        /\ e[11] = b[11] /\ e[12] = b[12] /\ e[13] = b[13] /\ e[14] = b[14]
    BY <1>3, <1>5, SMT DEF Encode
  <2>4. /\ e[15] = b[15] /\ e[16] = b[16] /\ e[17] = b[17] /\ e[18] = b[18]
        /\ e[19] = b[19] /\ e[20] = b[20] /\ e[21] = b[21] /\ e[22] = b[22]
    BY <1>3, <1>6, SMT DEF Encode
  <2>5. /\ e[25] = b[25] /\ e[26] = b[26] /\ e[27] = b[27] /\ e[28] = b[28]
    BY <1>3, <1>7, SMT DEF Encode
  <2> HIDE DEF e
  <2>6. \A i \in 1..28 : \/ i \in 1..6 \/ i \in 7..14 \/ i \in 15..22
                         \/ i \in 23..28
    BY SMT
  <2>7. /\ \A i \in 1..6 : e[i] = b[i]
        /\ \A i \in 7..14 : e[i] = b[i]
    BY <2>1, <2>2, <2>3, SMT
  <2>8. /\ \A i \in 15..22 : e[i] = b[i]
        /\ \A i \in 23..28 : e[i] = b[i]
    BY <2>1, <2>4, <2>5, SMT
  <2> QED
    BY <2>6, <2>7, <2>8, Zenon
<1>12. e = SubSeq(b, 1, 28)
  BY <1>9, <1>10, <1>11, SeqEqual
<1> QED
  BY <1>8, <1>12 DEF SIZE

=============================================================================
