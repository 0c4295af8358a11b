--------------------------- MODULE TuyaPacketProofs ---------------------------
(***************************************************************************)
(* Proofs about TuyaPacket for every MTU, number of packets, buffer size   *)
(* and data length that its assumptions allow.                             *)
(***************************************************************************)
EXTENDS TuyaPacket, SequenceTheorems, NaturalsInduction, WellFoundedInduction, TLAPS

-----------------------------------------------------------------------------
(* Headers and lengths.                                                    *)

LEMMA VarintLength ==
  ASSUME NEW v \in Nat, v <= 16383
  PROVE  /\ PackVarint(v) \in Seq(Byte)
         /\ v < 128 => Len(PackVarint(v)) = 1
         /\ ~(v < 128) => Len(PackVarint(v)) = 2
<1>0. v \in Int /\ 0 <= v /\ v <= 16383
  OBVIOUS
<1>1. CASE v < 128
  <2>1. PackVarint(v) = <<v>> /\ v \in Byte
    BY <1>0, <1>1 DEF PackVarint, Byte
  <2> QED
    BY <1>1, <2>1
<1>2. CASE ~(v < 128)
  <2>1. v % 128 \in 0..127
    BY <1>0
  <2>2. v \div 128 \in 0..127
    BY <1>0
  <2> DEFINE low == 128 + (v % 128)  high == v \div 128
  <2>3. low \in Byte /\ high \in Byte
    BY <2>1, <2>2 DEF Byte
  <2>4. PackVarint(v) = <<low, high>>
    BY <1>2 DEF PackVarint
  <2> HIDE DEF low, high
  <2> QED
    BY <1>2, <2>3, <2>4
<1> QED
  BY <1>1, <1>2

LEMMA ThreeParts ==
  ASSUME NEW S, NEW p \in Seq(S), NEW q \in Seq(S), NEW r \in Seq(S)
  PROVE  p \o (q \o r) \in Seq(S) /\ Len(p \o (q \o r)) = Len(p) + Len(q) + Len(r)
<1>1. q \o r \in Seq(S) /\ Len(q \o r) = Len(q) + Len(r)
  BY ConcatProperties
<1>2. /\ p \o (q \o r) \in Seq(S)
      /\ Len(p \o (q \o r)) = Len(p) + Len(q \o r)
  BY <1>1, ConcatProperties
<1>3. Len(p) \in Nat /\ Len(q) \in Nat /\ Len(r) \in Nat
  BY LenProperties
<1> QED
  BY <1>1, <1>2, <1>3

\* The first packet has the longer header, every other one byte.
LEMMA HeaderLength ==
  ASSUME encrypted_len \in Nat, encrypted_len <= EncSize, NEW k \in Nat, k <= 126
  PROVE  /\ Header(k) \in Seq(Byte)
         /\ k = 0 => Len(Header(k)) = MTU - FirstRoom
         /\ k # 0 => Len(Header(k)) = 1
<1>0. k <= 16383 /\ k < 128 /\ encrypted_len <= 16383
  BY SizesAssumption
<1>1. /\ PackVarint(k) \in Seq(Byte) /\ Len(PackVarint(k)) = 1
  BY <1>0, VarintLength
<1>2. /\ PackVarint(encrypted_len) \in Seq(Byte)
      /\ encrypted_len < 128 => Len(PackVarint(encrypted_len)) = 1
      /\ ~(encrypted_len < 128) => Len(PackVarint(encrypted_len)) = 2
  BY <1>0, VarintLength
<1>3. /\ <<48>> \in Seq(Byte) /\ Len(<<48>>) = 1
      /\ <<>> \in Seq(Byte) /\ Len(<<>>) = 0
  BY DEF Byte
<1>4. CASE k = 0
  <2>1. Header(k) = PackVarint(k) \o (PackVarint(encrypted_len) \o <<48>>)
    BY <1>4 DEF Header
  <2>2. /\ Header(k) \in Seq(Byte)
        /\ Len(Header(k)) = 1 + Len(PackVarint(encrypted_len)) + 1
    <3>1. PackVarint(k) \in Seq(Byte) /\ PackVarint(encrypted_len) \in Seq(Byte)
      BY <1>1, <1>2
    <3>2. /\ Header(k) \in Seq(Byte)
          /\ Len(Header(k))
                 = Len(PackVarint(k)) + Len(PackVarint(encrypted_len)) + Len(<<48>>)
      BY <1>3, <2>1, <3>1, ThreeParts
    <3> QED
      BY <1>1, <1>3, <3>2
  <2>3. CASE encrypted_len < 128
    <3>1. MTU - FirstRoom = 3
      BY <2>3, SizesAssumption DEF FirstRoom
    <3>2. Len(PackVarint(encrypted_len)) = 1
      BY <1>2, <2>3
    <3>3. Len(Header(k)) = 3
      BY <2>2, <3>2
    <3> QED
      BY <1>4, <2>2, <3>1, <3>3, Zenon
  <2>4. CASE ~(encrypted_len < 128)
    <3>1. MTU - FirstRoom = 4
      BY <2>4, SizesAssumption DEF FirstRoom
    <3>2. Len(PackVarint(encrypted_len)) = 2
      BY <1>2, <2>4
    <3>3. Len(Header(k)) = 4
      BY <2>2, <3>2
    <3> QED
      BY <1>4, <2>2, <3>1, <3>3, Zenon
  <2> QED
    BY <2>3, <2>4
<1>5. CASE k # 0
  <2> DEFINE p == PackVarint(k)
  <2>1. Header(k) = p \o <<>>
    BY <1>5 DEF Header
  <2>2. p \in Seq(Byte) /\ Len(p) = 1
    BY <1>1
  <2> HIDE DEF p
  <2>3. Header(k) = p
    BY <2>1, <2>2, ConcatEmptySeq
  <2> QED
    BY <1>5, <2>2, <2>3
<1> QED
  BY <1>4, <1>5

LEMMA FirstRoomPositive ==
  ASSUME encrypted_len \in Nat
  PROVE  /\ FirstRoom \in Nat /\ FirstRoom > 0 /\ FirstRoom <= MTU - 1
         /\ MTU - 1 \in Nat /\ MaxPackets \in Nat /\ MaxPackets >= 1 /\ MaxPackets <= 127
BY SizesAssumption DEF FirstRoom

\* The bytes of the message that packet k has room for, and those that n full
\* packets hold.
RoomOf(k) == IF k = 0 THEN FirstRoom ELSE MTU - 1
Offset(n) == IF n = 0 THEN 0 ELSE FirstRoom + (n - 1) * (MTU - 1)

LEMMA ToCopyBound ==
  ASSUME encrypted_len \in Nat, encrypted_len <= EncSize, pos \in Nat,
         pos < encrypted_len, NEW k \in Nat, k <= 126
  PROVE  /\ ToCopy(k) \in Nat /\ ToCopy(k) > 0
         /\ Len(Header(k)) \in Nat
         /\ RoomOf(k) \in Nat
         /\ Len(Header(k)) + RoomOf(k) = MTU
         /\ ToCopy(k) <= RoomOf(k)
         /\ ToCopy(k) <= encrypted_len - pos
         /\ ToCopy(k) = RoomOf(k) \/ ToCopy(k) = encrypted_len - pos
<1>1. /\ FirstRoom \in Nat /\ FirstRoom > 0 /\ FirstRoom <= MTU - 1
      /\ MTU \in Nat /\ MTU > 4
  BY FirstRoomPositive, SizesAssumption
<1>2. /\ k = 0 => Len(Header(k)) = MTU - FirstRoom
      /\ k # 0 => Len(Header(k)) = 1
  BY HeaderLength
<1>3. /\ RoomOf(k) \in Nat /\ RoomOf(k) > 0
      /\ Len(Header(k)) \in Nat
      /\ Len(Header(k)) + RoomOf(k) = MTU
  <2>1. CASE k = 0
    <3>1. RoomOf(k) = FirstRoom /\ Len(Header(k)) = MTU - FirstRoom
      BY <1>2, <2>1 DEF RoomOf
    <3> QED
      BY <1>1, <3>1
  <2>2. CASE k # 0
    <3>1. RoomOf(k) = MTU - 1 /\ Len(Header(k)) = 1
      BY <1>2, <2>2 DEF RoomOf
    <3> QED
      BY <1>1, <3>1
  <2> QED
    BY <2>1, <2>2
<1>4. MTU - Len(Header(k)) = RoomOf(k)
  BY <1>1, <1>3
<1>5. ToCopy(k) = IF encrypted_len - pos < RoomOf(k) THEN encrypted_len - pos
                  ELSE RoomOf(k)
  BY <1>4 DEF ToCopy
<1> QED
  BY <1>3, <1>5

LEMMA ProductNext ==
  ASSUME NEW a \in Nat, NEW c \in Nat, a > 0
  PROVE  (a - 1) * c + c = a * c /\ (a - 1) * c \in Nat
OBVIOUS

LEMMA ProductGrows ==
  ASSUME NEW a \in Nat, NEW b \in Nat, NEW c \in Nat, a <= b
  PROVE  a * c <= b * c
OBVIOUS

\* One more packet holds RoomOf more bytes.
LEMMA OffsetNext ==
  ASSUME encrypted_len \in Nat, NEW n \in Nat
  PROVE  Offset(n) \in Nat /\ Offset(n + 1) = Offset(n) + RoomOf(n)
<1>1. FirstRoom \in Nat /\ MTU - 1 \in Nat
  BY FirstRoomPositive
<1>2. CASE n = 0
  <2>1. Offset(1) = FirstRoom + 0 * (MTU - 1)
    BY DEF Offset
  <2>2. 0 * (MTU - 1) = 0
    BY <1>1
  <2> QED
    BY <1>1, <1>2, <2>1, <2>2 DEF Offset, RoomOf
<1>3. CASE n # 0
  <2> DEFINE c == MTU - 1
  <2>1. c \in Nat
    BY <1>1
  <2>2. /\ Offset(n) = FirstRoom + (n - 1) * c
        /\ Offset(n + 1) = FirstRoom + ((n + 1) - 1) * c
        /\ RoomOf(n) = c
    BY <1>3 DEF Offset, RoomOf
  <2> HIDE DEF c
  <2>3. (n - 1) * c + c = n * c /\ (n - 1) * c \in Nat
    BY <1>3, <2>1, ProductNext
  <2>4. (n + 1) - 1 = n
    OBVIOUS
  <2> DEFINE before == (n - 1) * c  after == n * c
  <2>5. /\ Offset(n) = FirstRoom + before
        /\ Offset(n + 1) = FirstRoom + after
        /\ before + c = after /\ before \in Nat
    BY <2>2, <2>3, <2>4
  <2> HIDE DEF before, after
  <2> QED
    BY <1>1, <2>1, <2>2, <2>5
<1> QED
  BY <1>2, <1>3

LEMMA OffsetGrows ==
  ASSUME encrypted_len \in Nat, NEW n \in Nat, n <= MaxPackets
  PROVE  Offset(n) <= Capacity /\ Offset(MaxPackets) = Capacity
<1>1. FirstRoom \in Nat /\ MTU - 1 \in Nat /\ MaxPackets \in Nat /\ MaxPackets >= 1
  BY FirstRoomPositive
<1> DEFINE c == MTU - 1
<1>2. Capacity = FirstRoom + (MaxPackets - 1) * c
  BY DEF Capacity
<1>3. Offset(MaxPackets) = FirstRoom + (MaxPackets - 1) * c
  BY <1>1 DEF Offset
<1>4. n # 0 => Offset(n) = FirstRoom + (n - 1) * c
  BY DEF Offset
<1>5. n = 0 => Offset(n) = 0
  BY DEF Offset
<1>6. c \in Nat
  BY <1>1
<1> HIDE DEF c
<1>7. (MaxPackets - 1) * c \in Nat
  BY <1>1, <1>6, ProductNext
<1>8. n # 0 => (n - 1) * c <= (MaxPackets - 1) * c
  <2>1. SUFFICES ASSUME n # 0
                 PROVE  (n - 1) * c <= (MaxPackets - 1) * c
    OBVIOUS
  <2>2. n - 1 \in Nat /\ MaxPackets - 1 \in Nat /\ n - 1 <= MaxPackets - 1
    BY <1>1, <2>1
  <2> QED
    BY <1>6, <2>2, ProductGrows
<1>9. n # 0 => (n - 1) * c \in Nat
  BY <1>6, ProductNext
<1> QED
  BY <1>1, <1>2, <1>3, <1>4, <1>5, <1>7, <1>8, <1>9

-----------------------------------------------------------------------------
(* Type correctness.                                                       *)

\* What the lengths are, as facts about numbers.
LEMMA TypeFacts ==
  ASSUME TypeOK
  PROVE  /\ encrypted_len \in Nat /\ encrypted_len <= EncSize
         /\ pos \in Nat /\ pos <= encrypted_len
         /\ data_len \in Nat
         /\ packets \in Seq(Packet) /\ Len(packets) \in Nat
         /\ Len(packets) <= MaxPackets
<1>1. EncSize \in Nat
  BY SizesAssumption
<1>2. encrypted_len \in Nat /\ encrypted_len <= EncSize
  BY <1>1 DEF TypeOK
<1>3. pos \in Nat /\ pos <= encrypted_len
  BY <1>2 DEF TypeOK
<1>4. packets \in Seq(Packet) /\ Len(packets) <= MaxPackets
  BY DEF TypeOK
<1>5. Len(packets) \in Nat
  BY <1>4, LenProperties
<1> QED
  BY <1>2, <1>3, <1>4, <1>5 DEF TypeOK

LEMMA EncLenIsNat ==
  ASSUME NEW n \in Nat
  PROVE  EncLen(RawLen(n)) \in Nat /\ EncLen(RawLen(n)) > 0
<1>1. RawLen(n) \in Nat /\ RawLen(n) > 0
  BY DEF RawLen
<1> DEFINE m == RawLen(n)
<1>2. m \in Nat /\ m > 0
  BY <1>1
<1> HIDE DEF m
<1>3. (m + 15) \div 16 \in Nat
  BY <1>2
<1>4. Padded(m) = ((m + 15) \div 16) * 16
  BY <1>2 DEF Padded
<1>5. Padded(m) \in Nat
  BY <1>3, <1>4
<1>6. EncLen(m) \in Nat /\ EncLen(m) > 0
  BY <1>5 DEF EncLen
<1> QED
  BY <1>6 DEF m

\* What SplitStep does to the numbers, in a state of the right type.
LEMMA SplitStepFacts ==
  ASSUME TypeOK, SplitStep
  PROVE  /\ Len(packets) <= 126 /\ pos < encrypted_len /\ Len(packets) < MaxPackets
         /\ pos' = pos + ToCopy(Len(packets))
         /\ pos' \in Nat /\ pos' <= encrypted_len
         /\ packets' \in Seq(Packet) /\ Len(packets') = Len(packets) + 1
         /\ \A k \in DOMAIN packets : packets'[k] = packets[k]
         /\ DOMAIN packets = 1..Len(packets)
         /\ DOMAIN packets' = 1..(Len(packets) + 1)
         /\ packets'[Len(packets) + 1]
                = [header |-> Header(Len(packets)), from |-> pos,
                   len |-> ToCopy(Len(packets))]
         /\ UNCHANGED <<pc, data_len, encrypted_len, num_packets>>
<1> DEFINE n == Len(packets)
           p == [header |-> Header(n), from |-> pos, len |-> ToCopy(n)]
<1>1. /\ encrypted_len \in Nat /\ encrypted_len <= EncSize
      /\ pos \in Nat /\ packets \in Seq(Packet) /\ n \in Nat
  BY TypeFacts
<1>2. pos < encrypted_len /\ n < MaxPackets
  BY DEF SplitStep, MoreToSplit
<1>3. MaxPackets \in Nat /\ MaxPackets <= 127
  BY SizesAssumption
<1>4. n <= 126
  BY <1>1, <1>2, <1>3
<1>5. /\ ToCopy(n) \in Nat /\ ToCopy(n) <= encrypted_len - pos
  BY <1>1, <1>2, <1>4, ToCopyBound
<1>6. Header(n) \in Seq(Byte)
  BY <1>1, <1>4, HeaderLength
<1>7. p \in Packet
  BY <1>1, <1>5, <1>6 DEF Packet
<1>8. packets' = Append(packets, p) /\ pos' = pos + ToCopy(n)
      /\ UNCHANGED <<pc, data_len, encrypted_len, num_packets>>
  BY DEF SplitStep
<1> HIDE DEF p
<1>9. /\ packets' \in Seq(Packet) /\ Len(packets') = n + 1
      /\ packets'[n + 1] = p
      /\ \A k \in 1..n : packets'[k] = packets[k]
  BY <1>1, <1>7, <1>8, AppendProperties
<1>10. DOMAIN packets = 1..n /\ DOMAIN packets' = 1..(n + 1)
  BY <1>1, <1>9, LenProperties
<1> QED
  BY <1>1, <1>2, <1>4, <1>5, <1>8, <1>9, <1>10 DEF p

-----------------------------------------------------------------------------
(* The inductive invariant.                                                *)

\* What each stage of a request has reached.
Stage ==
    /\ pc \in {"idle", "raw"} => encrypted_len = 0 /\ packets = <<>>
    /\ pc # "done" => num_packets = 0
    /\ pc = "split" => encrypted_len > 0
    /\ pc = "done" /\ encrypted_len = 0 => num_packets = 0
    /\ pc = "done" /\ encrypted_len > 0 => ~MoreToSplit /\ num_packets = Returned

\* While a rest is left, every packet is full.
Placed ==
    /\ pos <= Offset(Len(packets))
    /\ pos < encrypted_len =>
          /\ pos = Offset(Len(packets))
          /\ \A k \in DOMAIN packets : Len(packets[k].header) + packets[k].len = MTU

\* Each packet begins where the one before it ends.
Chain ==
    /\ packets # <<>> => packets[1].from = 0
    /\ \A k \in DOMAIN packets :
          packets[k].from + packets[k].len
              = IF k < Len(packets) THEN packets[k + 1].from ELSE pos

IInv == TypeOK /\ Stage /\ Placed /\ FragmentsFit /\ Chain

LEMMA IndInit == Init => IInv
<1>1. SUFFICES ASSUME Init PROVE IInv
  OBVIOUS
<1>2. EncSize \in Nat /\ MaxPackets \in Nat
  BY SizesAssumption
<1>3. <<>> \in Seq(Packet) /\ Len(<<>>) = 0 /\ DOMAIN <<>> = {}
  OBVIOUS
<1>4. TypeOK
  BY <1>1, <1>2, <1>3 DEF Init, TypeOK
<1>5. Stage
  BY <1>1 DEF Init, Stage
<1>6. Offset(Len(packets)) = 0
  BY <1>1, <1>3 DEF Init, Offset
<1>7. Placed /\ FragmentsFit /\ Chain
  BY <1>1, <1>3, <1>6 DEF Init, Placed, FragmentsFit, Chain
<1> QED
  BY <1>4, <1>5, <1>7 DEF IInv

\* The packets and their places are judged by these variables alone.
LEMMA PacketsKept ==
  ASSUME IInv, UNCHANGED <<encrypted_len, pos, packets>>
  PROVE  (Placed /\ FragmentsFit /\ Chain)'
BY DEF IInv, Placed, FragmentsFit, Chain, Offset, FirstRoom

LEMMA BuildRawKeeps ==
  ASSUME IInv, NEW n \in Nat, BuildRaw(n)
  PROVE  IInv'
<1>1. /\ pc = "idle" /\ pc' \in {"raw", "done"} /\ data_len' = n
      /\ UNCHANGED <<encrypted_len, pos, packets, num_packets>>
  BY DEF BuildRaw
<1>2. TypeOK'
  BY <1>1 DEF IInv, TypeOK
<1>3. Stage'
  BY <1>1 DEF IInv, Stage
<1>4. (Placed /\ FragmentsFit /\ Chain)'
  BY <1>1, PacketsKept
<1> QED
  BY <1>2, <1>3, <1>4 DEF IInv

LEMMA EncryptKeeps ==
  ASSUME IInv, Encrypt
  PROVE  IInv'
<1>1. /\ pc = "raw" /\ pc' = "split"
      /\ encrypted_len' = EncLen(RawLen(data_len))
      /\ encrypted_len' <= EncSize
      /\ UNCHANGED <<data_len, pos, packets, num_packets>>
  BY DEF Encrypt
<1>2. TypeOK /\ data_len \in Nat
  BY DEF IInv, TypeOK
<1>3. encrypted_len' \in Nat /\ encrypted_len' > 0
  BY <1>1, <1>2, EncLenIsNat
<1>4. encrypted_len = 0 /\ packets = <<>> /\ num_packets = 0
  BY <1>1 DEF IInv, Stage
<1>5. pos = 0
  BY <1>2, <1>4, TypeFacts
<1>6. TypeOK'
  <2>1. EncSize \in Nat
    BY SizesAssumption
  <2>2. encrypted_len' \in 0..EncSize /\ pos' \in 0..encrypted_len'
    BY <1>1, <1>3, <1>5, <2>1
  <2> QED
    BY <1>1, <1>2, <2>2 DEF TypeOK
<1>7. Stage'
  BY <1>1, <1>3, <1>4 DEF Stage
<1>8. packets' = <<>> /\ pos' = 0 /\ Len(packets') = 0 /\ DOMAIN packets' = {}
  BY <1>1, <1>4, <1>5
<1>9. (Offset(Len(packets)))' = 0
  BY <1>8 DEF Offset
<1>10. (Placed /\ FragmentsFit /\ Chain)'
  BY <1>3, <1>8, <1>9 DEF Placed, FragmentsFit, Chain
<1> QED
  BY <1>6, <1>7, <1>10 DEF IInv

LEMMA EncryptFailsKeeps ==
  ASSUME IInv, EncryptFails
  PROVE  IInv'
<1>1. /\ pc = "raw" /\ pc' = "done"
      /\ UNCHANGED <<data_len, encrypted_len, pos, packets, num_packets>>
  BY DEF EncryptFails
<1>2. TypeOK'
  BY <1>1 DEF IInv, TypeOK
<1>3. Stage'
  BY <1>1 DEF IInv, Stage
<1>4. (Placed /\ FragmentsFit /\ Chain)'
  BY <1>1, PacketsKept
<1> QED
  BY <1>2, <1>3, <1>4 DEF IInv

LEMMA SplitEndKeeps ==
  ASSUME IInv, SplitEnd
  PROVE  IInv'
<1>1. /\ pc = "split" /\ pc' = "done" /\ ~MoreToSplit /\ num_packets' = Returned
      /\ UNCHANGED <<data_len, encrypted_len, pos, packets>>
  BY DEF SplitEnd
<1>2. Returned \in 0..MaxPackets
  <2>1. Len(packets) \in Nat /\ Len(packets) <= MaxPackets /\ MaxPackets \in Nat
    BY TypeFacts, SizesAssumption DEF IInv
  <2> QED
    BY <2>1 DEF Returned
<1>3. TypeOK'
  BY <1>1, <1>2 DEF IInv, TypeOK
<1>4. Stage'
  BY <1>1 DEF IInv, Stage, MoreToSplit, Returned
<1>5. (Placed /\ FragmentsFit /\ Chain)'
  BY <1>1, PacketsKept
<1> QED
  BY <1>3, <1>4, <1>5 DEF IInv

LEMMA SplitStepKeeps ==
  ASSUME IInv, SplitStep
  PROVE  IInv'
<1> DEFINE n == Len(packets)
<1>1. /\ n <= 126 /\ pos < encrypted_len /\ n < MaxPackets
      /\ pos' = pos + ToCopy(n)
      /\ pos' \in Nat /\ pos' <= encrypted_len
      /\ packets' \in Seq(Packet) /\ Len(packets') = n + 1
      /\ \A k \in DOMAIN packets : packets'[k] = packets[k]
      /\ DOMAIN packets = 1..n /\ DOMAIN packets' = 1..(n + 1)
      /\ packets'[n + 1] = [header |-> Header(n), from |-> pos, len |-> ToCopy(n)]
      /\ UNCHANGED <<pc, data_len, encrypted_len, num_packets>>
  BY SplitStepFacts DEF IInv
<1>2. /\ encrypted_len \in Nat /\ encrypted_len <= EncSize
      /\ pos \in Nat /\ n \in Nat /\ MaxPackets \in Nat /\ packets \in Seq(Packet)
  BY TypeFacts, SizesAssumption DEF IInv
<1>3. /\ ToCopy(n) \in Nat /\ ToCopy(n) > 0
      /\ Len(Header(n)) \in Nat /\ RoomOf(n) \in Nat
      /\ Len(Header(n)) + RoomOf(n) = MTU
      /\ ToCopy(n) <= RoomOf(n)
      /\ ToCopy(n) = RoomOf(n) \/ ToCopy(n) = encrypted_len - pos
  BY <1>1, <1>2, ToCopyBound
<1>4. /\ Offset(n) \in Nat /\ Offset(n + 1) = Offset(n) + RoomOf(n)
      /\ (Offset(Len(packets)))' = Offset(n + 1)
  BY <1>1, <1>2, OffsetNext DEF Offset, FirstRoom
<1>5. /\ pos = Offset(n)
      /\ \A k \in 1..n : Len(packets[k].header) + packets[k].len = MTU
  BY <1>1 DEF IInv, Placed
<1>6. /\ packets'[n + 1].header = Header(n)
      /\ packets'[n + 1].from = pos
      /\ packets'[n + 1].len = ToCopy(n)
  BY <1>1
<1>7. \A k \in 1..(n + 1) : k \in 1..n \/ k = n + 1
  BY <1>2
<1>8. TypeOK'
  <2>1. pos' \in 0..encrypted_len /\ Len(packets') <= MaxPackets
    BY <1>1, <1>2
  <2> QED
    BY <1>1, <2>1 DEF IInv, TypeOK
<1>9. Stage'
  <2>1. pc = "split" /\ pc' = "split"
    BY <1>1 DEF SplitStep
  <2> QED
    BY <1>1, <2>1 DEF IInv, Stage
<1>10. Placed'
  <2>1. pos' <= (Offset(Len(packets)))'
    BY <1>1, <1>2, <1>3, <1>4, <1>5
  <2>2. ASSUME pos' < encrypted_len'
        PROVE  ToCopy(n) = RoomOf(n)
    BY <1>1, <1>2, <1>3, <2>2
  <2>3. ASSUME pos' < encrypted_len'
        PROVE  pos' = (Offset(Len(packets)))'
    BY <1>1, <1>4, <1>5, <2>2, <2>3
  <2>4. ASSUME pos' < encrypted_len', NEW k \in DOMAIN packets'
        PROVE  Len(packets'[k].header) + packets'[k].len = MTU
    <3>1. CASE k \in 1..n
      BY <1>1, <1>5, <3>1
    <3>2. CASE k = n + 1
      BY <1>3, <1>6, <2>2, <2>4, <3>2
    <3> QED
      BY <1>1, <1>7, <2>4, <3>1, <3>2
  <2> QED
    BY <2>1, <2>3, <2>4 DEF Placed
<1>11. FragmentsFit'
  <2>1. ASSUME NEW k \in DOMAIN packets'
        PROVE  /\ Len(packets'[k].header) + packets'[k].len <= MTU
               /\ k < Len(packets') => Len(packets'[k].header) + packets'[k].len = MTU
    <3>1. MTU \in Nat
      BY SizesAssumption
    <3>2. CASE k \in 1..n
      BY <1>1, <1>5, <3>1, <3>2
    <3>3. CASE k = n + 1
      BY <1>1, <1>2, <1>3, <1>6, <3>1, <3>3
    <3> QED
      BY <1>1, <1>7, <2>1, <3>2, <3>3
  <2> QED
    BY <2>1 DEF FragmentsFit
<1>12. Chain'
  <2>1. packets'[1].from = 0
    <3>1. CASE n = 0
      <4>1. Offset(n) = 0
        BY <3>1 DEF Offset
      <4> QED
        BY <1>5, <1>6, <3>1, <4>1
    <3>2. CASE n # 0
      <4>1. 1 \in DOMAIN packets /\ packets # <<>>
        BY <1>1, <1>2, <3>2
      <4> QED
        BY <1>1, <4>1 DEF IInv, Chain
    <3> QED
      BY <3>1, <3>2
  <2>2. ASSUME NEW k \in DOMAIN packets'
        PROVE  packets'[k].from + packets'[k].len
                   = IF k < Len(packets') THEN packets'[k + 1].from ELSE pos'
    <3>1. ASSUME k \in 1..n
          PROVE  packets[k].from + packets[k].len
                     = IF k < n THEN packets[k + 1].from ELSE pos
      BY <1>1, <3>1 DEF IInv, Chain
    <3>2. CASE k \in 1..n /\ k < n
      <4>1. k + 1 \in 1..n /\ k < n + 1
        BY <1>2, <3>2
      <4>2. packets'[k] = packets[k] /\ packets'[k + 1] = packets[k + 1]
        BY <1>1, <3>2, <4>1
      <4> QED
        BY <1>1, <3>1, <3>2, <4>1, <4>2
    <3>3. CASE k \in 1..n /\ ~(k < n)
      <4>1. k + 1 = n + 1 /\ k < n + 1
        BY <1>2, <3>3
      <4>2. packets'[k] = packets[k]
        BY <1>1, <3>3
      <4> QED
        BY <1>1, <1>6, <3>1, <3>3, <4>1, <4>2
    <3>4. CASE k = n + 1
      <4>1. ~(k < n + 1)
        BY <1>2, <3>4
      <4> QED
        BY <1>1, <1>6, <3>4, <4>1
    <3> QED
      BY <1>1, <1>7, <2>2, <3>2, <3>3, <3>4
  <2> QED
    BY <2>1, <2>2 DEF Chain
<1> QED
  BY <1>8, <1>9, <1>10, <1>11, <1>12 DEF IInv

LEMMA IndNext == IInv /\ [Next]_vars => IInv'
<1>1. SUFFICES ASSUME IInv, [Next]_vars
               PROVE  IInv'
  OBVIOUS
<1>2. CASE BuildDeviceInfo \/ BuildPair \/ BuildSwitch
  <2>1. BuildRaw(0) \/ BuildRaw(16 + 6 + 22) \/ BuildRaw(4)
    BY <1>2 DEF BuildDeviceInfo, BuildPair, BuildSwitch
  <2>2. 16 + 6 + 22 \in Nat
    OBVIOUS
  <2> QED
    BY <1>1, <2>1, <2>2, BuildRawKeeps
<1>3. CASE BuildOther
  BY <1>1, <1>3, DataAssumption, BuildRawKeeps DEF BuildOther
<1>4. CASE Encrypt
  BY <1>1, <1>4, EncryptKeeps
<1>5. CASE EncryptFails
  BY <1>1, <1>5, EncryptFailsKeeps
<1>6. CASE SplitStep
  BY <1>1, <1>6, SplitStepKeeps
<1>7. CASE SplitEnd
  BY <1>1, <1>7, SplitEndKeeps
<1>8. CASE UNCHANGED vars
  <2>1. UNCHANGED <<pc, data_len, encrypted_len, pos, packets, num_packets>>
    BY <1>8 DEF vars
  <2>2. (TypeOK /\ Stage)'
    BY <1>1, <2>1 DEF IInv, TypeOK, Stage, MoreToSplit, Returned
  <2> QED
    BY <1>1, <2>1, <2>2, PacketsKept DEF IInv
<1> QED
  BY <1>1, <1>2, <1>3, <1>4, <1>5, <1>6, <1>7, <1>8 DEF Next

THEOREM Invariant == Spec => []IInv
<1> QED
  BY IndInit, IndNext, PTL DEF Spec

-----------------------------------------------------------------------------
(* The properties of the run.                                              *)

\* The types are right whatever the sizes and the data lengths are.
THEOREM TypeCorrect == Spec => []TypeOK
<1>1. IInv => TypeOK
  BY DEF IInv
<1> QED
  BY <1>1, Invariant, PTL

\* Of a message of any length, no packet passes its MTU bytes and only the last is
\* shorter.
THEOREM Fits == Spec => []FragmentsFit
<1>1. IInv => FragmentsFit
  BY DEF IInv
<1> QED
  BY <1>1, Invariant, PTL

\* The packets hold the message without a gap or an overlap, the whole of it when a
\* builder reports success.
THEOREM Partitioned == Spec => []Partition
<1>1. IInv => Partition
  <2>1. SUFFICES ASSUME IInv PROVE Partition
    OBVIOUS
  <2>2. ASSUME Built
        PROVE  num_packets = Len(packets) /\ pos = encrypted_len
    <3>1. pos \in Nat /\ encrypted_len \in Nat /\ pos <= encrypted_len
      BY <2>1, TypeFacts DEF IInv
    <3>2. pc = "done" /\ num_packets > 0 /\ num_packets # 0
      BY <2>1, <2>2 DEF Built, IInv, TypeOK
    <3>3. encrypted_len > 0
      BY <2>1, <3>1, <3>2 DEF IInv, Stage
    <3>4. num_packets = Returned
      BY <2>1, <3>2, <3>3 DEF IInv, Stage
    <3> QED
      BY <3>1, <3>2, <3>4 DEF Returned
  <2> QED
    BY <2>1, <2>2 DEF IInv, Chain, Partition
<1> QED
  BY <1>1, Invariant, PTL

\* A split reports failure exactly when its packets cannot hold the message.
THEOREM Refusals == Spec => []RefusesOnlyTooLong
<1>1. IInv => RefusesOnlyTooLong
  <2>1. SUFFICES ASSUME IInv, pc = "done", encrypted_len > 0
                 PROVE  num_packets = 0 <=> encrypted_len > Capacity
    BY DEF RefusesOnlyTooLong
  <2>2. /\ encrypted_len \in Nat /\ pos \in Nat /\ pos <= encrypted_len
        /\ Len(packets) \in Nat /\ Len(packets) <= MaxPackets /\ MaxPackets \in Nat
    BY <2>1, TypeFacts, SizesAssumption DEF IInv
  <2>3. ~MoreToSplit /\ num_packets = Returned
    BY <2>1 DEF IInv, Stage
  <2>4. /\ Offset(Len(packets)) \in Nat
        /\ Offset(Len(packets)) <= Capacity /\ Offset(MaxPackets) = Capacity
    BY <2>2, OffsetNext, OffsetGrows
  <2>5. /\ pos <= Offset(Len(packets))
        /\ pos < encrypted_len => pos = Offset(Len(packets))
    BY <2>1 DEF IInv, Placed
  <2>6. Offset(MaxPackets) \in Nat
    BY <2>2, OffsetNext
  <2>7. CASE pos < encrypted_len
    <3>1. Len(packets) = MaxPackets
      BY <2>2, <2>3, <2>7 DEF MoreToSplit
    <3>2. num_packets = 0
      BY <2>3, <2>7 DEF Returned
    <3> QED
      BY <2>2, <2>4, <2>5, <2>7, <3>1, <3>2
  <2>8. CASE ~(pos < encrypted_len)
    <3>1. pos = encrypted_len
      BY <2>2, <2>8
    <3>2. num_packets = Len(packets)
      BY <2>3, <2>8 DEF Returned
    <3>3. encrypted_len <= Capacity
      BY <2>2, <2>4, <2>5, <2>6, <3>1
    <3>4. Len(packets) # 0
      <4>1. Offset(0) = 0
        BY DEF Offset
      <4> QED
        BY <2>1, <2>2, <2>5, <3>1, <4>1
    <3> QED
      BY <2>2, <2>4, <2>6, <3>2, <3>3, <3>4
  <2> QED
    BY <2>7, <2>8
<1> QED
  BY <1>1, Invariant, PTL

-----------------------------------------------------------------------------
(* How many packets a message takes.                                       *)

\* What is split is the encryption of the raw packet, and no packet was begun while the
\* one before it had room.
Sized == encrypted_len > 0 => encrypted_len = EncLen(RawLen(data_len))
Fewest == packets # <<>> => Offset(Len(packets) - 1) < pos

LEMMA CountInit == Init => Sized /\ Fewest
BY DEF Init, Sized, Fewest

LEMMA CountNext == IInv /\ Sized /\ Fewest /\ [Next]_vars => (Sized /\ Fewest)'
<1>1. SUFFICES ASSUME IInv, Sized, Fewest, [Next]_vars
               PROVE  Sized' /\ Fewest'
  OBVIOUS
<1>2. ASSUME NEW n, BuildRaw(n)
      PROVE  Sized' /\ Fewest'
  <2>1. pc = "idle" /\ UNCHANGED <<encrypted_len, pos, packets>>
    BY <1>2 DEF BuildRaw
  <2>2. encrypted_len' = 0 /\ packets' = <<>>
    BY <1>1, <2>1 DEF IInv, Stage
  <2> QED
    BY <2>2 DEF Sized, Fewest
<1>3. CASE BuildDeviceInfo \/ BuildPair \/ BuildSwitch \/ BuildOther
  BY <1>2, <1>3 DEF BuildDeviceInfo, BuildPair, BuildSwitch, BuildOther
<1>4. CASE Encrypt
  <2>1. /\ pc = "raw" /\ encrypted_len' = EncLen(RawLen(data_len))
        /\ UNCHANGED <<data_len, packets>>
    BY <1>4 DEF Encrypt
  <2>2. packets' = <<>>
    BY <1>1, <2>1 DEF IInv, Stage
  <2>3. Sized'
    BY <2>1 DEF Sized
  <2> QED
    BY <2>2, <2>3 DEF Fewest
<1>5. CASE SplitStep
  <2> DEFINE n == Len(packets)
  <2>1. /\ n <= 126 /\ pos < encrypted_len /\ pos' = pos + ToCopy(n)
        /\ Len(packets') = n + 1
        /\ UNCHANGED <<data_len, encrypted_len>>
    BY <1>1, <1>5, SplitStepFacts DEF IInv
  <2>2. encrypted_len \in Nat /\ encrypted_len <= EncSize /\ pos \in Nat /\ n \in Nat
    BY <1>1, TypeFacts DEF IInv
  <2>3. ToCopy(n) \in Nat /\ ToCopy(n) > 0
    BY <2>1, <2>2, ToCopyBound
  <2>4. pos = Offset(n)
    BY <1>1, <2>1 DEF IInv, Placed
  <2>5. (Offset(Len(packets) - 1))' = Offset(n)
    <3>1. Len(packets') - 1 = n
      BY <2>1, <2>2
    <3> QED
      BY <2>1, <3>1 DEF Offset, FirstRoom
  <2>6. Fewest'
    BY <2>1, <2>2, <2>3, <2>4, <2>5 DEF Fewest
  <2>7. Sized'
    BY <1>1, <2>1 DEF Sized
  <2> QED
    BY <2>6, <2>7
<1>6. CASE EncryptFails \/ SplitEnd \/ UNCHANGED vars
  <2>1. UNCHANGED <<data_len, encrypted_len, pos, packets>>
    BY <1>6 DEF EncryptFails, SplitEnd, vars
  <2> QED
    BY <1>1, <2>1 DEF Sized, Fewest, Offset, FirstRoom
<1> QED
  BY <1>1, <1>3, <1>4, <1>5, <1>6 DEF Next

LEMMA CountInvariant == Spec => [](IInv /\ Sized /\ Fewest)
<1> QED
  BY IndInit, IndNext, CountInit, CountNext, PTL DEF Spec

\* The encrypted lengths of the firmware's own requests.
LEMMA RequestLengths ==
  EncLen(RawLen(0)) = 33 /\ EncLen(RawLen(44)) = 81 /\ EncLen(RawLen(4)) = 49
<1>1. (14 + 15) \div 16 = 1 /\ (58 + 15) \div 16 = 4 /\ (18 + 15) \div 16 = 2
  OBVIOUS
<1>2. RawLen(0) = 14 /\ RawLen(44) = 58 /\ RawLen(4) = 18
  BY DEF RawLen
<1>3. Padded(14) = 16 /\ Padded(58) = 64 /\ Padded(18) = 32
  BY <1>1 DEF Padded
<1> QED
  BY <1>2, <1>3 DEF EncLen

\* With the MTU of the firmware and room for five packets every request it makes is
\* split, into as many packets as CommandChannel sends.
THEOREM OwnRequests ==
  ASSUME MTU = 20, MaxPackets >= 5
  PROVE  Spec => []RequestsFit
<1>1. IInv /\ Sized /\ Fewest => RequestsFit
  <2>1. SUFFICES ASSUME IInv, Sized, Fewest, pc = "done", encrypted_len > 0,
                        data_len \in {0, 44, 4}
                 PROVE  /\ data_len = 0 => num_packets = 2
                        /\ data_len = 44 => num_packets = 5
                        /\ data_len = 4 => num_packets = 3
    BY DEF RequestsFit
  <2>2. /\ pos \in Nat /\ encrypted_len \in Nat /\ pos <= encrypted_len
        /\ Len(packets) \in Nat /\ Len(packets) <= MaxPackets /\ MaxPackets \in Nat
    BY <2>1, TypeFacts, SizesAssumption DEF IInv
  <2>3. /\ data_len = 0 => encrypted_len = 33
        /\ data_len = 44 => encrypted_len = 81
        /\ data_len = 4 => encrypted_len = 49
    BY <2>1, RequestLengths DEF Sized
  <2>4. FirstRoom = 17
    BY <2>1, <2>3 DEF FirstRoom
  <2>5. \A n \in Nat : n # 0 => Offset(n) = 17 + (n - 1) * 19
    BY <2>4 DEF Offset
  <2>6. Offset(0) = 0
    BY DEF Offset
  <2>7. ~MoreToSplit /\ num_packets = Returned
    BY <2>1 DEF IInv, Stage
  <2>8. /\ pos <= Offset(Len(packets))
        /\ pos < encrypted_len => pos = Offset(Len(packets))
    BY <2>1 DEF IInv, Placed
  <2>9. pos = encrypted_len
    <3>1. SUFFICES ASSUME pos < encrypted_len PROVE FALSE
      BY <2>2
    <3>2. Len(packets) = MaxPackets
      BY <2>2, <2>7, <3>1 DEF MoreToSplit
    <3>3. pos = 17 + (MaxPackets - 1) * 19
      BY <2>2, <2>5, <2>8, <3>1, <3>2
    <3>4. pos >= 93
      BY <2>2, <3>3
    <3> QED
      BY <2>1, <2>2, <2>3, <3>1, <3>4
  <2>10. num_packets = Len(packets)
    BY <2>2, <2>7, <2>9 DEF Returned
  <2>11. Len(packets) # 0
    BY <2>1, <2>2, <2>6, <2>8, <2>9
  <2>12. Offset(Len(packets) - 1) < pos
    <3>1. packets # <<>>
      <4>1. Len(<<>>) = 0
        OBVIOUS
      <4> QED
        BY <2>11, <4>1
    <3> QED
      BY <2>1, <3>1 DEF Fewest
  <2> DEFINE l == Len(packets)
  <2>13. /\ l # 1 => Offset(l - 1) = 17 + ((l - 1) - 1) * 19
         /\ Offset(l) = 17 + (l - 1) * 19
    <3>1. l \in Nat /\ l # 0
      BY <2>2, <2>11
    <3> HIDE DEF l
    <3>2. l # 1 => l - 1 \in Nat /\ l - 1 # 0
      BY <3>1
    <3> QED
      BY <2>5, <3>1, <3>2
  <2>14. /\ l \in Nat /\ l >= 1 /\ pos <= 17 + (l - 1) * 19
         /\ l # 1 => 17 + ((l - 1) - 1) * 19 < pos
    BY <2>2, <2>8, <2>11, <2>12, <2>13
  <2> HIDE DEF l
  <2>15. (pos = 33 => l = 2) /\ (pos = 81 => l = 5) /\ (pos = 49 => l = 3)
    BY <2>14
  <2> QED
    BY <2>3, <2>9, <2>10, <2>15 DEF l
<1> QED
  BY <1>1, CountInvariant, PTL

-----------------------------------------------------------------------------
(* Reading a varint: the recursion of the parser has a solution, and what   *)
(* that is where a varint is one byte long, or two.                        *)

LEMMA LeastOf ==
  ASSUME NEW S \in SUBSET Nat, S # {}
  PROVE  \E m \in S : \A k \in S : m <= k
<1> DEFINE R == {ss \in Nat \X Nat : ss[1] < ss[2]}
<1>1. IsWellFoundedOn(R, Nat)
  BY NatLessThanWellFounded DEF OpToRel
<1>2. S \subseteq Nat
  OBVIOUS
<1> HIDE DEF R
<1>3. \E m \in S : \A k \in S : ~(<<k, m>> \in R)
  BY <1>1, <1>2, WFMin
<1>4. PICK m \in S : \A k \in S : ~(<<k, m>> \in R)
  BY <1>3
<1>5. \A k \in S : ~(k < m)
  BY <1>4 DEF R
<1> QED
  BY <1>5

\* One step of ReadVarint at place i, f being what is read at the places after it.
ReadStep(value, f, i) ==
    IF value[i] < 128 \/ i = Len(value)
    THEN [val |-> value[i] % 128, last |-> i]
    ELSE [val |-> (value[i] % 128) + 128 * f[i + 1].val, last |-> f[i + 1].last]

\* The step looks at f one place further on only.
LEMMA StepLooksAhead ==
  ASSUME NEW value, NEW f, NEW g, NEW i, i = Len(value) \/ f[i + 1] = g[i + 1]
  PROVE  ReadStep(value, f, i) = ReadStep(value, g, i)
<1>1. CASE i = Len(value)
  BY <1>1 DEF ReadStep
<1>2. CASE f[i + 1] = g[i + 1]
  BY <1>2 DEF ReadStep
<1> QED
  BY <1>1, <1>2

\* The recursion of ReadVarint has a solution: it runs towards the end of the value.
LEMMA ReadExists ==
  ASSUME NEW value, Len(value) \in Nat
  PROVE  \E f : f = [i \in 1..Len(value) |-> ReadStep(value, f, i)]
<1> DEFINE m == Len(value)
           Places(n) == {i \in 1..m : i > m - n}
           Works(n) == \E f : f = [i \in Places(n) |-> ReadStep(value, f, i)]
           S == {n \in 0..m : ~Works(n)}
<1>0. m \in Nat
  OBVIOUS
<1>1. Works(0)
  <2>1. Places(0) = {}
    BY <1>0
  <2> DEFINE f0 == [i \in {} |-> 0]
  <2>2. f0 = [i \in {} |-> ReadStep(value, f0, i)]
    BY Zenon
  <2> QED
    BY <2>1, <2>2, Zenon
<1>2. ASSUME NEW n \in Nat, n < m, Works(n)
      PROVE  Works(n + 1)
  <2>1. PICK f : f = [i \in Places(n) |-> ReadStep(value, f, i)]
    BY <1>2
  <2> DEFINE g == [i \in Places(n + 1) |->
                       IF i = m - n THEN ReadStep(value, f, i) ELSE f[i]]
  <2>2. \A i \in Places(n + 1) : i = m - n \/ i \in Places(n)
    BY <1>0, <1>2
  <2>3. \A i \in Places(n) : i # m - n /\ i \in Places(n + 1)
    BY <1>0, <1>2
  <2>4. \A i \in Places(n + 1) : i = m \/ i + 1 \in Places(n)
    BY <1>0, <1>2
  <2>5. \A i \in Places(n) : f[i] = ReadStep(value, f, i)
    <3> HIDE DEF Places
    <3> QED
      BY <2>1, Zenon
  <2> HIDE DEF Places, m
  <2>6. \A i \in Places(n + 1) : i = m \/ f[i + 1] = g[i + 1]
    BY <2>3, <2>4
  <2>7. ASSUME NEW i \in Places(n + 1)
        PROVE  g[i] = ReadStep(value, g, i)
    <3>1. ReadStep(value, f, i) = ReadStep(value, g, i)
      <4> HIDE DEF g
      <4> QED
        BY <2>6, StepLooksAhead DEF m
    <3>2. g[i] = ReadStep(value, f, i)
      BY <2>2, <2>5
    <3> QED
      BY <3>1, <3>2
  <2>8. g = [i \in Places(n + 1) |-> g[i]]
    OBVIOUS
  <2> HIDE DEF g
  <2>9. g = [i \in Places(n + 1) |-> ReadStep(value, g, i)]
    BY <2>7, <2>8
  <2> QED
    BY <2>9
<1> HIDE DEF Works, m
<1>3. S = {}
  <2>1. SUFFICES ASSUME S # {} PROVE FALSE
    OBVIOUS
  <2>2. S \in SUBSET Nat
    BY <1>0
  <2>3. PICK k \in S : \A j \in S : k <= j
    BY <2>1, <2>2, LeastOf
  <2>4. k # 0 /\ k \in Nat /\ k <= m /\ ~Works(k)
    BY <1>0, <1>1, <2>3
  <2>5. k - 1 \in 0..m /\ k - 1 < m /\ (k - 1) + 1 = k /\ ~(k <= k - 1)
    BY <1>0, <2>4
  <2>6. Works(k - 1)
    BY <2>3, <2>5
  <2>7. Works((k - 1) + 1)
    BY <1>2, <2>5, <2>6
  <2> QED
    BY <2>4, <2>5, <2>7
<1>4. Works(m)
  BY <1>0, <1>3
<1>5. Places(m) = 1..m
  BY <1>0
<1> HIDE DEF Places
<1> QED
  BY <1>4, <1>5 DEF Works, m

\* What is read where the varint is one byte, or two.
LEMMA ReadIs ==
  ASSUME NEW value, Len(value) \in Nat, NEW from \in Nat, from < Len(value)
  PROVE  /\ value[from + 1] < 128 =>
                ReadVarint(value, from) = [val |-> value[from + 1] % 128, last |-> from + 1]
         /\ ~(value[from + 1] < 128) /\ from + 2 <= Len(value) /\ value[from + 2] < 128 =>
                ReadVarint(value, from)
                    = [val |-> (value[from + 1] % 128) + 128 * (value[from + 2] % 128),
                       last |-> from + 2]
<1> DEFINE read == CHOOSE f : f = [i \in 1..Len(value) |-> ReadStep(value, f, i)]
<1>1. ReadVarint(value, from) = read[from + 1]
  BY DEF ReadVarint, ReadStep
<1>2. read = [i \in 1..Len(value) |-> ReadStep(value, read, i)]
  BY ReadExists, Zenon
<1> HIDE DEF read
<1>3. \A i \in 1..Len(value) : read[i] = ReadStep(value, read, i)
  BY <1>2, Zenon
<1>4. read[from + 1] = ReadStep(value, read, from + 1)
  BY <1>3
<1>5. ASSUME value[from + 1] < 128
      PROVE  ReadVarint(value, from) = [val |-> value[from + 1] % 128, last |-> from + 1]
  BY <1>1, <1>4, <1>5 DEF ReadStep
<1>6. ASSUME ~(value[from + 1] < 128), from + 2 <= Len(value), value[from + 2] < 128
      PROVE  ReadVarint(value, from)
                 = [val |-> (value[from + 1] % 128) + 128 * (value[from + 2] % 128),
                    last |-> from + 2]
  <2>1. from + 1 # Len(value) /\ (from + 1) + 1 = from + 2 /\ from + 2 \in 1..Len(value)
    BY <1>6
  <2>2. read[from + 2] = [val |-> value[from + 2] % 128, last |-> from + 2]
    <3>1. read[from + 2] = ReadStep(value, read, from + 2)
      BY <1>3, <2>1
    <3> QED
      BY <1>6, <3>1 DEF ReadStep
  <2>3. read[from + 1] = [val |-> (value[from + 1] % 128) + 128 * read[from + 2].val,
                          last |-> read[from + 2].last]
    BY <1>4, <1>6, <2>1 DEF ReadStep
  <2> QED
    BY <1>1, <2>2, <2>3
<1> QED
  BY <1>5, <1>6

\* The same with the values that are read.
LEMMA ReadOne ==
  ASSUME NEW value, Len(value) \in Nat, NEW from \in Nat, from < Len(value),
         NEW v \in 0..127, value[from + 1] = v
  PROVE  ReadVarint(value, from) = [val |-> v, last |-> from + 1]
<1>1. v < 128 /\ v % 128 = v
  OBVIOUS
<1>2. ReadVarint(value, from) = [val |-> value[from + 1] % 128, last |-> from + 1]
  <2>1. value[from + 1] < 128
    BY <1>1
  <2> QED
    BY <2>1, ReadIs
<1> QED
  BY <1>1, <1>2

\* v written to the base 128.
TwoDigits(v, low, high) == low \in 0..127 /\ high \in 0..127 /\ v = low + 128 * high

LEMMA ReadTwo ==
  ASSUME NEW value, Len(value) \in Nat, NEW from \in Nat, from + 2 <= Len(value),
         NEW low, NEW high, NEW v, TwoDigits(v, low, high),
         value[from + 1] = 128 + low, value[from + 2] = high
  PROVE  ReadVarint(value, from) = [val |-> v, last |-> from + 2]
<1>0. low \in 0..127 /\ high \in 0..127 /\ v = low + 128 * high
  BY DEF TwoDigits
<1>1. ~(128 + low < 128) /\ (128 + low) % 128 = low /\ high < 128 /\ high % 128 = high
  BY <1>0
<1>2. ReadVarint(value, from)
          = [val |-> (value[from + 1] % 128) + 128 * (value[from + 2] % 128),
             last |-> from + 2]
  <2>1. ~(value[from + 1] < 128) /\ value[from + 2] < 128 /\ from < Len(value)
    BY <1>1
  <2> QED
    BY <2>1, ReadIs
<1> QED
  BY <1>0, <1>1, <1>2

\* Bytes n + 1 to n + len of the message.
Section(n, len) == [i \in 1..len |-> 256 + n + i]

LEMMA SectionIs ==
  ASSUME NEW n \in Nat, NEW len \in Nat
  PROVE  /\ Section(n, len) \in Seq(Nat) /\ Len(Section(n, len)) = len
         /\ \A i \in 1..len : Section(n, len)[i] = 256 + n + i
<1>1. \A i \in 1..len : 256 + n + i \in Nat
  OBVIOUS
<1>2. Section(n, len) \in [1..len -> Nat]
  BY <1>1 DEF Section
<1>3. Section(n, len) \in Seq(Nat)
  BY <1>2, SeqDef
<1>4. DOMAIN Section(n, len) = 1..len
  BY <1>2
<1>5. Len(Section(n, len)) = len
  BY <1>3, <1>4, LenProperties
<1> QED
  BY <1>3, <1>5 DEF Section

\* The bytes after a header.
LEMMA AfterHeader ==
  ASSUME NEW h \in Seq(Nat), NEW d \in Seq(Nat)
  PROVE  /\ Len(h \o d) \in Nat /\ Len(h \o d) = Len(h) + Len(d)
         /\ \A i \in 1..Len(h) : (h \o d)[i] = h[i]
         /\ SubSeq(h \o d, Len(h) + 1, Len(h \o d)) = d
<1> DEFINE b == h \o d  m == Len(h) + 1  n == Len(h \o d)  s == SubSeq(b, m, n)
<1>1. Len(h) \in Nat /\ Len(d) \in Nat
  BY LenProperties
<1>2. /\ b \in Seq(Nat) /\ Len(b) = Len(h) + Len(d)
      /\ \A i \in 1..(Len(h) + Len(d)) :
             b[i] = IF i <= Len(h) THEN h[i] ELSE d[i - Len(h)]
  BY ConcatProperties
<1>3. /\ m \in Int /\ n \in Int /\ n - m + 1 = Len(d) /\ n = Len(b)
      /\ (IF m <= n THEN n - m + 1 ELSE 0) = Len(d)
      /\ \A i \in Int : m + i - 1 = Len(h) + i
      /\ \A i \in m..n : i \in 1..Len(b)
  BY <1>1, <1>2
<1> HIDE DEF m, n, b
<1>4. \A i \in m..n : b[i] \in Nat
  BY <1>2, <1>3, ElementOfSeq
<1>5. /\ s \in Seq(Nat) /\ Len(s) = Len(d)
      /\ \A i \in 1..Len(d) : s[i] = b[m + i - 1]
  BY <1>3, <1>4, SubSeqProperties
<1> HIDE DEF s
<1>6. ASSUME NEW i \in 1..Len(d)
      PROVE  s[i] = d[i]
  <2>1. /\ Len(h) + i \in 1..(Len(h) + Len(d)) /\ ~(Len(h) + i <= Len(h))
        /\ (Len(h) + i) - Len(h) = i /\ i \in Int
    BY <1>1
  <2>2. b[Len(h) + i] = d[(Len(h) + i) - Len(h)]
    BY <1>2, <2>1
  <2> QED
    BY <1>3, <1>5, <2>1, <2>2
<1>7. s = d
  BY <1>5, <1>6, SeqEqual
<1>8. \A i \in 1..Len(h) : b[i] = h[i]
  BY <1>1, <1>2
<1> QED
  BY <1>1, <1>2, <1>3, <1>7, <1>8 DEF b, s, m, n

LEMMA BytesAre ==
  ASSUME NEW p \in Packet
  PROVE  /\ p.len \in Nat /\ Len(p.header) \in Nat
         /\ Len(Bytes(p)) \in Nat /\ Len(Bytes(p)) = Len(p.header) + p.len
         /\ \A i \in 1..Len(p.header) : Bytes(p)[i] = p.header[i]
         /\ SubSeq(Bytes(p), Len(p.header) + 1, Len(Bytes(p))) = Section(p.from, p.len)
<1> DEFINE h == p.header  d == Section(p.from, p.len)
<1>1. h \in Seq(Byte) /\ p.len \in Nat /\ p.from \in Nat
  BY DEF Packet
<1>2. Byte \subseteq Nat
  BY DEF Byte
<1>3. h \in Seq(Nat) /\ Len(h) \in Nat
  BY <1>1, <1>2, SeqMonotonic, LenProperties
<1>4. Bytes(p) = h \o d
  BY DEF Bytes, Section
<1>5. d \in Seq(Nat) /\ Len(d) = p.len
  <2> DEFINE n == p.from  len == p.len
  <2>1. n \in Nat /\ len \in Nat /\ d = Section(n, len)
    BY <1>1
  <2> HIDE DEF n, len, d
  <2>2. d \in Seq(Nat) /\ Len(d) = len
    BY <2>1, SectionIs
  <2> QED
    BY <2>2 DEF len
<1> HIDE DEF h, d
<1>6. /\ Len(h \o d) \in Nat /\ Len(h \o d) = Len(h) + Len(d)
      /\ \A i \in 1..Len(h) : (h \o d)[i] = h[i]
      /\ SubSeq(h \o d, Len(h) + 1, Len(h \o d)) = d
  BY <1>3, <1>5, AfterHeader
<1> QED
  BY <1>1, <1>3, <1>4, <1>5, <1>6 DEF h, d

\* The parser reads in a packet after the first its number and the data.
LEMMA ParseLater ==
  ASSUME NEW p \in Packet, NEW k \in 1..127, p.header = <<k>>
  PROVE  Parse(p).num = k /\ Parse(p).data = Section(p.from, p.len)
<1> DEFINE h == p.header  b == Bytes(p)
<1>1. Len(h) = 1 /\ h[1] = k
  OBVIOUS
<1>2. /\ p.len \in Nat /\ Len(b) \in Nat /\ Len(b) = Len(h) + p.len
      /\ \A i \in 1..Len(h) : b[i] = h[i]
      /\ SubSeq(b, Len(h) + 1, Len(b)) = Section(p.from, p.len)
  BY BytesAre
<1> HIDE DEF h, b
<1> DEFINE num == ReadVarint(b, 0)
<1>3. num = [val |-> k, last |-> 1]
  <2>1. 0 < Len(b) /\ 0 + 1 = 1 /\ k \in 0..127 /\ b[0 + 1] = k
    BY <1>1, <1>2
  <2>2. num = [val |-> k, last |-> 0 + 1]
    BY <1>2, <2>1, ReadOne
  <2> QED
    BY <2>1, <2>2
<1>4. num.val > 0 /\ num.val # 0 /\ num.val = k /\ num.last = 1
  BY <1>3
<1> HIDE DEF num
<1>5. Parse(p).num = num.val /\ Parse(p).data = SubSeq(b, num.last + 0 + 1, Len(b))
  BY <1>4 DEF Parse, num, b
<1>6. num.last + 0 + 1 = Len(h) + 1
  BY <1>1, <1>4
<1> QED
  BY <1>2, <1>4, <1>5, <1>6

\* The header of a packet, as the lemmas below are applied to it.
HasHeader(p, h) == p.header = h
ShortHeader(h, v) == Len(h) = 3 /\ h[1] = 0 /\ h[2] = v
LongHeader(h, low, high) ==
    Len(h) = 4 /\ h[1] = 0 /\ h[2] = 128 + low /\ h[3] = high

\* And in the first its number, the length of the message and the data, behind a header
\* of either length that ends with the version.
LEMMA ParseBehind ==
  ASSUME NEW p \in Packet, NEW v, NEW h, HasHeader(p, h), NEW l \in {3, 4}, Len(h) = l,
         h[1] = 0, ReadVarint(Bytes(p), 1) = [val |-> v, last |-> l - 1]
  PROVE  /\ Parse(p).num = 0 /\ Parse(p).total = v
         /\ Parse(p).data = Section(p.from, p.len)
<1> DEFINE b == Bytes(p)
<1>1. ReadVarint(b, 1) = [val |-> v, last |-> l - 1]
  OBVIOUS
<1>2. /\ p.len \in Nat /\ Len(b) \in Nat /\ Len(b) = l + p.len
      /\ \A i \in 1..l : b[i] = h[i]
      /\ SubSeq(b, l + 1, Len(b)) = Section(p.from, p.len)
  BY BytesAre, Zenon DEF HasHeader
<1> HIDE DEF b
<1> DEFINE num == ReadVarint(b, 0)  total == ReadVarint(b, num.last)
<1>3. num = [val |-> 0, last |-> 1]
  <2>1. 0 < Len(b) /\ 0 + 1 = 1 /\ 0 \in 0..127
    <3>1. l \in Nat /\ l >= 3
      OBVIOUS
    <3> DEFINE n == Len(b)  len == p.len
    <3>2. n \in Nat /\ len \in Nat /\ n = l + len
      BY <1>2
    <3> HIDE DEF n, len
    <3>3. 0 < n
      BY <3>1, <3>2
    <3> QED
      BY <3>3 DEF n
  <2>2. 1 \in 1..l
    OBVIOUS
  <2>3. b[0 + 1] = 0
    BY <1>2, <2>1, <2>2, Zenon
  <2>4. num = [val |-> 0, last |-> 0 + 1]
    BY <1>2, <2>1, <2>3, ReadOne, Zenon
  <2> QED
    BY <2>1, <2>4
<1>4. ~(num.val > 0) /\ num.val = 0 /\ num.last = 1
  BY <1>3
<1> HIDE DEF num
<1>5. total = [val |-> v, last |-> l - 1]
  BY <1>1, <1>4
<1>6. total.val = v /\ total.last < Len(b) /\ total.last + 1 + 1 = l + 1
  BY <1>2, <1>5
<1> HIDE DEF total
<1>7. /\ Parse(p).num = num.val /\ Parse(p).total = total.val
      /\ Parse(p).data = SubSeq(b, total.last + 1 + 1, Len(b))
  BY <1>4, <1>6 DEF Parse, num, total, b
<1> QED
  BY <1>2, <1>4, <1>6, <1>7

\* The length announced is one byte, or two.
LEMMA ParseShort ==
  ASSUME NEW p \in Packet, NEW v \in 0..127, NEW h, HasHeader(p, h), ShortHeader(h, v)
  PROVE  /\ Parse(p).num = 0 /\ Parse(p).total = v
         /\ Parse(p).data = Section(p.from, p.len)
<1> DEFINE b == Bytes(p)
<1>1. /\ p.len \in Nat /\ Len(b) \in Nat /\ Len(b) = 3 + p.len
      /\ \A i \in 1..3 : b[i] = h[i]
  BY BytesAre, Zenon DEF HasHeader, ShortHeader
<1> HIDE DEF b
<1>2. 1 < Len(b) /\ 1 + 1 = 3 - 1 /\ 2 \in 1..3 /\ 1 + 1 = 2 /\ 1 \in Nat
  BY <1>1
<1>3. b[1 + 1] = v
  BY <1>1, <1>2, Zenon DEF ShortHeader
<1>4. ReadVarint(b, 1) = [val |-> v, last |-> 1 + 1]
  BY <1>1, <1>2, <1>3, ReadOne, Zenon
<1>5. ReadVarint(b, 1) = [val |-> v, last |-> 3 - 1] /\ 3 \in {3, 4}
  BY <1>2, <1>4
<1> QED
  BY <1>5, ParseBehind DEF b, ShortHeader

LEMMA ParseLong ==
  ASSUME NEW p \in Packet, NEW low, NEW high, NEW v, NEW h,
         HasHeader(p, h), LongHeader(h, low, high), TwoDigits(v, low, high)
  PROVE  /\ Parse(p).num = 0 /\ Parse(p).total = v
         /\ Parse(p).data = Section(p.from, p.len)
<1> DEFINE b == Bytes(p)
<1>1. /\ p.len \in Nat /\ Len(b) \in Nat /\ Len(b) = 4 + p.len
      /\ \A i \in 1..4 : b[i] = h[i]
  BY BytesAre, Zenon DEF HasHeader, LongHeader
<1> HIDE DEF b
<1>2. /\ 1 + 2 <= Len(b) /\ 1 + 2 = 4 - 1 /\ 2 \in 1..4 /\ 3 \in 1..4
      /\ 1 + 1 = 2 /\ 1 + 2 = 3 /\ 1 \in Nat
  BY <1>1
<1>3. b[1 + 1] = 128 + low /\ b[1 + 2] = high
  BY <1>1, <1>2, Zenon DEF LongHeader
<1>4. ReadVarint(b, 1) = [val |-> v, last |-> 1 + 2]
  <2> DEFINE from == 1
  <2>1. /\ Len(b) \in Nat /\ from \in Nat /\ from + 2 <= Len(b)
        /\ b[from + 1] = 128 + low /\ b[from + 2] = high
    BY <1>1, <1>2, <1>3
  <2> HIDE DEF from
  <2>2. ReadVarint(b, from) = [val |-> v, last |-> from + 2]
    BY <2>1, ReadTwo
  <2> QED
    BY <2>2 DEF from
<1>5. ReadVarint(b, 1) = [val |-> v, last |-> 4 - 1] /\ 4 \in {3, 4}
  BY <1>2, <1>4
<1> QED
  BY <1>5, ParseBehind DEF b, LongHeader

LEMMA Prefixed ==
  ASSUME NEW a \in Seq(Nat), Len(a) = 1, NEW t \in Seq(Nat)
  PROVE  /\ Len(a \o t) = 1 + Len(t)
         /\ \A i \in 1..(1 + Len(t)) : (a \o t)[i] = IF i <= 1 THEN a[i] ELSE t[i - 1]
BY ConcatProperties

LEMMA Suffixed ==
  ASSUME NEW m \in Seq(Nat), NEW e \in Seq(Nat), Len(e) = 1
  PROVE  /\ m \o e \in Seq(Nat) /\ Len(m \o e) = Len(m) + 1
         /\ \A i \in 1..(Len(m) + 1) :
                (m \o e)[i] = IF i <= Len(m) THEN m[i] ELSE e[i - Len(m)]
<1>1. /\ m \o e \in Seq(Nat) /\ Len(m \o e) = Len(m) + Len(e)
      /\ \A i \in 1..(Len(m) + Len(e)) :
             (m \o e)[i] = IF i <= Len(m) THEN m[i] ELSE e[i - Len(m)]
  BY ConcatProperties, Zenon
<1> QED
  BY <1>1, Zenon

\* The first header of a message of v bytes.
FirstOf(v) == PackVarint(0) \o (PackVarint(v) \o <<48>>)

LEMMA FirstHeader ==
  ASSUME NEW v \in Nat, v <= 16383
  PROVE  /\ FirstOf(v)[1] = 0
         /\ v < 128 => Len(FirstOf(v)) = 3 /\ FirstOf(v)[2] = v
         /\ ~(v < 128) => /\ Len(FirstOf(v)) = 4
                          /\ FirstOf(v)[2] = 128 + (v % 128)
                          /\ FirstOf(v)[3] = v \div 128
<1> DEFINE a == PackVarint(0)  m == PackVarint(v)  e == <<48>>  t == m \o e
           h == a \o t
<1>1. a \in Seq(Nat) /\ Len(a) = 1 /\ a[1] = 0
  <2>1. a = <<0>>
    BY DEF PackVarint
  <2> HIDE DEF a
  <2> QED
    BY <2>1
<1>2. e \in Seq(Nat) /\ Len(e) = 1
  OBVIOUS
<1>3. /\ m \in Seq(Nat)
      /\ v < 128 => Len(m) = 1 /\ m[1] = v
      /\ ~(v < 128) => Len(m) = 2 /\ m[1] = 128 + (v % 128) /\ m[2] = v \div 128
  <2>1. CASE v < 128
    <3>1. m = <<v>>
      BY <2>1 DEF PackVarint
    <3> QED
      BY <2>1, <3>1
  <2>2. CASE ~(v < 128)
    <3> DEFINE first == 128 + (v % 128)  second == v \div 128
    <3>1. m = <<first, second>>
      BY <2>2 DEF PackVarint
    <3>2. first \in Nat /\ second \in Nat
      OBVIOUS
    <3> HIDE DEF first, second, m
    <3>3. m \in Seq(Nat) /\ Len(m) = 2 /\ m[1] = first /\ m[2] = second
      BY <3>1, <3>2
    <3> QED
      BY <2>2, <3>3 DEF first, second
  <2> QED
    BY <2>1, <2>2
<1> HIDE DEF a, m, e
<1>4. /\ t \in Seq(Nat) /\ Len(t) = Len(m) + 1
      /\ \A i \in 1..(Len(m) + 1) : t[i] = IF i <= Len(m) THEN m[i] ELSE e[i - Len(m)]
  BY <1>2, <1>3, Suffixed
<1> HIDE DEF t
<1>5. /\ Len(h) = 1 + Len(t)
      /\ \A i \in 1..(1 + Len(t)) : h[i] = IF i <= 1 THEN a[i] ELSE t[i - 1]
  BY <1>1, <1>4, Prefixed
<1> HIDE DEF h
<1>6. h[1] = 0
  <2>1. Len(t) \in Nat
    BY <1>4, LenProperties
  <2>2. 1 \in 1..(1 + Len(t))
    BY <2>1
  <2> QED
    BY <1>1, <1>5, <2>2
<1>7. ASSUME v < 128
      PROVE  Len(h) = 3 /\ h[2] = v
  <2>1. Len(m) = 1 /\ m[1] = v
    BY <1>3, <1>7
  <2>2. Len(t) = 2 /\ t[1] = m[1]
    BY <1>4, <2>1
  <2>3. h[2] = t[2 - 1] /\ 2 - 1 = 1
    BY <1>5, <2>2
  <2> QED
    BY <1>5, <2>1, <2>2, <2>3
<1>8. ASSUME ~(v < 128)
      PROVE  Len(h) = 4 /\ h[2] = m[1] /\ h[3] = m[2]
  <2>1. Len(m) = 2
    BY <1>3, <1>8
  <2>2. Len(t) = 3 /\ t[1] = m[1] /\ t[2] = m[2]
    BY <1>4, <2>1
  <2>3. h[2] = t[2 - 1] /\ 2 - 1 = 1 /\ h[3] = t[3 - 1] /\ 3 - 1 = 2
    BY <1>5, <2>2
  <2> QED
    BY <1>5, <2>2, <2>3
<1> QED
  <2>1. FirstOf(v) = h
    BY DEF FirstOf, a, m, e, t, h
  <2> QED
    BY <1>3, <1>6, <1>7, <1>8, <2>1 DEF m

\* The parser reads in the first packet its number, the length of the message and the
\* data.
LEMMA ParseFirst ==
  ASSUME NEW p \in Packet, NEW v \in Nat, v <= 16383, HasHeader(p, FirstOf(v))
  PROVE  /\ Parse(p).num = 0 /\ Parse(p).total = v
         /\ Parse(p).data = Section(p.from, p.len)
<1> DEFINE h == FirstOf(v)
<1>1. /\ h[1] = 0
      /\ v < 128 => Len(h) = 3 /\ h[2] = v
      /\ ~(v < 128) => Len(h) = 4 /\ h[2] = 128 + (v % 128) /\ h[3] = v \div 128
  BY FirstHeader
<1>2. HasHeader(p, h)
  OBVIOUS
<1> HIDE DEF h
<1>3. CASE v < 128
  <2>1. v \in 0..127
    BY <1>3
  <2>2. ShortHeader(h, v)
    BY <1>1, <1>3 DEF ShortHeader
  <2> QED
    BY <1>2, <2>1, <2>2, ParseShort
<1>4. CASE ~(v < 128)
  <2> DEFINE low == v % 128  high == v \div 128
  <2>1. TwoDigits(v, low, high)
    BY DEF TwoDigits
  <2>2. LongHeader(h, low, high)
    BY <1>1, <1>4 DEF LongHeader
  <2> HIDE DEF low, high
  <2> QED
    BY <1>2, <2>1, <2>2, ParseLong
<1> QED
  BY <1>3, <1>4

-----------------------------------------------------------------------------
(* The message put together again.                                         *)

LEMMA SectionsJoin ==
  ASSUME NEW n \in Nat, NEW len \in Nat
  PROVE  Section(0, n) \o Section(n, len) = Section(0, n + len)
<1> DEFINE a == Section(0, n)  b == Section(n, len)  c == Section(0, n + len)
<1>1. a \in Seq(Nat) /\ Len(a) = n /\ \A i \in 1..n : a[i] = 256 + 0 + i
  BY SectionIs
<1>2. b \in Seq(Nat) /\ Len(b) = len /\ \A i \in 1..len : b[i] = 256 + n + i
  BY SectionIs
<1>3. n + len \in Nat
  OBVIOUS
<1>4. /\ c \in Seq(Nat) /\ Len(c) = n + len
      /\ \A i \in 1..(n + len) : c[i] = 256 + 0 + i
  BY <1>3, SectionIs
<1> HIDE DEF a, b, c
<1>5. /\ a \o b \in Seq(Nat) /\ Len(a \o b) = n + len
      /\ \A i \in 1..(n + len) : (a \o b)[i] = IF i <= n THEN a[i] ELSE b[i - n]
  <2>1. /\ a \o b \in Seq(Nat) /\ Len(a \o b) = Len(a) + Len(b)
        /\ \A i \in 1..(Len(a) + Len(b)) :
               (a \o b)[i] = IF i <= Len(a) THEN a[i] ELSE b[i - Len(a)]
    <3>1. a \in Seq(Nat) /\ b \in Seq(Nat)
      BY <1>1, <1>2
    <3> QED
      BY <3>1, ConcatProperties
  <2> QED
    BY <1>1, <1>2, <2>1
<1>6. ASSUME NEW i \in 1..(n + len)
      PROVE  (a \o b)[i] = c[i]
  <2>1. CASE i <= n
    BY <1>1, <1>4, <1>5, <2>1
  <2>2. CASE ~(i <= n)
    <3>1. i - n \in 1..len /\ 256 + n + (i - n) = 256 + 0 + i
      BY <2>2
    <3>2. b[i - n] = 256 + n + (i - n)
      BY <1>2, <3>1
    <3> QED
      BY <1>4, <1>5, <2>2, <3>1, <3>2
  <2> QED
    BY <2>1, <2>2
<1>7. a \o b = c
  <2>1. Len(a \o b) = Len(c) /\ \A i \in 1..Len(a \o b) : (a \o b)[i] = c[i]
    BY <1>4, <1>5, <1>6
  <2> QED
    BY <1>4, <1>5, <2>1, SeqEqual
<1> QED
  BY <1>7 DEF a, b, c

\* The data of packets that lie end to end, packet k from byte e[k - 1] to byte e[k].
\* The recursion has a solution, the sections from the first byte on, and no other.
LEMMA JoinedIs ==
  ASSUME NEW n \in Nat, NEW s, NEW e \in [0..n -> Nat], e[0] = 0,
         \A k \in 1..n : /\ e[k - 1] <= e[k]
                         /\ Parse(s[k]).data = Section(e[k - 1], e[k] - e[k - 1])
  PROVE  (CHOOSE f : f = [k \in 0..n |->
                              IF k = 0 THEN <<>> ELSE f[k - 1] \o Parse(s[k]).data])[n]
             = Section(0, e[n])
<1> DEFINE D(k) == Parse(s[k]).data
           Joins(f) == f = [k \in 0..n |-> IF k = 0 THEN <<>> ELSE f[k - 1] \o D(k)]
           j == CHOOSE f : Joins(f)
           w == [k \in 0..n |-> Section(0, e[k])]
           S == {k \in 0..n : j[k] # Section(0, e[k])}
<1>1. ASSUME NEW k \in 1..n
      PROVE  Section(0, e[k - 1]) \o D(k) = Section(0, e[k])
  <2> DEFINE from == e[k - 1]  to == e[k]
  <2>1. from \in Nat /\ to \in Nat /\ from <= to /\ D(k) = Section(from, to - from)
    BY <1>1
  <2> HIDE DEF from, to, D
  <2>2. to - from \in Nat /\ from + (to - from) = to
    BY <2>1
  <2>3. Section(0, from) \o Section(from, to - from) = Section(0, from + (to - from))
    BY <2>1, <2>2, SectionsJoin
  <2> QED
    BY <2>1, <2>2, <2>3 DEF from, to
<1>2. Section(0, e[0]) = <<>>
  <2>1. Section(0, 0) \in Seq(Nat) /\ Len(Section(0, 0)) = 0
    BY SectionIs
  <2> QED
    BY <2>1, EmptySeq
<1> HIDE DEF D
<1>3. \A k \in 0..n : k = 0 \/ (k \in 1..n /\ k - 1 \in 0..n)
  OBVIOUS
<1>4. Joins(w)
  <2>1. ASSUME NEW k \in 0..n
        PROVE  Section(0, e[k]) = IF k = 0 THEN <<>> ELSE w[k - 1] \o D(k)
    <3>1. CASE k = 0
      BY <1>2, <3>1
    <3>2. CASE k # 0
      BY <1>1, <1>3, <3>2
    <3> QED
      BY <3>1, <3>2
  <2> QED
    BY <2>1
<1>5. Joins(j)
  <2> HIDE DEF Joins, w
  <2>1. \E f : Joins(f)
    BY <1>4
  <2> QED
    BY <2>1, Zenon
<1> HIDE DEF j, w
<1>6. \A k \in 0..n : j[k] = IF k = 0 THEN <<>> ELSE j[k - 1] \o D(k)
  BY <1>5, Zenon
<1> HIDE DEF Joins
<1>7. S = {}
  <2>1. SUFFICES ASSUME S # {} PROVE FALSE
    OBVIOUS
  <2>2. S \in SUBSET Nat
    OBVIOUS
  <2>3. PICK k \in S : \A i \in S : k <= i
    BY <2>1, <2>2, LeastOf
  <2>4. k \in 0..n /\ j[k] # Section(0, e[k])
    BY <2>3
  <2>5. k # 0
    BY <1>2, <1>6, <2>4
  <2>6. k - 1 \in 0..n /\ ~(k <= k - 1) /\ k \in 1..n
    BY <2>4, <2>5
  <2>7. j[k - 1] = Section(0, e[k - 1])
    BY <2>3, <2>6
  <2> QED
    BY <1>1, <1>6, <2>4, <2>5, <2>6, <2>7
<1>8. j[n] = Section(0, e[n])
  <2>1. n \in 0..n /\ n \notin S
    BY <1>7
  <2> QED
    BY <2>1
<1> QED
  BY <1>8 DEF j, Joins, D

\* Packet k carries the header the split writes for it.
Headed == \A k \in DOMAIN packets : packets[k].header = Header(k - 1)

LEMMA HeadedNext == IInv /\ Headed /\ [Next]_vars => Headed'
<1>1. SUFFICES ASSUME IInv, Headed, [Next]_vars
               PROVE  Headed'
  OBVIOUS
<1>2. CASE SplitStep
  <2> DEFINE n == Len(packets)
  <2>1. /\ \A k \in DOMAIN packets : packets'[k] = packets[k]
        /\ DOMAIN packets = 1..n /\ DOMAIN packets' = 1..(n + 1)
        /\ packets'[n + 1] = [header |-> Header(n), from |-> pos, len |-> ToCopy(n)]
        /\ UNCHANGED encrypted_len
    BY <1>1, <1>2, SplitStepFacts DEF IInv
  <2>2. n \in Nat
    BY <1>1, TypeFacts DEF IInv
  <2> HIDE DEF n
  <2>3. \A k : Header(k)' = Header(k)
    BY <2>1 DEF Header
  <2>4. packets'[n + 1].header = Header(n) /\ (n + 1) - 1 = n
    BY <2>1, <2>2
  <2>5. ASSUME NEW k \in 1..(n + 1)
        PROVE  packets'[k].header = Header(k - 1)
    <3>1. k = n + 1 \/ k \in 1..n
      BY <2>2
    <3> QED
      BY <1>1, <2>1, <2>4, <3>1 DEF Headed
  <2> QED
    BY <2>1, <2>3, <2>5 DEF Headed
<1>3. CASE BuildDeviceInfo \/ BuildPair \/ BuildSwitch \/ BuildOther \/ Encrypt
  <2>1. packets = <<>> /\ UNCHANGED packets
    BY <1>1, <1>3 DEF IInv, Stage, BuildDeviceInfo, BuildPair, BuildSwitch, BuildOther,
                      BuildRaw, Encrypt
  <2>2. DOMAIN packets' = {}
    BY <2>1
  <2> QED
    BY <2>2 DEF Headed
<1>4. CASE EncryptFails \/ SplitEnd \/ UNCHANGED vars
  <2>1. UNCHANGED <<packets, encrypted_len>>
    BY <1>4 DEF EncryptFails, SplitEnd, vars
  <2> QED
    BY <1>1, <2>1 DEF Headed, Header
<1> QED
  BY <1>1, <1>2, <1>3, <1>4 DEF Next

LEMMA HeadedInvariant == Spec => [](IInv /\ Sized /\ Headed)
<1>1. Init => Headed
  <2>1. ASSUME Init PROVE DOMAIN packets = {}
    BY <2>1 DEF Init
  <2> QED
    BY <2>1 DEF Headed
<1> QED
  BY <1>1, IndInit, IndNext, HeadedNext, CountInvariant, PTL DEF Spec

\* tuya_aes_decrypt opens what tuya_aes_encrypt made, to the padded packet.
LEMMA Opens ==
  ASSUME NEW n \in Nat
  PROVE  PayloadLen(EncLen(RawLen(n))) >= RawLen(n)
<1> DEFINE m == RawLen(n)  q == (m + 15) \div 16
<1>1. m \in Nat /\ m > 0
  BY DEF RawLen
<1> HIDE DEF m
<1>2. q \in Nat /\ 16 * q >= m /\ q > 0
  BY <1>1
<1>3. EncLen(m) = 17 + 16 * q
  BY <1>1 DEF EncLen, Padded
<1> HIDE DEF q
<1>4. /\ ~((17 + 16 * q) - 1 < 16) /\ ((17 + 16 * q) - 1) % 16 = 0
      /\ (17 + 16 * q) - 1 - 16 = 16 * q
  BY <1>2
<1>5. PayloadLen(17 + 16 * q) = 16 * q
  BY <1>4 DEF PayloadLen
<1> QED
  BY <1>2, <1>3, <1>5 DEF m

\* What the parser makes of each packet of a message.
LEMMA PacketsRead ==
  ASSUME IInv, Headed, NEW k \in DOMAIN packets
  PROVE  /\ Parse(packets[k]).num = k - 1
         /\ k = 1 => Parse(packets[k]).total = encrypted_len
         /\ Parse(packets[k]).data = Section(packets[k].from, packets[k].len)
<1>1. /\ encrypted_len \in Nat /\ encrypted_len <= 16383
      /\ packets[k] \in Packet /\ k \in 1..127
  <2>1. /\ encrypted_len \in Nat /\ encrypted_len <= EncSize /\ packets \in Seq(Packet)
        /\ Len(packets) \in Nat /\ Len(packets) <= MaxPackets
    BY TypeFacts DEF IInv
  <2>2. DOMAIN packets = 1..Len(packets)
    BY <2>1, LenProperties
  <2>3. packets[k] \in Packet
    BY <2>1, <2>2, ElementOfSeq
  <2>4. EncSize <= 16383 /\ EncSize \in Nat /\ MaxPackets <= 127 /\ MaxPackets \in Nat
    BY SizesAssumption
  <2>5. encrypted_len <= 16383
    BY <2>1, <2>4
  <2>6. k \in 1..127
    <3> DEFINE n == Len(packets)
    <3>1. n \in Nat /\ n <= 127 /\ k \in 1..n
      BY <2>1, <2>2, <2>4
    <3> HIDE DEF n
    <3> QED
      BY <3>1
  <2> QED
    BY <2>1, <2>3, <2>5, <2>6
<1> DEFINE p == packets[k]  v == encrypted_len
<1>2. p.header = Header(k - 1)
  BY DEF Headed
<1>3. CASE k = 1
  <2>1. HasHeader(p, FirstOf(v))
    BY <1>2, <1>3 DEF Header, FirstOf, HasHeader
  <2> QED
    BY <1>1, <1>3, <2>1, ParseFirst
<1>4. CASE k # 1
  <2> DEFINE l == k - 1
  <2>1. l \in 1..127 /\ l # 0 /\ l < 128 /\ l \in Nat
    BY <1>1, <1>4
  <2> HIDE DEF l
  <2>2. PackVarint(l) = <<l>>
    BY <2>1 DEF PackVarint
  <2>3. Header(l) = <<l>>
    <3>1. Header(l) = PackVarint(l) \o <<>>
      BY <2>1 DEF Header
    <3>2. <<l>> \in Seq(Nat)
      BY <2>1
    <3>3. <<l>> \o <<>> = <<l>>
      BY <3>2, ConcatEmptySeq
    <3> QED
      BY <2>2, <3>1, <3>3
  <2>4. p.header = <<l>>
    BY <1>2, <2>3 DEF l
  <2>5. Parse(p).num = l /\ Parse(p).data = Section(p.from, p.len)
    BY <1>1, <2>1, <2>4, ParseLater
  <2> QED
    BY <1>4, <2>5 DEF l
<1> QED
  BY <1>3, <1>4

\* What the parser reads in the packets of a request that was built is their numbers,
\* the length announced and the whole message, and that is of a length that can be
\* decrypted to no less than the raw packet: for every MTU and every data length.
THEOREM ReadsBack == Spec => []RoundTrip
<1>1. ASSUME IInv, Sized, Headed
      PROVE  RoundTrip
  <2> DEFINE n == Len(packets)
             joined == CHOOSE f : f = [k \in 0..n |->
                           IF k = 0 THEN <<>> ELSE f[k - 1] \o Parse(packets[k]).data]
             e == [k \in 0..n |-> IF k = 0 THEN 0 ELSE packets[k].from + packets[k].len]
  <2>1. SUFFICES ASSUME Built
                 PROVE  /\ Parse(packets[1]).total = encrypted_len
                        /\ \A k \in DOMAIN packets : Parse(packets[k]).num = k - 1
                        /\ joined[n] = [i \in 1..encrypted_len |-> 256 + i]
                        /\ PayloadLen(encrypted_len) >= RawLen(data_len)
    BY DEF RoundTrip
  <2>2. /\ encrypted_len \in Nat /\ pos \in Nat /\ data_len \in Nat
        /\ packets \in Seq(Packet) /\ n \in Nat /\ DOMAIN packets = 1..n
    BY <1>1, TypeFacts, LenProperties DEF IInv
  <2>3. pc = "done" /\ num_packets > 0 /\ encrypted_len # 0
    BY <1>1, <2>1 DEF Built, IInv, Stage
  <2>4. num_packets = Returned
    BY <1>1, <2>2, <2>3 DEF IInv, Stage
  <2>5. pos = encrypted_len /\ n > 0
    <3>1. pos <= encrypted_len
      BY <1>1, TypeFacts DEF IInv
    <3> HIDE DEF n, joined, e
    <3>2. num_packets = IF pos < encrypted_len THEN 0 ELSE n
      BY <2>4 DEF Returned, n
    <3>3. ~(pos < encrypted_len) /\ n > 0
      BY <2>2, <2>3, <3>2
    <3> QED
      BY <2>2, <3>1, <3>3
  <2>6. \A k \in DOMAIN packets :
            /\ Parse(packets[k]).num = k - 1
            /\ k = 1 => Parse(packets[k]).total = encrypted_len
            /\ Parse(packets[k]).data = Section(packets[k].from, packets[k].len)
    BY <1>1, PacketsRead
  <2>7. \A k \in 1..n : packets[k].from \in Nat /\ packets[k].len \in Nat
    <3>1. \A k \in 1..n : packets[k] \in Packet
      BY <2>2, ElementOfSeq
    <3> QED
      BY <3>1 DEF Packet
  <2>8. \A k \in 1..n :
            packets[k].from + packets[k].len = IF k < n THEN packets[k + 1].from ELSE pos
    BY <1>1, <2>2 DEF IInv, Chain
  <2>9. packets[1].from = 0
    <3>1. packets # <<>>
      <4>1. Len(<<>>) = 0
        OBVIOUS
      <4> QED
        BY <2>2, <2>5, <4>1
    <3> QED
      BY <1>1, <3>1 DEF IInv, Chain
  <2> HIDE DEF n, joined
  <2>10. /\ e[0] = 0 /\ \A k \in 1..n : e[k] = packets[k].from + packets[k].len
         /\ e \in [0..n -> Nat]
    BY <2>2, <2>7
  <2>11. e[n] = encrypted_len
    BY <2>2, <2>5, <2>8, <2>10
  <2> HIDE DEF e
  <2>12. ASSUME NEW k \in 1..n
         PROVE  e[k - 1] = packets[k].from
    <3>1. CASE k = 1
      BY <2>9, <2>10, <3>1
    <3>2. CASE k # 1
      <4>1. k - 1 \in 1..n /\ k - 1 < n /\ (k - 1) + 1 = k
        BY <2>2, <3>2
      <4> QED
        BY <2>8, <2>10, <4>1
    <3> QED
      BY <3>1, <3>2
  <2>13. ASSUME NEW k \in 1..n
         PROVE  /\ e[k - 1] <= e[k]
                /\ Parse(packets[k]).data = Section(e[k - 1], e[k] - e[k - 1])
    <3> DEFINE from == packets[k].from  len == packets[k].len
    <3>1. from \in Nat /\ len \in Nat /\ e[k - 1] = from /\ e[k] = from + len
      BY <2>7, <2>10, <2>12
    <3>2. Parse(packets[k]).data = Section(from, len)
      BY <2>2, <2>6
    <3> HIDE DEF from, len
    <3>3. from <= from + len /\ (from + len) - from = len
      BY <3>1
    <3> QED
      BY <3>1, <3>2, <3>3
  <2>14. joined[n] = Section(0, e[n])
    BY <2>2, <2>10, <2>13, JoinedIs DEF joined
  <2>15. Section(0, encrypted_len) = [i \in 1..encrypted_len |-> 256 + i]
    <3>1. \A i \in 1..encrypted_len : 256 + 0 + i = 256 + i
      OBVIOUS
    <3> QED
      BY <3>1 DEF Section
  <2>16. PayloadLen(encrypted_len) >= RawLen(data_len)
    <3>1. encrypted_len > 0
      BY <2>2, <2>3
    <3>2. encrypted_len = EncLen(RawLen(data_len))
      BY <1>1, <3>1 DEF Sized
    <3> QED
      BY <2>2, <3>2, Opens
  <2>17. 1 \in DOMAIN packets
    BY <2>2, <2>5
  <2> QED
    BY <2>6, <2>11, <2>14, <2>15, <2>16, <2>17
<1> QED
  BY <1>1, HeadedInvariant, PTL
=============================================================================
