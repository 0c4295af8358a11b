------------------------------ MODULE TuyaPacket ------------------------------
(***************************************************************************)
(* Building one request (tuya_packet.c with the lengths of tuya_crypto.c)  *)
(* and reading its fragments back, with the header parser of the NOTIFY    *)
(* handler: the device frames its answers the same way.                    *)
(*                                                                         *)
(* What is in the raw packet is left out: a byte of the encrypted message   *)
(* is named by its place.  The headers are the bytes the code writes.      *)
(***************************************************************************)
EXTENDS Integers, Sequences

CONSTANTS
    MTU,            \* TUYA_BLE_MTU
    MaxPackets,     \* max_packets, 10 in every caller
    RawSize,        \* sizeof(raw_packet)
    EncSize,        \* sizeof(encrypted)
    DataLens        \* data lengths tuya_build_raw_packet is called with

\* The second bound is that of PackVarint below: no header needs a third byte.
ASSUME SizesAssumption ==
    /\ MTU \in Nat /\ MTU > 4
    /\ MaxPackets \in 1..127
    /\ RawSize \in Nat
    /\ EncSize \in 1..16383
ASSUME DataAssumption == DataLens \subseteq Nat

VARIABLES
    pc,             \* "idle", "raw", "split" or "done"
    data_len,
    encrypted_len,
    pos,            \* bytes of the message already in a packet
    packets,        \* each with its header and the bytes from+1..from+len
    num_packets     \* what the builder returns

vars == <<pc, data_len, encrypted_len, pos, packets, num_packets>>

-----------------------------------------------------------------------------
(* Lengths and headers.                                                    *)

\* Header, data and CRC of a raw packet.
RawLen(n) == 4 + 4 + 2 + 2 + n + 2

\* Zero padding to whole blocks, and padding rounded down.
PaddedDown(n) == IF n < 16 THEN 16 ELSE (n \div 16) * 16
Padded(n) == IF n = 0 THEN 16 ELSE ((n + 15) \div 16) * 16

\* Flag, IV and the blocks.
EncLen(n) == 1 + 16 + Padded(n)

\* 7 bits per byte, the high bit set on all but the last; v < 2^14.
PackVarintNoFlag(v) == IF v < 128 THEN <<v>> ELSE <<v % 128, v \div 128>>
PackVarint(v) == IF v < 128 THEN <<v>> ELSE <<128 + (v % 128), v \div 128>>

\* The header of packet k, the protocol version being 3.
Header(k) ==
    PackVarint(k) \o (IF k = 0 THEN PackVarint(encrypted_len) \o <<48>> ELSE <<>>)

\* Data bytes that go into a packet, with the header forgotten.
ToCopyNoHeader(k) ==
    IF encrypted_len - pos < MTU - 1 THEN encrypted_len - pos ELSE MTU - 1
ToCopy(k) ==
    LET remaining == MTU - Len(Header(k))
    IN  IF encrypted_len - pos < remaining THEN encrypted_len - pos ELSE remaining

-----------------------------------------------------------------------------
(* The builders.                                                           *)

Byte == 0..255
Packet == [header : Seq(Byte), from : Nat, len : Nat]

TypeOK ==
    /\ pc \in {"idle", "raw", "split", "done"}
    /\ data_len \in Nat
    /\ encrypted_len \in 0..EncSize
    /\ pos \in 0..encrypted_len
    /\ packets \in Seq(Packet) /\ Len(packets) <= MaxPackets
    /\ num_packets \in 0..MaxPackets

Init ==
    /\ pc = "idle"
    /\ data_len = 0
    /\ encrypted_len = 0
    /\ pos = 0
    /\ packets = <<>>
    /\ num_packets = 0

\* tuya_build_raw_packet: the buffer must hold the packet.
BuildRaw(n) ==
    /\ pc = "idle"
    /\ data_len' = n
    /\ pc' = IF RawLen(n) <= RawSize THEN "raw" ELSE "done"
    /\ UNCHANGED <<encrypted_len, pos, packets, num_packets>>

\* A request of each kind.  The strings of the configuration are cut to their
\* fields of 16, 6 and 22 bytes.
BuildDeviceInfo == BuildRaw(0)
BuildPair == BuildRaw(16 + 6 + 22)
BuildSwitch == BuildRaw(4)
BuildOther == \E n \in DataLens : BuildRaw(n)

\* tuya_aes_encrypt.
Encrypt ==
    /\ pc = "raw"
    /\ EncLen(RawLen(data_len)) <= EncSize
    /\ encrypted_len' = EncLen(RawLen(data_len))
    /\ pc' = "split"
    /\ UNCHANGED <<data_len, pos, packets, num_packets>>

\* The buffer is too small, or there is no memory for the padded data.
EncryptFails ==
    /\ pc = "raw"
    /\ pc' = "done"
    /\ UNCHANGED <<data_len, encrypted_len, pos, packets, num_packets>>

\* The loop condition of tuya_split_to_ble_packets, one packet too few, and
\* without max_packets.
MoreToSplitShort == pos < encrypted_len /\ Len(packets) + 1 < MaxPackets
MoreToSplitUnbounded == pos < encrypted_len
MoreToSplit == pos < encrypted_len /\ Len(packets) < MaxPackets

SplitStep ==
    LET k == Len(packets)
    IN  /\ pc = "split"
        /\ MoreToSplit
        /\ packets' = Append(packets,
                             [header |-> Header(k), from |-> pos, len |-> ToCopy(k)])
        /\ pos' = pos + ToCopy(k)
        /\ UNCHANGED <<pc, data_len, encrypted_len, num_packets>>

\* What the split returns, and without the test for a rest.
ReturnedAlways == Len(packets)
Returned == IF pos < encrypted_len THEN 0 ELSE Len(packets)

SplitEnd ==
    /\ pc = "split"
    /\ ~MoreToSplit
    /\ num_packets' = Returned
    /\ pc' = "done"
    /\ UNCHANGED <<data_len, encrypted_len, pos, packets>>

Next ==
    \/ BuildDeviceInfo \/ BuildPair \/ BuildSwitch \/ BuildOther
    \/ Encrypt \/ EncryptFails
    \/ SplitStep \/ SplitEnd

Spec == Init /\ [][Next]_vars

-----------------------------------------------------------------------------
(* Reading: the header parser of ESP_GATTC_NOTIFY_EVT.                     *)

\* The bytes of a packet; a data byte is no value a header has, and reads as one
\* with the high bit set.
Bytes(p) == p.header \o [i \in 1..p.len |-> 256 + p.from + i]

\* A varint that begins after place from: its value and its last place.
ReadVarint(value, from) ==
    LET read[i \in 1..Len(value)] ==
            LET low == value[i] % 128
            IN  IF value[i] < 128 \/ i = Len(value)
                THEN [val |-> low, last |-> i]
                ELSE [val |-> low + 128 * read[i + 1].val, last |-> read[i + 1].last]
    IN  IF from = Len(value) THEN [val |-> 0, last |-> from] ELSE read[from + 1]

Parse(p) ==
    LET value == Bytes(p)
        num == ReadVarint(value, 0)
        total == IF num.val > 0 THEN [val |-> 0, last |-> num.last]
                 ELSE ReadVarint(value, num.last)
        version == IF num.val = 0 /\ total.last < Len(value) THEN 1 ELSE 0
    IN  [num |-> num.val, total |-> total.val,
         data |-> SubSeq(value, total.last + version + 1, Len(value))]

\* tuya_aes_decrypt of a message of n bytes, without its flag: 0 for an error.
PayloadLen(n) == IF n - 1 < 16 \/ (n - 1) % 16 # 0 THEN 0 ELSE n - 1 - 16

-----------------------------------------------------------------------------
(* Properties.                                                             *)

Built == pc = "done" /\ num_packets > 0

\* No packet is written past its MTU bytes, and only the last is shorter.
FragmentsFit ==
    \A k \in DOMAIN packets :
        /\ Len(packets[k].header) + packets[k].len <= MTU
        /\ k < Len(packets) => Len(packets[k].header) + packets[k].len = MTU

\* The packets hold the message from its first byte on without a gap or an overlap,
\* and all of it when a builder reports success.
Partition ==
    /\ packets # <<>> => packets[1].from = 0
    /\ \A k \in DOMAIN packets :
          packets[k].from + packets[k].len
              = IF k < Len(packets) THEN packets[k + 1].from ELSE pos
    /\ Built => num_packets = Len(packets) /\ pos = encrypted_len

\* Bytes that fit into max_packets packets: the first has a longer header.
FirstRoom == MTU - 2 - (IF encrypted_len < 128 THEN 1 ELSE 2)
Capacity == FirstRoom + (MaxPackets - 1) * (MTU - 1)

\* The split refuses a message exactly when the packets cannot hold it.
RefusesOnlyTooLong ==
    pc = "done" /\ encrypted_len > 0 => (num_packets = 0 <=> encrypted_len > Capacity)

\* What the parser reads in the packets is their numbers, the length announced and,
\* put together, the message; and the message is of a length tuya_aes_decrypt opens,
\* to no less than the raw packet.
RoundTrip ==
    LET joined[k \in 0..Len(packets)] ==
            IF k = 0 THEN <<>> ELSE joined[k - 1] \o Parse(packets[k]).data
    IN  Built =>
            /\ Parse(packets[1]).total = encrypted_len
            /\ \A k \in DOMAIN packets : Parse(packets[k]).num = k - 1
            /\ joined[Len(packets)] = [i \in 1..encrypted_len |-> 256 + i]
            /\ PayloadLen(encrypted_len) >= RawLen(data_len)

\* The firmware's own requests always fit: 2, 5 and 3 packets, the counts
\* CommandChannel works with.
RequestsFit ==
    pc = "done" /\ encrypted_len > 0 =>
        /\ data_len = 0 => num_packets = 2
        /\ data_len = 44 => num_packets = 5
        /\ data_len = 4 => num_packets = 3
=============================================================================
