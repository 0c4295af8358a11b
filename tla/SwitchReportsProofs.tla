------------------------- MODULE SwitchReportsProofs -------------------------
(***************************************************************************)
(* Proofs about the reassembly of answers, for any size of the buffer and   *)
(* of a notification, any lengths and any number of messages: first for     *)
(* NotifyReassembly alone, then for SwitchReports, which it is a part of,   *)
(* up to the value the users are shown.                                     *)
(***************************************************************************)
EXTENDS SwitchReports, SequenceTheorems, WellFoundedInduction, TLAPS

-----------------------------------------------------------------------------
(* Numbers and sequences of bytes.                                         *)

LEMMA Sizes ==
  /\ BufSize \in Nat /\ MaxMsgs \in Nat /\ MaxFrame \in Nat /\ MaxFrame <= BufSize
  /\ \A t \in Lengths : t \in Nat /\ t > 0
<1>1. BufSize \in Nat /\ MaxFrame \in 1..BufSize /\ MaxMsgs \in Nat
  BY SizesAssumption
<1>2. MaxFrame \in Nat /\ MaxFrame <= BufSize
  BY <1>1
<1> QED
  BY <1>1, <1>2, LengthsAssumption

\* The first d bytes of message m.
Prefix(m, d) == [j \in 1..d |-> <<m, j>>]

LEMMA PrefixIsBytes ==
  ASSUME NEW m \in 1..MaxMsgs, NEW d \in Nat
  PROVE  /\ Prefix(m, d) \in Seq(Byte) /\ Len(Prefix(m, d)) = d
         /\ \A j \in 1..d : Prefix(m, d)[j] = <<m, j>>
<1>1. \A j \in 1..d : <<m, j>> \in Byte
  BY DEF Byte
<1> QED
  BY <1>1 DEF Prefix

LEMMA PrefixGrows ==
  ASSUME NEW m \in 1..MaxMsgs, NEW d \in Nat, NEW n \in Nat
  PROVE  Prefix(m, d) \o [j \in 1..n |-> <<m, d + j>>] = Prefix(m, d + n)
<1> DEFINE p == Prefix(m, d)
           q == [j \in 1..n |-> <<m, d + j>>]
           r == Prefix(m, d + n)
<1>1. /\ p \in Seq(Byte) /\ Len(p) = d
      /\ \A j \in 1..d : p[j] = <<m, j>>
  BY PrefixIsBytes
<1>2. /\ r \in Seq(Byte) /\ Len(r) = d + n
      /\ \A j \in 1..(d + n) : r[j] = <<m, j>>
  <2>1. d + n \in Nat
    OBVIOUS
  <2> QED
    BY <2>1, PrefixIsBytes
<1>3. q \in Seq(Byte) /\ Len(q) = n /\ \A j \in 1..n : q[j] = <<m, d + j>>
  <2>1. \A j \in 1..n : <<m, d + j>> \in Byte
    BY DEF Byte
  <2> QED
    BY <2>1
<1> HIDE DEF p, q, r
<1>4. /\ p \o q \in Seq(Byte) /\ Len(p \o q) = d + n
      /\ \A j \in 1..(d + n) : (p \o q)[j] = IF j <= d THEN p[j] ELSE q[j - d]
  BY <1>1, <1>3, ConcatProperties
<1>5. ASSUME NEW j \in 1..(d + n)
      PROVE  (p \o q)[j] = r[j]
  <2>1. CASE j <= d
    <3>1. j \in 1..d
      BY <2>1
    <3>2. p[j] = <<m, j>> /\ r[j] = <<m, j>> /\ (p \o q)[j] = p[j]
      BY <1>1, <1>2, <1>4, <2>1, <3>1
    <3> QED
      BY <3>2
  <2>2. CASE ~(j <= d)
    <3>1. j - d \in 1..n /\ d + (j - d) = j
      BY <2>2
    <3>2. q[j - d] = <<m, j>>
      BY <1>3, <3>1
    <3> QED
      BY <1>2, <1>4, <2>2, <3>2
  <2> QED
    BY <2>1, <2>2
<1>6. p \o q = r
  BY <1>2, <1>4, <1>5, SeqEqual
<1> QED
  BY <1>6 DEF p, q, r

LEMMA SubSeqOfAll ==
  ASSUME NEW m \in 1..MaxMsgs, NEW d \in Nat
  PROVE  SubSeq(Prefix(m, d), 1, d) = Prefix(m, d)
<1>1. Prefix(m, d) \in Seq(Byte) /\ Len(Prefix(m, d)) = d
  BY PrefixIsBytes
<1> DEFINE p == Prefix(m, d)
<1>2. p \in Seq(Byte) /\ Len(p) = d
  BY <1>1
<1> HIDE DEF p
<1>3. SubSeq(p, 1, d) = p
  BY <1>2
<1> QED
  BY <1>3 DEF p

-----------------------------------------------------------------------------
(* The inductive invariant of the handler and the device.                  *)

\* A message that is being sent is not at its end.
InTheMiddle == sending => Last >= 1 /\ done < totals[Last]

\* Between two fragments of a message the buffer holds what was sent of it, or it was
\* given up because it does not fit.
BufferOfMessage ==
    sending /\ done > 0 =>
        \/ /\ g_receiving_response
           /\ g_response_buffer = Prefix(Last, done)
           /\ g_expected_response_len = totals[Last]
        \/ ~g_receiving_response /\ totals[Last] > BufSize

\* Everything handed on is a message that is not being sent any more.
HandedOn ==
    \A k \in DOMAIN processed :
        \E m \in DOMAIN totals : processed[k] = Whole(m) /\ (sending => m # Last)

InOrder ==
    \A k, l \in DOMAIN processed : k < l => processed[k][1][1] < processed[l][1][1]

IInv == TypeOK /\ InTheMiddle /\ BufferOfMessage /\ HandedOn /\ InOrder /\ NoneMissed

LEMMA IndInit == Init => IInv
<1>1. SUFFICES ASSUME Init PROVE IInv
  OBVIOUS
<1>2. /\ <<>> \in Seq(Byte) /\ <<>> \in Seq(Seq(Byte)) /\ <<>> \in Seq(Lengths)
      /\ Len(<<>>) = 0 /\ DOMAIN <<>> = {} /\ {} \subseteq 1..MaxMsgs
      /\ 0 <= BufSize /\ 0 <= MaxMsgs
  BY Sizes
<1>3. TypeOK
  BY <1>1, <1>2 DEF Init, TypeOK, Last
<1> QED
  BY <1>1, <1>2, <1>3 DEF Init, IInv, InTheMiddle, BufferOfMessage, HandedOn, InOrder,
                          NoneMissed

LEMMA TypeFacts ==
  ASSUME TypeOK
  PROVE  /\ totals \in Seq(Lengths) /\ DOMAIN totals = 1..Last /\ Last \in Nat
         /\ Last <= MaxMsgs /\ 1..Last \subseteq 1..MaxMsgs
         /\ \A m \in 1..Last : totals[m] \in Nat /\ totals[m] > 0
         /\ \A m \in 1..Last : totals[m] \in Lengths
         /\ \A m \in 1..Last : Whole(m) = Prefix(m, totals[m])
         /\ \A m \in 1..Last : Whole(m) \in Seq(Byte) /\ Whole(m)[1] = <<m, 1>>
<1>1. totals \in Seq(Lengths) /\ Last <= MaxMsgs
  BY DEF TypeOK
<1>2. DOMAIN totals = 1..Last /\ Last \in Nat
  BY <1>1, LenProperties DEF Last
<1>3. 1..Last \subseteq 1..MaxMsgs
  BY <1>1, <1>2, Sizes
<1>4. ASSUME NEW m \in 1..Last
      PROVE  /\ totals[m] \in Lengths /\ totals[m] \in Nat /\ totals[m] > 0
             /\ Whole(m) = Prefix(m, totals[m])
             /\ Whole(m) \in Seq(Byte) /\ Whole(m)[1] = <<m, 1>>
  <2>1. totals[m] \in Lengths
    BY <1>1, ElementOfSeq DEF Last
  <2>2. totals[m] \in Nat /\ totals[m] > 0
    BY <2>1, Sizes
  <2>3. Whole(m) = Prefix(m, totals[m])
    BY DEF Whole, Prefix
  <2>4. m \in 1..MaxMsgs /\ 1 \in 1..totals[m]
    BY <1>3, <2>2
  <2> QED
    BY <2>1, <2>2, <2>3, <2>4, PrefixIsBytes
<1> QED
  BY <1>1, <1>2, <1>3, <1>4

LEMMA BeginKeeps ==
  ASSUME IInv, NEW total \in Lengths, Begin(total)
  PROVE  IInv'
<1>1. /\ ~sending /\ Last < MaxMsgs /\ totals' = Append(totals, total)
      /\ done' = 0 /\ sending'
      /\ UNCHANGED <<g_response_buffer, g_expected_response_len, g_receiving_response,
                     processed, cut>>
  BY DEF Begin, handler
<1>2. TypeOK /\ totals \in Seq(Lengths) /\ DOMAIN totals = 1..Last /\ Last \in Nat
  BY TypeFacts DEF IInv
<1>3. /\ totals' \in Seq(Lengths) /\ Last' = Last + 1
      /\ \A m \in 1..Last : totals'[m] = totals[m]
      /\ totals'[Last + 1] = total
  BY <1>1, <1>2, AppendProperties DEF Last
<1>4. DOMAIN totals' = 1..(Last + 1)
  BY <1>3, LenProperties DEF Last
<1>5. total \in Nat /\ total > 0
  BY Sizes
<1>6. \A m \in 1..Last : Whole(m)' = Whole(m) /\ m \in 1..(Last + 1) /\ m # Last + 1
  BY <1>2, <1>3 DEF Whole
<1>7. TypeOK'
  BY <1>1, <1>2, <1>3, Sizes DEF TypeOK
<1>8. InTheMiddle' /\ BufferOfMessage'
  BY <1>1, <1>2, <1>3, <1>5 DEF InTheMiddle, BufferOfMessage
<1>9. HandedOn'
  BY <1>1, <1>2, <1>3, <1>4, <1>6 DEF IInv, HandedOn
<1>10. InOrder'
  BY <1>1 DEF IInv, InOrder
<1>11. NoneMissed'
  <2>1. SUFFICES ASSUME NEW m \in DOMAIN totals', m \notin cut, totals'[m] <= BufSize,
                        ~(sending' /\ m = Last')
                 PROVE  \E k \in DOMAIN processed : processed[k] = Whole(m)'
    BY <1>1 DEF NoneMissed
  <2>2. m \in 1..Last
    BY <1>1, <1>2, <1>3, <1>4, <2>1
  <2> QED
    BY <1>1, <1>2, <1>3, <1>6, <2>1, <2>2 DEF IInv, NoneMissed
<1> QED
  BY <1>7, <1>8, <1>9, <1>10, <1>11 DEF IInv

LEMMA LinkLostKeeps ==
  ASSUME IInv, LinkLost
  PROVE  IInv'
<1>1. /\ sending /\ ~sending' /\ cut' = cut \union {Last}
      /\ UNCHANGED <<g_response_buffer, g_expected_response_len, g_receiving_response,
                     processed, totals, done>>
  BY DEF LinkLost, handler, IInv, TypeOK
<1>2. Last \in 1..MaxMsgs
  BY <1>1, TypeFacts DEF IInv, InTheMiddle
<1>3. TypeOK'
  BY <1>1, <1>2 DEF IInv, TypeOK, Last, LinkLost
<1>4. InTheMiddle' /\ BufferOfMessage'
  BY <1>1 DEF InTheMiddle, BufferOfMessage
<1>5. HandedOn' /\ InOrder'
  BY <1>1 DEF IInv, HandedOn, InOrder, Whole
<1>6. NoneMissed'
  BY <1>1 DEF IInv, NoneMissed, Whole, Last
<1> QED
  BY <1>3, <1>4, <1>5, <1>6 DEF IInv

-----------------------------------------------------------------------------
(* The NOTIFY handler.                                                     *)

\* A frame of the message that is being sent.
LEMMA FrameFacts ==
  ASSUME IInv, NEW n \in 1..MaxFrame, Frame(n)
  PROVE  /\ sending /\ Last \in 1..MaxMsgs /\ Last \in DOMAIN totals
         /\ n \in Nat /\ n > 0 /\ n <= BufSize /\ done \in Nat
         /\ totals[Last] \in Nat /\ totals[Last] > 0 /\ totals[Last] \in Lengths
         /\ done + n <= totals[Last] /\ done' = done + n
         /\ sending' = (done + n < totals[Last])
         /\ UNCHANGED <<totals, cut>> /\ Last' = Last
<1>1. /\ sending /\ done + n <= totals[Last] /\ done' = done + n
      /\ sending' = (done + n < totals[Last]) /\ UNCHANGED <<totals, cut>>
  BY DEF Frame
<1>2. TypeOK /\ Last >= 1
  BY <1>1 DEF IInv, InTheMiddle
<1>3. Last \in 1..Last /\ Last \in 1..MaxMsgs /\ Last \in DOMAIN totals
  BY <1>2, TypeFacts
<1>4. totals[Last] \in Nat /\ totals[Last] > 0 /\ totals[Last] \in Lengths
  BY <1>2, <1>3, TypeFacts
<1>5. n \in Nat /\ n > 0 /\ n <= BufSize
  BY Sizes
<1>6. Last' = Last
  BY <1>1 DEF Last
<1> QED
  BY <1>1, <1>2, <1>3, <1>4, <1>5, <1>6 DEF TypeOK

\* What the handler does with a fragment: it adds it to what it has of the message and
\* comes to its end, or it has given up or gives up a message that is too long.
Collected(n) ==
    /\ Frame(n) /\ Finish
    /\ g_response_buffer' = Prefix(Last, done + n)
    /\ g_expected_response_len' = totals[Last]
    /\ done + n <= BufSize

GivenUp(n) ==
    /\ Frame(n)
    /\ totals[Last] > BufSize
    /\ ~g_receiving_response' /\ g_receiving_response' \in BOOLEAN
    /\ UNCHANGED <<g_response_buffer, g_expected_response_len, processed>>

\* The end of the handler: the message is complete with its last byte and handed on
\* whole.
LEMMA CollectedDoes ==
  ASSUME IInv, NEW n \in 1..MaxFrame, Collected(n)
  PROVE  /\ sending' \in BOOLEAN
         /\ \/ /\ sending' /\ g_receiving_response' = TRUE
               /\ UNCHANGED processed
            \/ /\ ~sending' /\ g_receiving_response' = FALSE
               /\ totals[Last] <= BufSize
               /\ processed' = Append(processed, Whole(Last))
<1> DEFINE t == totals[Last]
<1>0. /\ Frame(n) /\ Finish /\ g_response_buffer' = Prefix(Last, done + n)
      /\ g_expected_response_len' = t /\ done + n <= BufSize
  BY DEF Collected
<1>1. /\ sending /\ Last \in 1..MaxMsgs /\ Last \in DOMAIN totals
      /\ n \in Nat /\ n > 0 /\ done \in Nat
      /\ t \in Nat /\ t > 0
      /\ done + n <= t /\ sending' = (done + n < t)
  BY <1>0, FrameFacts
<1>2. Whole(Last) = Prefix(Last, t)
  BY <1>1, TypeFacts DEF IInv
<1>3. Len(g_response_buffer') = done + n /\ done + n \in Nat
  BY <1>0, <1>1, PrefixIsBytes
<1>4. Complete <=> done + n >= t
  BY <1>0, <1>3 DEF Complete
<1>5. (sending' <=> done + n < t) /\ sending' \in BOOLEAN
  <2>1. sending' = (done + n < t)
    BY <1>1
  <2>2. (done + n < t) \in BOOLEAN
    OBVIOUS
  <2> HIDE DEF t
  <2>3. sending' \in BOOLEAN
    BY <2>1, <2>2, Zenon
  <2>4. sending' <=> done + n < t
    BY <2>1, Zenon
  <2> QED
    BY <2>3, <2>4
<1>6. done + n >= t <=> ~(done + n < t)
  BY <1>1
<1>7. CASE sending'
  BY <1>0, <1>4, <1>5, <1>6, <1>7 DEF Finish
<1>8. CASE ~sending'
  <2>1. done + n = t /\ Complete
    BY <1>1, <1>4, <1>5, <1>6, <1>8
  <2>2. /\ g_receiving_response' = FALSE
        /\ processed' = Append(processed, SubSeq(Prefix(Last, t), 1, t))
    BY <1>0, <2>1 DEF Finish
  <2>3. processed' = Append(processed, Whole(Last))
    BY <1>1, <1>2, <2>2, SubSeqOfAll
  <2> QED
    BY <1>0, <1>5, <1>8, <2>1, <2>2, <2>3
<1> QED
  BY <1>7, <1>8

LEMMA CollectedKeeps ==
  ASSUME IInv, NEW n \in 1..MaxFrame, Collected(n)
  PROVE  IInv'
<1> DEFINE t == totals[Last]
<1>0. /\ Frame(n) /\ g_response_buffer' = Prefix(Last, done + n)
      /\ g_expected_response_len' = t /\ done + n <= BufSize
  BY DEF Collected
<1>1. /\ sending /\ Last \in 1..MaxMsgs /\ Last \in DOMAIN totals
      /\ n \in Nat /\ n > 0 /\ done \in Nat
      /\ t \in Nat /\ t > 0 /\ t \in Lengths
      /\ done + n <= t /\ done' = done + n /\ sending' = (done + n < t)
      /\ UNCHANGED <<totals, cut>> /\ Last' = Last
  BY <1>0, FrameFacts
<1>2. /\ TypeOK /\ DOMAIN totals = 1..Last /\ Last \in Nat
      /\ \A m \in 1..Last : Whole(m) \in Seq(Byte) /\ Whole(m)[1] = <<m, 1>>
      /\ Whole(Last) = Prefix(Last, t)
  BY <1>1, TypeFacts DEF IInv
<1>3. /\ g_response_buffer' \in Seq(Byte) /\ Len(g_response_buffer') = done + n
      /\ done + n \in Nat
  <2>1. done + n \in Nat
    BY <1>1
  <2> QED
    BY <1>0, <1>1, <2>1, PrefixIsBytes
<1>4. Whole(Last)' = Whole(Last) /\ \A m \in DOMAIN totals : Whole(m)' = Whole(m)
  BY <1>1 DEF Whole
<1>5. /\ sending' \in BOOLEAN
      /\ sending' => g_receiving_response' = TRUE /\ UNCHANGED processed
      /\ ~sending' => /\ g_receiving_response' = FALSE
                      /\ processed' = Append(processed, Whole(Last))
  BY CollectedDoes
<1>6. CASE sending'
  <2>1. g_receiving_response' = TRUE /\ UNCHANGED processed
    BY <1>5, <1>6
  <2>2. TypeOK'
    BY <1>0, <1>1, <1>2, <1>3, <1>5, <2>1 DEF TypeOK
  <2>3. InTheMiddle' /\ BufferOfMessage'
    BY <1>0, <1>1, <1>6, <2>1 DEF IInv, InTheMiddle, BufferOfMessage
  <2>4. HandedOn' /\ InOrder' /\ NoneMissed'
    BY <1>1, <1>4, <1>6, <2>1 DEF IInv, HandedOn, InOrder, NoneMissed
  <2> QED
    BY <2>2, <2>3, <2>4 DEF IInv
<1>7. CASE ~sending'
  <2>2. /\ g_receiving_response' = FALSE
        /\ processed' = Append(processed, Whole(Last))
    BY <1>5, <1>7
  <2> DEFINE e == Whole(Last)  z == Len(processed)
  <2>3. e \in Seq(Byte) /\ e[1] = <<Last, 1>> /\ processed \in Seq(Seq(Byte))
    BY <1>1, <1>2 DEF TypeOK
  <2>4. /\ processed' \in Seq(Seq(Byte)) /\ Len(processed') = z + 1
        /\ \A k \in 1..z : processed'[k] = processed[k]
        /\ processed'[z + 1] = e
    <3> DEFINE B == Seq(Byte)
    <3>1. e \in B /\ processed \in Seq(B) /\ processed' = Append(processed, e)
      BY <2>2, <2>3
    <3> HIDE DEF B, e
    <3>2. /\ processed' \in Seq(B) /\ Len(processed') = z + 1
          /\ \A k \in 1..z : processed'[k] = processed[k]
          /\ processed'[z + 1] = e
      BY <3>1, AppendProperties
    <3> QED
      BY <3>2 DEF B
  <2>5. z \in Nat /\ DOMAIN processed = 1..z /\ DOMAIN processed' = 1..(z + 1)
    BY <2>3, <2>4, LenProperties
  <2>6. \A k \in 1..(z + 1) : k \in 1..z \/ k = z + 1
    BY <2>5
  <2>7. /\ \A k \in 1..z : \E m \in 1..Last :
               m # Last /\ processed[k] = Whole(m) /\ processed[k][1][1] = m
        /\ e[1][1] = Last
    <3>1. ASSUME NEW k \in 1..z
          PROVE  \E m \in 1..Last :
                     m # Last /\ processed[k] = Whole(m) /\ processed[k][1][1] = m
      <4>1. PICK m \in DOMAIN totals : processed[k] = Whole(m) /\ m # Last
        BY <1>1, <2>5 DEF IInv, HandedOn
      <4>2. m \in 1..Last /\ processed[k][1] = <<m, 1>>
        BY <1>2, <4>1
      <4>3. processed[k][1][1] = m
        BY <4>2
      <4> QED
        BY <4>1, <4>2, <4>3
    <3> QED
      BY <2>3, <3>1
  <2> HIDE DEF e, z
  <2>8. TypeOK'
    BY <1>0, <1>1, <1>2, <1>3, <1>5, <2>2, <2>4 DEF TypeOK
  <2>9. InTheMiddle' /\ BufferOfMessage'
    BY <1>7 DEF InTheMiddle, BufferOfMessage
  <2>10. HandedOn'
    <3>1. ASSUME NEW k \in DOMAIN processed'
          PROVE  \E m \in DOMAIN totals : processed'[k] = Whole(m)
      <4>1. CASE k \in 1..z
        BY <1>2, <2>4, <2>7, <4>1
      <4>2. CASE k = z + 1
        BY <1>1, <2>4, <4>2 DEF e
      <4> QED
        BY <2>5, <2>6, <3>1, <4>1, <4>2
    <3> QED
      BY <1>1, <1>4, <1>7, <3>1 DEF HandedOn
  <2>11. InOrder'
    <3>1. SUFFICES ASSUME NEW k \in DOMAIN processed', NEW l \in DOMAIN processed', k < l
                   PROVE  processed'[k][1][1] < processed'[l][1][1]
      BY DEF InOrder
    <3>2. k \in 1..z
      BY <2>5, <3>1
    <3>3. CASE l \in 1..z
      BY <2>4, <2>5, <3>1, <3>2, <3>3 DEF IInv, InOrder
    <3>4. CASE l = z + 1
      <4>1. PICK m \in 1..Last : m # Last /\ processed[k][1][1] = m
        BY <2>7, <3>2
      <4>2. m < Last
        BY <1>2, <4>1
      <4>3. processed'[k] = processed[k] /\ processed'[l] = e
        BY <2>4, <3>2, <3>4
      <4> QED
        BY <2>7, <4>1, <4>2, <4>3
    <3> QED
      BY <2>5, <2>6, <3>1, <3>3, <3>4
  <2>12. NoneMissed'
    <3>1. SUFFICES ASSUME NEW m \in DOMAIN totals, m \notin cut, totals[m] <= BufSize
                   PROVE  \E k \in DOMAIN processed' : processed'[k] = Whole(m)
      BY <1>1, <1>4 DEF NoneMissed
    <3>2. CASE m = Last
      <4>1. z + 1 \in DOMAIN processed'
        BY <2>5
      <4> QED
        BY <2>4, <3>2, <4>1 DEF e
    <3>3. CASE m # Last
      <4>1. PICK k \in DOMAIN processed : processed[k] = Whole(m)
        BY <3>1, <3>3 DEF IInv, NoneMissed
      <4>2. k \in DOMAIN processed' /\ processed'[k] = processed[k]
        BY <2>4, <2>5, <4>1
      <4> QED
        BY <4>1, <4>2
    <3> QED
      BY <3>2, <3>3
  <2> QED
    BY <2>8, <2>9, <2>10, <2>11, <2>12 DEF IInv
<1> QED
  BY <1>6, <1>7

\* A fragment of a message that is given up.
LEMMA GivenUpKeeps ==
  ASSUME IInv, NEW n \in 1..MaxFrame, GivenUp(n)
  PROVE  IInv'
<1>0. /\ Frame(n) /\ totals[Last] > BufSize
      /\ ~g_receiving_response' /\ g_receiving_response' \in BOOLEAN
      /\ UNCHANGED <<g_response_buffer, g_expected_response_len, processed>>
  BY DEF GivenUp
<1>1. /\ sending /\ Last \in DOMAIN totals /\ Last \in Nat /\ Last >= 1
      /\ n \in Nat /\ done \in Nat /\ totals[Last] \in Nat
      /\ done + n <= totals[Last] /\ done' = done + n
      /\ sending' = (done + n < totals[Last])
      /\ UNCHANGED <<totals, cut>> /\ Last' = Last
  BY <1>0, FrameFacts
<1>2. TypeOK'
  BY <1>0, <1>1 DEF IInv, TypeOK
<1>3. InTheMiddle' /\ BufferOfMessage'
  BY <1>0, <1>1 DEF InTheMiddle, BufferOfMessage
<1>4. \A m \in DOMAIN totals : Whole(m)' = Whole(m)
  BY <1>1 DEF Whole
<1>5. HandedOn' /\ InOrder'
  BY <1>0, <1>1, <1>4 DEF IInv, HandedOn, InOrder
<1>6. NoneMissed'
  <2>1. SUFFICES ASSUME NEW m \in DOMAIN totals, m \notin cut, totals[m] <= BufSize
                 PROVE  \E k \in DOMAIN processed : processed[k] = Whole(m)
    BY <1>0, <1>1, <1>4 DEF NoneMissed
  <2>2. m # Last
    BY <1>0, <1>1, <2>1, Sizes
  <2> QED
    BY <2>1, <2>2 DEF IInv, NoneMissed
<1> QED
  BY <1>2, <1>3, <1>5, <1>6 DEF IInv

LEMMA NotifyFirstCollects ==
  ASSUME IInv, NEW n \in 1..MaxFrame, NotifyFirst(n)
  PROVE  Collected(n)
<1>1. /\ done = 0 /\ Frame(n) /\ Finish
      /\ g_expected_response_len' = totals[Last]
      /\ g_response_buffer' = Data(n)
  BY DEF NotifyFirst, Started
<1>2. n \in Nat /\ n <= BufSize
  BY Sizes
<1>3. Data(n) = Prefix(Last, n) /\ done + n = n
  BY <1>1, <1>2 DEF Data, Prefix
<1> QED
  BY <1>1, <1>2, <1>3 DEF Collected

LEMMA NotifyMoreCollects ==
  ASSUME IInv, NEW n \in 1..MaxFrame, NotifyMore(n)
  PROVE  Collected(n)
<1>1. /\ done > 0 /\ Frame(n) /\ Finish /\ g_receiving_response
      /\ ~Overflows(Data(n))
      /\ g_response_buffer' = g_response_buffer \o Data(n)
      /\ g_expected_response_len' = g_expected_response_len
  BY DEF NotifyMore
<1>2. sending /\ Last \in 1..MaxMsgs /\ n \in Nat /\ done \in Nat
  BY <1>1, FrameFacts
<1>3. g_response_buffer = Prefix(Last, done) /\ g_expected_response_len = totals[Last]
  BY <1>1, <1>2 DEF IInv, BufferOfMessage
<1>4. Data(n) = [j \in 1..n |-> <<Last, done + j>>]
  BY DEF Data
<1>5. g_response_buffer' = Prefix(Last, done + n)
  BY <1>1, <1>2, <1>3, <1>4, PrefixGrows
<1>6. Len(g_response_buffer) = done /\ Len(Data(n)) = n
  BY <1>2, <1>3, <1>4, PrefixIsBytes
<1>7. done + n <= BufSize
  BY <1>1, <1>2, <1>6, Sizes DEF Overflows
<1> QED
  BY <1>1, <1>3, <1>5, <1>7 DEF Collected

LEMMA NotifyOverflowGivesUp ==
  ASSUME IInv, NEW n \in 1..MaxFrame, NotifyOverflow(n)
  PROVE  GivenUp(n)
<1>1. /\ done > 0 /\ Frame(n) /\ g_receiving_response /\ Overflows(Data(n))
      /\ g_receiving_response' = FALSE
      /\ UNCHANGED <<g_response_buffer, g_expected_response_len, processed>>
  BY DEF NotifyOverflow
<1>2. /\ sending /\ Last \in 1..MaxMsgs /\ n \in Nat /\ done \in Nat
      /\ totals[Last] \in Nat /\ done + n <= totals[Last]
  BY <1>1, FrameFacts
<1>3. g_response_buffer = Prefix(Last, done)
  BY <1>1, <1>2 DEF IInv, BufferOfMessage
<1>4. Len(g_response_buffer) = done /\ Len(Data(n)) = n
  BY <1>2, <1>3, PrefixIsBytes DEF Data
<1>5. totals[Last] > BufSize
  BY <1>1, <1>2, <1>4, Sizes DEF Overflows
<1> QED
  BY <1>1, <1>5 DEF GivenUp

LEMMA NotifyStrayGivenUp ==
  ASSUME IInv, NEW n \in 1..MaxFrame, NotifyStray(n)
  PROVE  GivenUp(n)
<1>1. /\ done > 0 /\ Frame(n) /\ ~g_receiving_response
      /\ UNCHANGED <<g_response_buffer, g_expected_response_len, g_receiving_response,
                     processed>>
  BY DEF NotifyStray, handler
<1>2. totals[Last] > BufSize
  BY <1>1, FrameFacts DEF IInv, BufferOfMessage
<1>3. g_receiving_response' \in BOOLEAN
  BY <1>1 DEF IInv, TypeOK
<1> QED
  BY <1>1, <1>2, <1>3 DEF GivenUp

LEMMA NotifyCases ==
  ASSUME IInv, NEW n \in 1..MaxFrame,
         NotifyFirst(n) \/ NotifyMore(n) \/ NotifyOverflow(n) \/ NotifyStray(n)
  PROVE  Collected(n) \/ GivenUp(n)
BY NotifyFirstCollects, NotifyMoreCollects, NotifyOverflowGivesUp, NotifyStrayGivenUp

LEMMA IndNext == IInv /\ [Next]_vars => IInv'
<1>1. SUFFICES ASSUME IInv, [Next]_vars
               PROVE  IInv'
  OBVIOUS
<1>2. ASSUME NEW total \in Lengths, Begin(total)
      PROVE  IInv'
  BY <1>1, <1>2, BeginKeeps
<1>3. CASE LinkLost
  BY <1>1, <1>3, LinkLostKeeps
<1>4. ASSUME NEW n \in 1..MaxFrame,
             NotifyFirst(n) \/ NotifyMore(n) \/ NotifyOverflow(n) \/ NotifyStray(n)
      PROVE  IInv'
  <2>1. Collected(n) \/ GivenUp(n)
    BY <1>1, <1>4, NotifyCases
  <2> QED
    BY <1>1, <2>1, CollectedKeeps, GivenUpKeeps
<1>5. CASE UNCHANGED vars
  <2>1. UNCHANGED <<g_response_buffer, g_expected_response_len, g_receiving_response,
                    processed, totals, done, sending, cut>>
    BY <1>5 DEF vars, handler
  <2> QED
    BY <1>1, <2>1 DEF IInv, TypeOK, InTheMiddle, BufferOfMessage, HandedOn, InOrder,
                      NoneMissed, Whole, Last
<1> QED
  BY <1>1, <1>2, <1>3, <1>4, <1>5 DEF Next

THEOREM Invariant == Spec => []IInv
<1> QED
  BY IndInit, IndNext, PTL DEF Spec

-----------------------------------------------------------------------------
(* SwitchReports adds nothing to what the handler does.                    *)

LEMMA ReportsStep == [ReportsNext]_allvars => [Next]_vars
<1>1. SUFFICES ASSUME [ReportsNext]_allvars
               PROVE  [Next]_vars
  OBVIOUS
<1>2. ASSUME NEW m \in Messages, Send(m)
      PROVE  Next
  <2>1. m.total \in Lengths
    BY MessagesAssumption
  <2> QED
    BY <1>2, <2>1 DEF Send, Next
<1>3. CASE LoseLink
  BY <1>3 DEF LoseLink, Next
<1>4. ASSUME NEW n \in 1..MaxFrame, Notified(n)
      PROVE  Next
  BY <1>4 DEF Notified, Next
<1>5. CASE ReadBool \/ ReadOther \/ ReadCut \/ PublishState \/ SetWebState
              \/ BrokerConnected \/ BrokerDisconnected
  BY <1>5 DEF ReadBool, ReadOther, ReadCut, PublishState, SetWebState, BrokerConnected,
              BrokerDisconnected
<1>6. CASE UNCHANGED allvars
  BY <1>6 DEF allvars
<1> QED
  BY <1>1, <1>2, <1>3, <1>4, <1>5, <1>6 DEF ReportsNext

LEMMA ReportsInvariant == ReportsSpec => []IInv
<1>1. ReportsInit => Init
  BY DEF ReportsInit
<1> QED
  BY <1>1, ReportsStep, IndInit, IndNext, PTL DEF ReportsSpec

\* Whatever is cut short or too long for the buffer, process_response gets whole
\* messages only, each at most once and in the order in which they were sent.
THEOREM OnlyWholeMessages == ReportsSpec => []WholeMessages
<1>1. IInv => WholeMessages
  BY DEF IInv, HandedOn, InOrder, WholeMessages
<1> QED
  BY <1>1, ReportsInvariant, PTL

\* ... and every one that came through and fits.
THEOREM EveryMessage == ReportsSpec => []NoneMissed
<1>1. IInv => NoneMissed
  BY DEF IInv
<1> QED
  BY <1>1, ReportsInvariant, PTL

-----------------------------------------------------------------------------
(* Greatest members, and the last value of a sequence of data points.      *)

LEMMA Least ==
  ASSUME NEW S \in SUBSET Nat, S # {}
  PROVE  \E m \in S : \A k \in S : m <= k
<1> DEFINE R == {ss \in Nat \X Nat : ss[1] < ss[2]}
<1>1. IsWellFoundedOn(R, Nat)
  BY NatLessThanWellFounded DEF OpToRel
<1>2. S \subseteq Nat
  OBVIOUS
<1> HIDE DEF R
<1>3. \E m \in S : \A k \in S : ~(<<k, m>> \in R)
  BY <1>1, <1>2, WFMin
<1>4. PICK m \in S : \A k \in S : ~(<<k, m>> \in R)
  BY <1>3
<1>5. \A k \in S : ~(k < m)
  BY <1>4 DEF R
<1> QED
  BY <1>5

LEMMA Greatest ==
  ASSUME NEW n \in Nat, NEW T \in SUBSET (1..n), T # {}
  PROVE  \E m \in T : \A l \in T : l <= m
<1> DEFINE S == {n - l : l \in T}
<1>1. S \in SUBSET Nat /\ S # {}
  <2>1. \A l \in T : n - l \in Nat
    OBVIOUS
  <2>2. \E l \in T : n - l \in S
    OBVIOUS
  <2> QED
    BY <2>1, <2>2
<1>2. PICK k \in S : \A j \in S : k <= j
  BY <1>1, Least
<1>3. PICK m \in T : k = n - m
  OBVIOUS
<1>4. \A l \in T : n - m <= n - l
  BY <1>2, <1>3
<1> QED
  BY <1>4

LEMMA GreatestIs ==
  ASSUME NEW T \in SUBSET Nat, NEW m \in T, \A l \in T : l <= m
  PROVE  (CHOOSE k \in T : \A l \in T : l <= k) = m
<1> DEFINE c == CHOOSE k \in T : \A l \in T : l <= k
<1>1. \E k \in T : \A l \in T : l <= k
  OBVIOUS
<1>2. c \in T /\ \A l \in T : l <= c
  BY <1>1, Zenon
<1> HIDE DEF c
<1>3. c \in Nat /\ m \in Nat /\ c <= m /\ m <= c
  BY <1>2
<1>4. c = m
  BY <1>3
<1> QED
  BY <1>4 DEF c

\* The places of the BOOLs that are read, and what is shown when all were read.
Good(s) ==
    {i \in DOMAIN s : s[i] \in State /\ \A c \in {j \in DOMAIN s : s[j] = "cut"} : i < c}

AfterReading(s, v) == IF Good(s) = {} THEN v ELSE LastValue(Bools(s))

LEMMA BoolsOfGood ==
  ASSUME NEW s \in Seq(DP)
  PROVE  /\ DOMAIN Bools(s) = Good(s)
         /\ \A i \in Good(s) : Bools(s)[i] = s[i]
         /\ Bools(s) = <<>> <=> Good(s) = {}
<1>1. Bools(s) = [i \in Good(s) |-> s[i]]
  BY DEF Bools, Good
<1>2. DOMAIN Bools(s) = Good(s) /\ \A i \in Good(s) : Bools(s)[i] = s[i]
  BY <1>1
<1>3. ASSUME Good(s) = {} PROVE Bools(s) = <<>>
  <2>1. Bools(s) = [i \in {} |-> s[i]]
    BY <1>1, <1>3
  <2>2. [i \in {} |-> s[i]] = <<>>
    OBVIOUS
  <2> QED
    BY <2>1, <2>2
<1>4. ASSUME Bools(s) = <<>> PROVE Good(s) = {}
  BY <1>2, <1>4
<1> QED
  BY <1>2, <1>3, <1>4

LEMMA LastIs ==
  ASSUME NEW s \in Seq(DP), NEW m \in Good(s), \A i \in Good(s) : i <= m
  PROVE  LastValue(Bools(s)) = s[m]
<1>1. DOMAIN Bools(s) = Good(s) /\ Bools(s)[m] = s[m]
  BY BoolsOfGood
<1>2. Good(s) \subseteq Nat
  BY LenProperties DEF Good
<1>3. (CHOOSE i \in Good(s) : \A j \in Good(s) : j <= i) = m
  BY <1>2, GreatestIs
<1> QED
  BY <1>1, <1>3 DEF LastValue

LEMMA LastExists ==
  ASSUME NEW s \in Seq(DP), Good(s) # {}
  PROVE  \E m \in Good(s) :
             (\A i \in Good(s) : i <= m) /\ LastValue(Bools(s)) = s[m]
<1>1. Good(s) \in SUBSET (1..Len(s)) /\ Len(s) \in Nat
  BY LenProperties DEF Good
<1>2. PICK m \in Good(s) : \A i \in Good(s) : i <= m
  BY <1>1, Greatest
<1> QED
  BY <1>2, LastIs

LEMMA GoodOfTail ==
  ASSUME NEW s \in Seq(DP), s # <<>>, Head(s) # "cut"
  PROVE  /\ Tail(s) \in Seq(DP)
         /\ Good(Tail(s)) \subseteq Nat /\ Good(s) \subseteq Nat
         /\ \A i \in Good(s) : i = 1 \/ i - 1 \in Good(Tail(s))
         /\ \A i \in Good(Tail(s)) : i + 1 \in Good(s) /\ Tail(s)[i] = s[i + 1]
         /\ 1 \in Good(s) <=> Head(s) \in State
         /\ s[1] = Head(s)
<1> DEFINE t == Tail(s)
<1>1. /\ t \in Seq(DP) /\ Len(t) = Len(s) - 1 /\ Len(s) \in Nat /\ Len(s) >= 1
      /\ \A i \in 1..Len(t) : t[i] = s[i + 1]
      /\ DOMAIN s = 1..Len(s) /\ DOMAIN t = 1..Len(t)
  BY HeadTailProperties, EmptySeq, LenProperties
<1>2. s[1] = Head(s)
  BY HeadTailProperties
<1> HIDE DEF t
<1>3. Good(t) \subseteq Nat /\ Good(s) \subseteq Nat
  BY <1>1 DEF Good
<1>4. ASSUME NEW i \in Good(s), i # 1
      PROVE  i - 1 \in Good(t)
  <2>1. /\ i \in 1..Len(s) /\ s[i] \in State
        /\ \A c \in 1..Len(s) : s[c] = "cut" => i < c
    BY <1>1, <1>4 DEF Good
  <2>2. i - 1 \in 1..Len(t) /\ t[i - 1] = s[i]
    BY <1>1, <1>4, <2>1
  <2>3. \A c \in 1..Len(t) : t[c] = "cut" => i - 1 < c
    BY <1>1, <2>1
  <2> QED
    BY <1>1, <2>1, <2>2, <2>3 DEF Good
<1>5. ASSUME NEW i \in Good(t)
      PROVE  i + 1 \in Good(s) /\ t[i] = s[i + 1]
  <2>1. /\ i \in 1..Len(t) /\ t[i] \in State
        /\ \A c \in 1..Len(t) : t[c] = "cut" => i < c
    BY <1>1, <1>5 DEF Good
  <2>2. i + 1 \in 1..Len(s) /\ t[i] = s[i + 1]
    BY <1>1, <2>1
  <2>3. ASSUME NEW c \in 1..Len(s), s[c] = "cut"
        PROVE  i + 1 < c
    <3>1. c # 1
      BY <1>2, <2>3
    <3>2. c - 1 \in 1..Len(t) /\ t[c - 1] = "cut"
      BY <1>1, <2>3, <3>1
    <3> QED
      BY <2>1, <3>2
  <2> QED
    BY <1>1, <2>1, <2>2, <2>3 DEF Good
<1>6. 1 \in Good(s) <=> Head(s) \in State
  BY <1>1, <1>2 DEF Good
<1> QED
  BY <1>1, <1>2, <1>3, <1>4, <1>5, <1>6 DEF t

LEMMA ReadOn ==
  ASSUME NEW s \in Seq(DP), s # <<>>, NEW v
  PROVE  /\ Head(s) = "cut" => Good(s) = {}
         /\ Head(s) = "other" => /\ Good(Tail(s)) = {} <=> Good(s) = {}
                                 /\ AfterReading(Tail(s), v) = AfterReading(s, v)
         /\ Head(s) \in State => /\ Good(s) # {}
                                 /\ AfterReading(Tail(s), Head(s)) = AfterReading(s, v)
<1>1. CASE Head(s) = "cut"
  <2>1. Len(s) \in Nat /\ Len(s) >= 1 /\ DOMAIN s = 1..Len(s) /\ s[1] = "cut"
    BY <1>1, HeadTailProperties, EmptySeq, LenProperties
  <2>2. Good(s) = {}
    BY <2>1 DEF Good
  <2> QED
    BY <1>1, <2>2 DEF State
<1>2. CASE Head(s) # "cut"
  <2> DEFINE t == Tail(s)
  <2>1. /\ t \in Seq(DP) /\ Good(t) \subseteq Nat /\ Good(s) \subseteq Nat
        /\ \A i \in Good(s) : i = 1 \/ i - 1 \in Good(t)
        /\ \A i \in Good(t) : i + 1 \in Good(s) /\ t[i] = s[i + 1]
        /\ 1 \in Good(s) <=> Head(s) \in State
        /\ s[1] = Head(s)
    BY <1>2, GoodOfTail
  <2> HIDE DEF t
  <2>2. ASSUME Good(t) # {}
        PROVE  Good(s) # {} /\ LastValue(Bools(t)) = LastValue(Bools(s))
    <3>1. PICK m \in Good(t) :
              (\A i \in Good(t) : i <= m) /\ LastValue(Bools(t)) = t[m]
      BY <2>1, <2>2, LastExists
    <3>2. m + 1 \in Good(s) /\ s[m + 1] = t[m]
      BY <2>1, <3>1
    <3>3. \A i \in Good(s) : i <= m + 1
      BY <2>1, <3>1
    <3>4. LastValue(Bools(s)) = s[m + 1]
      BY <3>2, <3>3, LastIs
    <3> QED
      BY <3>1, <3>2, <3>4
  <2>3. ASSUME Good(t) = {}
        PROVE  /\ Head(s) = "other" => Good(s) = {}
               /\ Head(s) \in State => Good(s) # {} /\ LastValue(Bools(s)) = Head(s)
    <3>1. ASSUME Head(s) \in State
          PROVE  Good(s) # {} /\ LastValue(Bools(s)) = Head(s)
      <4>1. 1 \in Good(s) /\ \A i \in Good(s) : i <= 1
        BY <2>1, <2>3, <3>1
      <4> QED
        BY <2>1, <4>1, LastIs
    <3>2. ASSUME Head(s) = "other"
          PROVE  Good(s) = {}
      <4>1. Head(s) \notin State
        BY <3>2 DEF State
      <4> QED
        BY <2>1, <2>3, <4>1
    <3> QED
      BY <3>1, <3>2
  <2>4. Head(s) \in State => 1 \in Good(s)
    BY <2>1
  <2>5. /\ Head(s) = "other" => /\ Good(t) = {} <=> Good(s) = {}
                                /\ AfterReading(t, v) = AfterReading(s, v)
        /\ Head(s) \in State => /\ Good(s) # {}
                                /\ AfterReading(t, Head(s)) = AfterReading(s, v)
    BY <2>2, <2>3, <2>4 DEF AfterReading
  <2> QED
    BY <1>2, <2>5 DEF t
<1> QED
  BY <1>1, <1>2

-----------------------------------------------------------------------------
(* What the users of the bridge are shown.                                 *)

\* A message that is being sent has not been cut short.
CutWasSent == cut \subseteq 1..Last /\ (sending => Last \notin cut)

\* In the callback the Bluetooth task has a BOOL in hand.
InCallback == step # "read" => todo # <<>> /\ Head(todo) \in State

\* Once what is left of the answer in hand was read, the page shows the last report.
WillShowLast == AfterReading(todo, web_switch_state) = Reported

\* The state topic holds the value that is being handed on, or what the page shows;
\* nothing at all only if no answer so far, but the one in hand, had a value.
WillRetainLast ==
    ~missed =>
        IF step = "web" THEN retained = Head(todo)
        ELSE \/ retained = web_switch_state
             \/ retained = "none" /\ (Telling = {} \/ Good(todo) # {})

RInv ==
    /\ IInv /\ ReportsTypeOK
    /\ CutWasSent /\ InCallback /\ WillShowLast /\ WillRetainLast

LEMMA TellingFacts ==
  ASSUME ReportsTypeOK
  PROVE  /\ Telling \in SUBSET (1..Last) /\ Last \in Nat
         /\ \A m \in 1..Last : sent_dps[m] \in Seq(DP)
         /\ Telling = {m \in 1..Last :
                          /\ m \notin cut /\ totals[m] <= BufSize
                          /\ ~(sending /\ m = Last) /\ Good(sent_dps[m]) # {}}
<1>1. DOMAIN totals = 1..Last /\ Last \in Nat
  BY TypeFacts DEF ReportsTypeOK
<1>2. \A m \in 1..Last : sent_dps[m] \in Seq(DP)
  <2>1. sent_dps \in Seq(Seq(DP)) /\ Len(sent_dps) = Last
    BY DEF ReportsTypeOK
  <2> DEFINE D == Seq(DP)
  <2>2. sent_dps \in Seq(D) /\ Len(sent_dps) = Last
    BY <2>1
  <2> HIDE DEF D
  <2>3. \A m \in 1..Last : sent_dps[m] \in D
    BY <2>2, ElementOfSeq
  <2> QED
    BY <2>3 DEF D
<1>3. \A m \in 1..Last : Bools(sent_dps[m]) # <<>> <=> Good(sent_dps[m]) # {}
  BY <1>2, BoolsOfGood
<1> QED
  BY <1>1, <1>2, <1>3 DEF Telling

\* The report stands as long as no answer joins those that came through.
LEMMA ReportStands ==
  ASSUME ReportsTypeOK, Telling' = Telling,
         \A m \in 1..Last : sent_dps'[m] = sent_dps[m]
  PROVE  Reported' = Reported
<1>1. CASE Telling = {}
  BY <1>1 DEF Reported
<1>2. CASE Telling # {}
  <2>1. Telling \in SUBSET (1..Last) /\ Last \in Nat
    BY TellingFacts
  <2>2. PICK m \in Telling : \A l \in Telling : l <= m
    BY <1>2, <2>1, Greatest
  <2> DEFINE c == CHOOSE k \in Telling : \A l \in Telling : l <= k
  <2>3. c \in Telling
    BY <2>2
  <2>4. sent_dps'[c] = sent_dps[c]
    BY <2>1, <2>3
  <2>5. Reported = LastValue(Bools(sent_dps[c]))
    BY <1>2 DEF Reported
  <2>6. Reported' = LastValue(Bools(sent_dps'[c]))
    BY <1>2 DEF Reported
  <2> QED
    BY <2>4, <2>5, <2>6
<1> QED
  BY <1>1, <1>2

\* ... and is the last value of the one that does.
LEMMA ReportIsNewest ==
  ASSUME NEW m \in Nat, m \in Telling', \A l \in Telling' : l \in Nat /\ l <= m,
         sent_dps' = sent_dps
  PROVE  Reported' = LastValue(Bools(sent_dps[m]))
<1> DEFINE T == Telling'
<1>1. Reported' = LastValue(Bools(sent_dps[CHOOSE k \in T : \A l \in T : l <= k]))
  BY DEF Reported
<1>2. m \in T /\ T \in SUBSET Nat /\ \A l \in T : l <= m
  OBVIOUS
<1> HIDE DEF T
<1>3. (CHOOSE k \in T : \A l \in T : l <= k) = m
  BY <1>2, GreatestIs
<1> QED
  BY <1>1, <1>3

LEMMA ReportsIndInit == ReportsInit => RInv
<1>1. SUFFICES ASSUME ReportsInit
               PROVE  RInv
  OBVIOUS
<1>2. IInv /\ TypeOK
  BY <1>1, IndInit DEF ReportsInit, IInv
<1>3. /\ totals = <<>> /\ cut = {} /\ sending = FALSE /\ sent_dps = <<>> /\ todo = <<>>
      /\ step = "read" /\ g_switch_state = "off" /\ web_switch_state = "off"
      /\ s_connected = FALSE /\ retained = "none" /\ missed = FALSE
  BY <1>1 DEF ReportsInit, Init
<1>4. ReportsTypeOK
  <2>1. <<>> \in Seq(Seq(DP)) /\ <<>> \in Seq(DP) /\ Len(<<>>) = 0
    OBVIOUS
  <2> QED
    BY <1>2, <1>3, <2>1 DEF ReportsTypeOK, State, Last
<1>5. Telling = {} /\ Good(todo) = {}
  BY <1>3 DEF Telling, Good
<1>6. CutWasSent /\ InCallback /\ WillRetainLast
  BY <1>3, <1>5 DEF CutWasSent, InCallback, WillRetainLast
<1>7. WillShowLast
  BY <1>3, <1>5 DEF WillShowLast, AfterReading, Reported
<1> QED
  BY <1>2, <1>4, <1>6, <1>7 DEF RInv

LEMMA SendKeeps ==
  ASSUME RInv, NEW m \in Messages, Send(m), IInv'
  PROVE  RInv'
<1>1. /\ ~sending /\ sending' /\ totals' = Append(totals, m.total)
      /\ UNCHANGED cut
      /\ sent_dps' = Append(sent_dps, m.dps)
      /\ UNCHANGED <<todo, step, g_switch_state, web_switch_state, s_connected,
                     retained, missed>>
  BY DEF Send, Begin
<1>2. m.total \in Lengths /\ m.dps \in Seq(DP)
  BY MessagesAssumption
<1>3. /\ ReportsTypeOK /\ TypeOK /\ TypeOK'
      /\ totals \in Seq(Lengths) /\ Last \in Nat
  BY TypeFacts DEF RInv, IInv
<1>4. Last' = Last + 1 /\ \A l \in 1..Last : totals'[l] = totals[l]
  BY <1>1, <1>2, <1>3, AppendProperties DEF Last
<1>5. /\ sent_dps' \in Seq(Seq(DP)) /\ Len(sent_dps') = Last + 1
      /\ \A l \in 1..Last : sent_dps'[l] = sent_dps[l]
  <2> DEFINE D == Seq(DP)
  <2>1. sent_dps \in Seq(D) /\ Len(sent_dps) = Last /\ m.dps \in D
    BY <1>2, <1>3 DEF ReportsTypeOK
  <2> HIDE DEF D
  <2>2. /\ sent_dps' \in Seq(D) /\ Len(sent_dps') = Last + 1
        /\ \A l \in 1..Last : sent_dps'[l] = sent_dps[l]
    BY <1>1, <2>1, AppendProperties
  <2> QED
    BY <2>2 DEF D
<1>6. ReportsTypeOK'
  BY <1>1, <1>3, <1>4, <1>5 DEF ReportsTypeOK
<1>7. Telling' = Telling
  <2>1. DOMAIN totals = 1..Last /\ DOMAIN totals' = 1..(Last + 1)
    BY <1>3, <1>4, LenProperties DEF IInv, TypeOK, Last
  <2>2. Telling = {l \in 1..Last :
                      /\ l \notin cut /\ totals[l] <= BufSize
                      /\ ~(sending /\ l = Last) /\ Bools(sent_dps[l]) # <<>>}
    BY <2>1 DEF Telling
  <2>3. Telling' = {l \in 1..(Last + 1) :
                      /\ l \notin cut /\ totals'[l] <= BufSize
                      /\ l # Last + 1 /\ Bools(sent_dps'[l]) # <<>>}
    BY <1>1, <1>4, <2>1 DEF Telling
  <2>4. /\ \A l \in 1..Last : l # Last + 1
        /\ \A l \in 1..(Last + 1) : l \in 1..Last \/ l = Last + 1
        /\ 1..Last \subseteq 1..(Last + 1)
    BY <1>3
  <2>5. ASSUME NEW l
        PROVE  l \in Telling' <=> l \in Telling
    BY <1>1, <1>4, <1>5, <2>2, <2>3, <2>4
  <2> QED
    BY <2>5
<1>8. Reported' = Reported
  BY <1>3, <1>5, <1>7, ReportStands
<1>9. CutWasSent'
  BY <1>1, <1>3, <1>4 DEF RInv, CutWasSent
<1>10. InCallback' /\ WillShowLast' /\ WillRetainLast'
  BY <1>1, <1>7, <1>8 DEF RInv, InCallback, WillShowLast, WillRetainLast
<1> QED
  BY <1>6, <1>9, <1>10 DEF RInv

LEMMA LoseLinkKeeps ==
  ASSUME RInv, LoseLink, IInv'
  PROVE  RInv'
<1>1. /\ sending /\ ~sending' /\ cut' = cut \union {Last} /\ UNCHANGED totals
      /\ UNCHANGED <<sent_dps, todo, step, g_switch_state, web_switch_state, s_connected,
                     retained, missed>>
  BY DEF LoseLink, LinkLost, reports, RInv, IInv, TypeOK
<1>2. Last' = Last /\ Last \in 1..Last
  BY <1>1, TypeFacts DEF Last, RInv, IInv, InTheMiddle
<1>3. ReportsTypeOK'
  BY <1>1, <1>2 DEF RInv, IInv, ReportsTypeOK
<1>4. Telling' = Telling
  BY <1>1, <1>2 DEF Telling
<1>5. Reported' = Reported
  BY <1>1, <1>4, ReportStands DEF RInv
<1>6. CutWasSent'
  BY <1>1, <1>2 DEF RInv, CutWasSent
<1>7. InCallback' /\ WillShowLast' /\ WillRetainLast'
  BY <1>1, <1>4, <1>5 DEF RInv, InCallback, WillShowLast, WillRetainLast
<1> QED
  BY <1>3, <1>6, <1>7 DEF RInv

\* The answer that became complete is the newest one; without one nothing was reported.
LEMMA NotifiedTells ==
  ASSUME RInv, NEW n \in 1..MaxFrame, Notified(n)
  PROVE  /\ todo' \in Seq(DP)
         /\ \/ todo' = <<>> /\ Telling' = Telling
            \/ /\ Last \in 1..Last /\ todo' = sent_dps[Last]
               /\ Telling' = IF Good(todo') = {} THEN Telling ELSE Telling \union {Last}
<1>1. /\ todo' = IF processed' = processed THEN <<>>
                 ELSE sent_dps[processed'[Len(processed')][1][1]]
      /\ UNCHANGED sent_dps
      /\ IInv /\ TypeOK /\ ReportsTypeOK
  BY DEF Notified, RInv, IInv
<1>2. Collected(n) \/ GivenUp(n)
  BY <1>1, NotifyCases DEF Notified
<1>3. /\ sending /\ Last \in 1..Last /\ Last \in DOMAIN totals
      /\ totals[Last] \in Nat
      /\ UNCHANGED <<totals, cut>> /\ Last' = Last
  BY <1>1, <1>2, FrameFacts, TypeFacts DEF Collected, GivenUp
<1>4. BufSize \in Nat /\ Last \notin cut
  BY <1>3, Sizes DEF RInv, CutWasSent
<1>5. CASE sending' /\ UNCHANGED processed
  <2>1. Telling' = Telling
    BY <1>1, <1>3, <1>5 DEF Telling
  <2>2. todo' = <<>> /\ <<>> \in Seq(DP)
    BY <1>1, <1>5
  <2> QED
    BY <2>1, <2>2
<1>6. CASE GivenUp(n)
  <2>1. UNCHANGED processed /\ ~(totals[Last] <= BufSize)
    BY <1>3, <1>4, <1>6 DEF GivenUp
  <2>2. Telling' = Telling
    <3>1. ASSUME NEW m
          PROVE  m \in Telling' <=> m \in Telling
      BY <1>1, <1>3, <2>1 DEF Telling
    <3> QED
      BY <3>1
  <2>3. todo' = <<>> /\ <<>> \in Seq(DP)
    BY <1>1, <2>1
  <2> QED
    BY <2>2, <2>3
<1>7. CASE ~sending' /\ totals[Last] <= BufSize /\ processed' = Append(processed, Whole(Last))
  <2>1. todo' = sent_dps[Last]
    <3> DEFINE B == Seq(Byte)  e == Whole(Last)
    <3>1. processed \in Seq(B) /\ e \in B /\ e[1] = <<Last, 1>>
      BY <1>1, <1>3, TypeFacts DEF TypeOK
    <3>2. processed' = Append(processed, e)
      BY <1>7
    <3> HIDE DEF B, e
    <3>3. processed' # processed /\ processed'[Len(processed')] = e
      BY <3>1, <3>2, AppendProperties, LenProperties
    <3>4. processed'[Len(processed')][1][1] = Last
      BY <3>1, <3>3
    <3> QED
      BY <1>1, <3>3, <3>4
  <2>2. todo' \in Seq(DP)
    BY <1>1, <1>3, <2>1, TellingFacts
  <2>3. Bools(sent_dps[Last]) = <<>> <=> Good(todo') = {}
    BY <2>1, <2>2, BoolsOfGood
  <2>4. ASSUME NEW m
        PROVE  m \in Telling' <=>
                   \/ m \in Telling
                   \/ m = Last /\ Bools(sent_dps[Last]) # <<>>
    BY <1>1, <1>3, <1>4, <1>7 DEF Telling
  <2>5. Telling' = IF Good(todo') = {} THEN Telling ELSE Telling \union {Last}
    BY <2>3, <2>4
  <2> QED
    BY <1>3, <2>1, <2>2, <2>5
<1> QED
  BY <1>1, <1>2, <1>5, <1>6, <1>7, CollectedDoes

LEMMA NotifiedKeeps ==
  ASSUME RInv, NEW n \in 1..MaxFrame, Notified(n), IInv'
  PROVE  RInv'
<1>1. /\ todo = <<>>
      /\ UNCHANGED <<sent_dps, step, g_switch_state, web_switch_state, s_connected,
                     retained, missed>>
      /\ IInv /\ ReportsTypeOK /\ TypeOK'
  BY DEF Notified, RInv, IInv
<1>2. sending /\ UNCHANGED <<totals, cut>> /\ Last' = Last
  <2>1. Collected(n) \/ GivenUp(n)
    BY <1>1, NotifyCases DEF Notified
  <2> QED
    BY <1>1, <2>1, FrameFacts DEF Collected, GivenUp
<1>3. /\ todo' \in Seq(DP)
      /\ \/ todo' = <<>> /\ Telling' = Telling
         \/ /\ Last \in 1..Last /\ todo' = sent_dps[Last]
            /\ Telling' = IF Good(todo') = {} THEN Telling ELSE Telling \union {Last}
  BY NotifiedTells
<1>4. ReportsTypeOK'
  BY <1>1, <1>2, <1>3 DEF ReportsTypeOK
<1>5. CutWasSent'
  BY <1>2 DEF RInv, CutWasSent
<1>6. step = "read" /\ InCallback'
  BY <1>1 DEF RInv, InCallback
<1>7. Good(<<>>) = {}
  BY DEF Good
<1>8. web_switch_state = Reported
  BY <1>1, <1>7 DEF RInv, WillShowLast, AfterReading
<1>9. CASE Good(todo') = {}
  <2>1. Telling' = Telling
    BY <1>3, <1>7, <1>9
  <2>2. Reported' = Reported
    BY <1>1, <2>1, ReportStands
  <2>3. WillShowLast'
    BY <1>1, <1>8, <1>9, <2>2 DEF WillShowLast, AfterReading
  <2>4. WillRetainLast'
    BY <1>1, <1>6, <1>7, <2>1 DEF RInv, WillRetainLast
  <2> QED
    BY <1>4, <1>5, <1>6, <2>3, <2>4 DEF RInv
<1>10. CASE Good(todo') # {}
  <2>1. /\ Last \in 1..Last /\ todo' = sent_dps[Last]
        /\ Telling' = Telling \union {Last}
    BY <1>3, <1>7, <1>10
  <2>2. Telling \in SUBSET (1..Last) /\ Last \in Nat
    BY <1>1, TellingFacts
  <2>3. Reported' = LastValue(Bools(todo'))
    BY <1>1, <2>1, <2>2, ReportIsNewest
  <2>4. WillShowLast'
    BY <1>10, <2>3 DEF WillShowLast, AfterReading
  <2>5. WillRetainLast'
    BY <1>1, <1>6, <1>7, <1>10 DEF RInv, WillRetainLast
  <2> QED
    BY <1>4, <1>5, <1>6, <2>4, <2>5 DEF RInv
<1> QED
  BY <1>9, <1>10

\* The callback and the broker leave what the device sent alone.
LEMMA SameReports ==
  ASSUME RInv, UNCHANGED vars, UNCHANGED sent_dps
  PROVE  IInv' /\ CutWasSent' /\ Telling' = Telling /\ Reported' = Reported /\ Last' = Last
<1>1. [Next]_vars
  OBVIOUS
<1>2. IInv'
  BY <1>1, IndNext DEF RInv
<1>3. UNCHANGED <<processed, totals, sending, cut>>
  BY DEF vars, handler
<1>4. Last' = Last /\ Telling' = Telling
  BY <1>3 DEF Last, Telling
<1>5. Reported' = Reported
  BY <1>4, ReportStands DEF RInv
<1>6. CutWasSent'
  BY <1>3, <1>4 DEF RInv, CutWasSent
<1> QED
  BY <1>2, <1>4, <1>5, <1>6

LEMMA ReadKeeps ==
  ASSUME RInv, ReadBool \/ ReadOther \/ ReadCut
  PROVE  RInv'
<1>1. /\ step = "read" /\ todo # <<>> /\ todo \in Seq(DP)
      /\ UNCHANGED <<vars, sent_dps, web_switch_state, s_connected, retained, missed>>
      /\ ReportsTypeOK
  BY DEF ReadBool, ReadOther, ReadCut, RInv, ReportsTypeOK
<1>2. IInv' /\ CutWasSent' /\ Telling' = Telling /\ Reported' = Reported /\ Last' = Last
  BY <1>1, SameReports
<1>3. CASE ReadBool
  <2>1. Head(todo) \in State /\ g_switch_state' = Head(todo) /\ step' = "publish"
        /\ todo' = todo
    BY <1>3 DEF ReadBool
  <2>2. ReportsTypeOK'
    BY <1>1, <1>2, <2>1 DEF ReportsTypeOK, IInv
  <2>3. InCallback' /\ WillShowLast' /\ WillRetainLast'
    BY <1>1, <1>2, <2>1 DEF RInv, InCallback, WillShowLast, WillRetainLast
  <2> QED
    BY <1>2, <2>2, <2>3 DEF RInv
<1>4. CASE ReadOther
  <2>1. Head(todo) = "other" /\ todo' = Tail(todo) /\ UNCHANGED <<g_switch_state, step>>
    BY <1>4 DEF ReadOther
  <2>2. /\ Good(todo') = {} <=> Good(todo) = {}
        /\ AfterReading(todo', web_switch_state) = AfterReading(todo, web_switch_state)
    BY <1>1, <2>1, ReadOn
  <2>3. todo' \in Seq(DP)
    BY <1>1, <2>1, HeadTailProperties
  <2>4. ReportsTypeOK'
    BY <1>1, <1>2, <2>1, <2>3 DEF ReportsTypeOK, IInv
  <2>5. InCallback' /\ WillShowLast' /\ WillRetainLast'
    BY <1>1, <1>2, <2>1, <2>2 DEF RInv, InCallback, WillShowLast, WillRetainLast
  <2> QED
    BY <1>2, <2>4, <2>5 DEF RInv
<1>5. CASE ReadCut
  <2>1. Head(todo) = "cut" /\ todo' = <<>> /\ UNCHANGED <<g_switch_state, step>>
    BY <1>5 DEF ReadCut, AfterCut
  <2>2. Good(todo) = {} /\ Good(todo') = {}
    BY <1>1, <2>1, ReadOn DEF Good
  <2>3. todo' \in Seq(DP)
    BY <2>1
  <2>4. ReportsTypeOK'
    BY <1>1, <1>2, <2>1, <2>3 DEF ReportsTypeOK, IInv
  <2>5. InCallback' /\ WillShowLast' /\ WillRetainLast'
    BY <1>1, <1>2, <2>1, <2>2 DEF RInv, InCallback, WillShowLast, WillRetainLast,
                                  AfterReading
  <2> QED
    BY <1>2, <2>4, <2>5 DEF RInv
<1> QED
  BY <1>3, <1>4, <1>5

LEMMA HandOnKeeps ==
  ASSUME RInv, PublishState \/ SetWebState
  PROVE  RInv'
<1>1. /\ step # "read" /\ todo # <<>> /\ todo \in Seq(DP) /\ Head(todo) \in State
      /\ UNCHANGED <<vars, sent_dps, g_switch_state, s_connected>>
      /\ ReportsTypeOK
  BY DEF PublishState, SetWebState, RInv, ReportsTypeOK, InCallback
<1>2. IInv' /\ CutWasSent' /\ Telling' = Telling /\ Reported' = Reported /\ Last' = Last
  BY <1>1, SameReports
<1>3. CASE PublishState
  <2>1. /\ step = "publish" /\ step' = "web"
        /\ retained' = IF s_connected THEN Head(todo) ELSE retained
        /\ missed' = ~s_connected /\ UNCHANGED <<todo, web_switch_state>>
    BY <1>3 DEF PublishState, Published
  <2>2. missed' \in BOOLEAN /\ (~missed' => retained' = Head(todo))
    BY <1>1, <2>1 DEF ReportsTypeOK
  <2>3. ReportsTypeOK'
    BY <1>1, <1>2, <2>1, <2>2 DEF ReportsTypeOK, IInv
  <2>4. InCallback' /\ WillShowLast' /\ WillRetainLast'
    BY <1>1, <1>2, <2>1, <2>2 DEF RInv, InCallback, WillShowLast, WillRetainLast
  <2> QED
    BY <1>2, <2>3, <2>4 DEF RInv
<1>4. CASE SetWebState
  <2>1. /\ step = "web" /\ step' = "read"
        /\ web_switch_state' = Head(todo) /\ todo' = Tail(todo)
        /\ UNCHANGED <<retained, missed>>
    BY <1>4 DEF SetWebState
  <2>2. AfterReading(todo', web_switch_state') = AfterReading(todo, web_switch_state)
    BY <1>1, <2>1, ReadOn
  <2>3. todo' \in Seq(DP)
    BY <1>1, <2>1, HeadTailProperties
  <2>4. ReportsTypeOK'
    BY <1>1, <1>2, <2>1, <2>3 DEF ReportsTypeOK, IInv
  <2>5. InCallback' /\ WillShowLast'
    BY <1>2, <2>1, <2>2 DEF RInv, InCallback, WillShowLast
  <2>6. WillRetainLast'
    BY <2>1 DEF RInv, WillRetainLast
  <2> QED
    BY <1>2, <2>4, <2>5, <2>6 DEF RInv
<1> QED
  BY <1>3, <1>4

LEMMA BrokerKeeps ==
  ASSUME RInv, BrokerConnected \/ BrokerDisconnected \/ UNCHANGED allvars
  PROVE  RInv'
<1>1. /\ UNCHANGED <<vars, sent_dps, todo, step, g_switch_state, web_switch_state,
                     retained, missed>>
      /\ s_connected' \in BOOLEAN
      /\ ReportsTypeOK
  BY DEF BrokerConnected, BrokerDisconnected, allvars, reports, RInv, ReportsTypeOK
<1>2. IInv' /\ CutWasSent' /\ Telling' = Telling /\ Reported' = Reported /\ Last' = Last
  BY <1>1, SameReports
<1>3. ReportsTypeOK'
  BY <1>1, <1>2 DEF ReportsTypeOK, IInv
<1>4. InCallback' /\ WillShowLast' /\ WillRetainLast'
  BY <1>1, <1>2 DEF RInv, InCallback, WillShowLast, WillRetainLast
<1> QED
  BY <1>2, <1>3, <1>4 DEF RInv

LEMMA ReportsIndNext == RInv /\ [ReportsNext]_allvars => RInv'
<1>1. SUFFICES ASSUME RInv, [ReportsNext]_allvars
               PROVE  RInv'
  OBVIOUS
<1>2. IInv'
  BY <1>1, ReportsStep, IndNext DEF RInv
<1>3. ASSUME NEW m \in Messages, Send(m)
      PROVE  RInv'
  BY <1>1, <1>2, <1>3, SendKeeps
<1>4. CASE LoseLink
  BY <1>1, <1>2, <1>4, LoseLinkKeeps
<1>5. ASSUME NEW n \in 1..MaxFrame, Notified(n)
      PROVE  RInv'
  BY <1>1, <1>2, <1>5, NotifiedKeeps
<1>6. CASE ReadBool \/ ReadOther \/ ReadCut
  BY <1>1, <1>6, ReadKeeps
<1>7. CASE PublishState \/ SetWebState
  BY <1>1, <1>7, HandOnKeeps
<1>8. CASE BrokerConnected \/ BrokerDisconnected \/ UNCHANGED allvars
  BY <1>1, <1>8, BrokerKeeps
<1> QED
  BY <1>1, <1>3, <1>4, <1>5, <1>6, <1>7, <1>8 DEF ReportsNext

LEMMA ReportsIInv == ReportsSpec => []RInv
<1> QED
  BY ReportsIndInit, ReportsIndNext, PTL DEF ReportsSpec

\* The state of the handler and of all that its answers reach keeps its type.
THEOREM ReportsTypeCorrect == ReportsSpec => []ReportsTypeOK
<1>1. RInv => ReportsTypeOK
  BY DEF RInv
<1> QED
  BY <1>1, ReportsIInv, PTL

\* With no answer in hand the web page shows the last value of the last answer that
\* came through whole, whatever was cut short, too long or unreadable since.
THEOREM ShowsLast == ReportsSpec => []ShowsLastReport
<1>1. RInv => ShowsLastReport
  BY DEF RInv, WillShowLast, AfterReading, Good, ShowsLastReport
<1> QED
  BY <1>1, ReportsIInv, PTL

\* ... and so does the state topic, unless the broker was away when that value came.
THEOREM RetainsLast == ReportsSpec => []RetainsLastReport
<1>1. RInv => RetainsLastReport
  <2>1. SUFFICES ASSUME RInv, todo = <<>>, Telling # {}, ~missed
                 PROVE  retained = Reported
    BY DEF RetainsLastReport
  <2>2. Good(todo) = {} /\ step = "read"
    BY <2>1 DEF RInv, InCallback, Good
  <2>3. web_switch_state = Reported
    BY <2>1, <2>2 DEF RInv, WillShowLast, AfterReading
  <2> QED
    BY <2>1, <2>2, <2>3 DEF RInv, WillRetainLast
<1> QED
  BY <1>1, ReportsIInv, PTL
=============================================================================
