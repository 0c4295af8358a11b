--------------------------- MODULE NotifyReassembly ---------------------------
(***************************************************************************)
(* The NOTIFY handler of tuya_ble_client.c, which puts the fragments of an *)
(* answer together: the first fragment of a message announces its length,  *)
(* the others are appended as they come, and a message that is complete is *)
(* handed to process_response.                                             *)
(*                                                                         *)
(* The device sends one message at a time.  On a link the fragments arrive *)
(* in order and none is lost; a link that ends cuts the message short.  The *)
(* DISCONNECT handler does not touch the globals below, so half a message  *)
(* stays in the buffer while the next link comes up.                       *)
(***************************************************************************)
EXTENDS Naturals, Sequences

CONSTANTS
    BufSize,    \* sizeof(g_response_buffer)
    MaxFrame,   \* most data bytes in one notification
    Lengths,    \* lengths of the messages the device sends
    MaxMsgs     \* bound: messages in a behaviour

ASSUME SizesAssumption ==
    BufSize \in Nat /\ MaxFrame \in 1..BufSize /\ MaxMsgs \in Nat
ASSUME LengthsAssumption == Lengths \subseteq Nat \ {0}

VARIABLES
    g_response_buffer,          \* the g_response_buffer_len bytes in use
    g_expected_response_len,
    g_receiving_response,
    processed,                  \* what process_response was called with
    \* --- the device ---
    totals,                     \* lengths of the messages it began to send
    done,                       \* bytes of the last one already sent
    sending,                    \* the last one is not finished
    cut                         \* messages cut short by the end of the link

handler == <<g_response_buffer, g_expected_response_len, g_receiving_response,
             processed>>
vars == <<handler, totals, done, sending, cut>>

\* A byte, named by its message and its place in it.
Byte == (1..MaxMsgs) \X Nat

Last == Len(totals)

TypeOK ==
    /\ g_response_buffer \in Seq(Byte)
    /\ Len(g_response_buffer) <= BufSize
    /\ g_expected_response_len \in Lengths \union {0}
    /\ g_receiving_response \in BOOLEAN
    /\ processed \in Seq(Seq(Byte))
    /\ totals \in Seq(Lengths) /\ Last <= MaxMsgs
    /\ done \in Nat
    /\ sending \in BOOLEAN
    /\ cut \subseteq 1..MaxMsgs

Init ==
    /\ g_response_buffer = <<>>
    /\ g_expected_response_len = 0
    /\ g_receiving_response = FALSE
    /\ processed = <<>>
    /\ totals = <<>>
    /\ done = 0
    /\ sending = FALSE
    /\ cut = {}

-----------------------------------------------------------------------------
(* The device and the link.                                                *)

Begin(total) ==
    /\ ~sending
    /\ Last < MaxMsgs
    /\ totals' = Append(totals, total)
    /\ done' = 0
    /\ sending' = TRUE
    /\ UNCHANGED <<handler, cut>>

LinkLost ==
    /\ sending
    /\ sending' = FALSE
    /\ cut' = cut \union {Last}
    /\ UNCHANGED <<handler, totals, done>>

\* The next n bytes are notified.
Frame(n) ==
    /\ sending
    /\ done + n <= totals[Last]
    /\ done' = done + n
    /\ sending' = (done + n < totals[Last])
    /\ UNCHANGED <<totals, cut>>

Data(n) == [i \in 1..n |-> <<Last, done + i>>]

-----------------------------------------------------------------------------
(* ESP_GATTC_NOTIFY_EVT.                                                   *)

\* Where the first fragment is put (lines 794-803), and without the reset.
StartedNoReset(data) == g_response_buffer \o data
Started(data) == data

\* Whether more data would not fit (line 812), and a test that forgets the data
\* to come.
OverflowsLate(data) == Len(g_response_buffer) > BufSize
Overflows(data) == Len(g_response_buffer) + Len(data) > BufSize

\* Whether the answer is complete (line 826), off by one.
CompleteLate == Len(g_response_buffer') > g_expected_response_len'
Complete == Len(g_response_buffer') >= g_expected_response_len'

\* The end of the handler.
Finish ==
    \/ /\ Complete
       /\ g_receiving_response' = FALSE
       /\ processed' = Append(processed,
                              SubSeq(g_response_buffer', 1, g_expected_response_len'))
    \/ /\ ~Complete
       /\ g_receiving_response' = TRUE
       /\ UNCHANGED processed

\* packet_num is 0.
NotifyFirst(n) ==
    /\ done = 0
    /\ Frame(n)
    /\ g_expected_response_len' = totals[Last]
    /\ g_response_buffer' = Started(Data(n))
    /\ Finish

\* A continuation, appended whatever its packet_num.
NotifyMore(n) ==
    /\ done > 0
    /\ Frame(n)
    /\ g_receiving_response
    /\ ~Overflows(Data(n))
    /\ g_response_buffer' = g_response_buffer \o Data(n)
    /\ UNCHANGED g_expected_response_len
    /\ Finish

\* "Response buffer overflow".
NotifyOverflow(n) ==
    /\ done > 0
    /\ Frame(n)
    /\ g_receiving_response
    /\ Overflows(Data(n))
    /\ g_receiving_response' = FALSE
    /\ UNCHANGED <<g_response_buffer, g_expected_response_len, processed>>

\* "Received continuation packet without starting packet".
NotifyStray(n) ==
    /\ done > 0
    /\ Frame(n)
    /\ ~g_receiving_response
    /\ UNCHANGED handler

Next ==
    \/ \E total \in Lengths : Begin(total)
    \/ LinkLost
    \/ \E n \in 1..MaxFrame :
          NotifyFirst(n) \/ NotifyMore(n) \/ NotifyOverflow(n) \/ NotifyStray(n)

Spec == Init /\ [][Next]_vars

-----------------------------------------------------------------------------
(* Properties.                                                             *)

Whole(m) == [i \in 1..totals[m] |-> <<m, i>>]

\* What process_response gets is always one whole message, each at most once
\* and in the order they were sent, although half a message of an earlier link
\* may be in the buffer when the next one begins.
WholeMessages ==
    /\ \A k \in DOMAIN processed :
          \E m \in DOMAIN totals : processed[k] = Whole(m)
    /\ \A k, l \in DOMAIN processed :
          k < l => processed[k][1][1] < processed[l][1][1]

\* A message that was not cut short and fits the buffer is handed on as soon as
\* its last fragment is there, whatever was cut or too long before it.
NoneMissed ==
    \A m \in DOMAIN totals :
        /\ m \notin cut
        /\ totals[m] <= BufSize
        /\ ~(sending /\ m = Last)
        => \E k \in DOMAIN processed : processed[k] = Whole(m)
=============================================================================
