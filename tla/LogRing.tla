------------------------------- MODULE LogRing -------------------------------
(***************************************************************************)
(* The log ring of web_server.c: every task that logs appends to it through *)
(* web_log_vprintf (esp_log calls the hook without a lock), and the web      *)
(* server sends it as a JSON array.  Nothing is locked, so each access to a *)
(* shared variable is a step of its own.                                   *)
(*                                                                         *)
(* The text of a line is two halves, copied one after the other; a line is *)
(* torn when its halves come from two lines.                               *)
(***************************************************************************)
EXTENDS Integers, Sequences

CONSTANTS
    Writers,        \* tasks that log
    RingSize,       \* LOG_RING_SIZE
    MaxLines        \* bound: lines logged in a behaviour

ASSUME RingAssumption == RingSize \in Nat \ {0} /\ MaxLines \in Nat

VARIABLES
    g_log_ring,     \* slot -> the lines its halves come from, 0 for none
    g_log_head,
    g_log_count,
    \* --- the tasks in web_server_add_log ---
    wpc,            \* "idle", "first", "second", "head", "store", "count", "bump"
    line,           \* the line a task is adding
    slot,           \* dst
    reg,            \* what it loaded of g_log_head or g_log_count
    \* --- logs_api_handler ---
    rpc,            \* "idle", "head", "test", "first", "second", "comma", "done"
    start,
    i,
    page,           \* entries so far: both halves, and whether a comma follows
    \* --- history ---
    lines,          \* lines logged
    tail,           \* the lines added one after the other since two tasks met
    met,            \* two tasks are adding a line and neither was alone
    ever_met,
    full,           \* the ring was full when the page began, and no task about to
                    \* store a count it loaded before
    disturbed       \* a task added to the ring while the page was read

ring == <<g_log_ring, g_log_head, g_log_count>>
writer == <<wpc, line, slot, reg>>
reader == <<rpc, start, i, page, full>>
history == <<lines, tail, met, ever_met>>
vars == <<ring, writer, reader, history, disturbed>>

Slots == 0..(RingSize - 1)
Line == 1..MaxLines
Text == [1..2 -> Line \union {0}]

TypeOK ==
    /\ g_log_ring \in [Slots -> Text]
    /\ g_log_head \in Slots
    /\ g_log_count \in 0..RingSize
    /\ wpc \in [Writers -> {"idle", "first", "second", "head", "store", "count", "bump"}]
    /\ line \in [Writers -> Line \union {0}]
    /\ slot \in [Writers -> Slots]
    /\ reg \in [Writers -> 0..RingSize]
    /\ rpc \in {"idle", "head", "test", "first", "second", "comma", "done"}
    /\ start \in Slots
    /\ i \in 0..RingSize
    /\ page \in Seq([text : Text, comma : BOOLEAN]) /\ Len(page) <= RingSize
    /\ lines \in 0..MaxLines
    /\ tail \in Seq(Line)
    /\ met \in BOOLEAN /\ ever_met \in BOOLEAN
    /\ full \in BOOLEAN /\ disturbed \in BOOLEAN

Init ==
    /\ g_log_ring = [s \in Slots |-> [h \in 1..2 |-> 0]]
    /\ g_log_head = 0 /\ g_log_count = 0
    /\ wpc = [w \in Writers |-> "idle"]
    /\ line = [w \in Writers |-> 0]
    /\ slot = [w \in Writers |-> 0]
    /\ reg = [w \in Writers |-> 0]
    /\ rpc = "idle" /\ start = 0 /\ i = 0 /\ page = <<>>
    /\ lines = 0 /\ tail = <<>> /\ met = FALSE /\ ever_met = FALSE
    /\ full = FALSE /\ disturbed = FALSE

-----------------------------------------------------------------------------
(* web_server_add_log.                                                     *)

Goto(w, from, to) == wpc[w] = from /\ wpc' = [wpc EXCEPT ![w] = to]

\* A task is called with the next line and takes the slot at the head.
AddLog(w) ==
    LET alone == \A v \in Writers : wpc[v] = "idle"
    IN  /\ lines < MaxLines
        /\ Goto(w, "idle", "first")
        /\ lines' = lines + 1
        /\ line' = [line EXCEPT ![w] = lines + 1]
        /\ slot' = [slot EXCEPT ![w] = g_log_head]
        /\ met' = ~alone
        /\ ever_met' = (ever_met \/ ~alone)
        /\ tail' = IF alone THEN tail ELSE <<>>
        /\ UNCHANGED <<ring, reg, reader>>

CopyHalf(w, h) == g_log_ring' = [g_log_ring EXCEPT ![slot[w]][h] = line[w]]

CopyFirst(w) ==
    /\ Goto(w, "first", "second")
    /\ CopyHalf(w, 1)
    /\ UNCHANGED <<g_log_head, g_log_count, line, slot, reg, reader, history>>

CopySecond(w) ==
    /\ Goto(w, "second", "head")
    /\ CopyHalf(w, 2)
    /\ UNCHANGED <<g_log_head, g_log_count, line, slot, reg, reader, history>>

LoadHead(w) ==
    /\ Goto(w, "head", "store")
    /\ reg' = [reg EXCEPT ![w] = g_log_head]
    /\ UNCHANGED <<ring, line, slot, reader, history>>

\* The slot after the one loaded, and without the wrap-around.
NextSlotNoWrap(w) == IF reg[w] + 1 < RingSize THEN reg[w] + 1 ELSE reg[w]
NextSlot(w) == (reg[w] + 1) % RingSize

StoreHead(w) ==
    /\ Goto(w, "store", "count")
    /\ g_log_head' = NextSlot(w)
    /\ UNCHANGED <<g_log_ring, g_log_count, line, slot, reg, reader, history>>

\* A task returns; its line was added alone if nobody came in between.
Return(w) ==
    LET last == \A v \in Writers \ {w} : wpc[v] = "idle"
    IN  /\ tail' = IF met THEN tail ELSE Append(tail, line[w])
        /\ met' = (met /\ ~last)
        /\ UNCHANGED <<lines, ever_met>>

\* The test of g_log_count, off by one.  One load serves the test and the increment.
RoomOffByOne == g_log_count <= RingSize
Room == g_log_count < RingSize

LoadCount(w) ==
    /\ Room
    /\ Goto(w, "count", "bump")
    /\ reg' = [reg EXCEPT ![w] = g_log_count]
    /\ UNCHANGED <<ring, line, slot, reader, history>>

RingIsFull(w) ==
    /\ ~Room
    /\ Goto(w, "count", "idle")
    /\ Return(w)
    /\ UNCHANGED <<ring, line, slot, reg, reader>>

StoreCount(w) ==
    /\ Goto(w, "bump", "idle")
    /\ g_log_count' = reg[w] + 1
    /\ Return(w)
    /\ UNCHANGED <<g_log_ring, g_log_head, line, slot, reg, reader>>

Add(w) ==
    /\ \/ AddLog(w) \/ CopyFirst(w) \/ CopySecond(w) \/ LoadHead(w) \/ StoreHead(w)
       \/ LoadCount(w) \/ RingIsFull(w) \/ StoreCount(w)
    /\ disturbed' = TRUE

-----------------------------------------------------------------------------
(* logs_api_handler.                                                       *)

\* How the page goes on after the test of the ring being full, and as if it never
\* were.
PageStartsNever == "test"
PageStarts == IF g_log_count < RingSize THEN "test" ELSE "head"

PageBegin ==
    /\ rpc = "idle"
    /\ rpc' = PageStarts
    /\ start' = 0
    /\ full' = (g_log_count = RingSize /\ \A w \in Writers : wpc[w] # "bump")
    /\ disturbed' = \E w \in Writers : wpc[w] # "idle"
    /\ UNCHANGED <<ring, writer, i, page, history>>

PageHead ==
    /\ rpc = "head"
    /\ rpc' = "test"
    /\ start' = g_log_head
    /\ UNCHANGED <<ring, writer, i, page, full, history, disturbed>>

PageTest ==
    /\ rpc = "test"
    /\ rpc' = IF i < g_log_count THEN "first" ELSE "done"
    /\ UNCHANGED <<ring, writer, start, i, page, full, history, disturbed>>

Entry == g_log_ring[(start + i) % RingSize]

PageFirst ==
    /\ rpc = "first"
    /\ rpc' = "second"
    /\ page' = Append(page, [text |-> [Entry EXCEPT ![2] = 0], comma |-> FALSE])
    /\ UNCHANGED <<ring, writer, start, i, full, history, disturbed>>

PageSecond ==
    /\ rpc = "second"
    /\ rpc' = "comma"
    /\ page' = [page EXCEPT ![Len(page)].text[2] = Entry[2]]
    /\ UNCHANGED <<ring, writer, start, i, full, history, disturbed>>

\* Whether a comma follows; the count is loaded again.
CommaAlways == TRUE
Comma == i < g_log_count - 1

PageComma ==
    /\ rpc = "comma"
    /\ rpc' = "test"
    /\ page' = [page EXCEPT ![Len(page)].comma = Comma]
    /\ i' = i + 1
    /\ UNCHANGED <<ring, writer, start, full, history, disturbed>>

PageSent ==
    /\ rpc = "done"
    /\ rpc' = "idle"
    /\ i' = 0 /\ page' = <<>>
    /\ UNCHANGED <<ring, writer, start, full, history, disturbed>>

Next ==
    \/ \E w \in Writers : Add(w)
    \/ PageBegin \/ PageHead \/ PageTest \/ PageFirst \/ PageSecond
    \/ PageComma \/ PageSent

Spec == Init /\ [][Next]_vars

-----------------------------------------------------------------------------
(* Properties.                                                             *)

LastOf(s) ==
    IF Len(s) <= RingSize THEN s ELSE SubSeq(s, Len(s) - RingSize + 1, Len(s))

\* The races of the unlocked writers heal: once RingSize lines were added one after
\* the other, whatever happened to slots, head and count before, a page read while
\* nobody logs is exactly those lines, whole and oldest first.  Without a race it
\* also is before the ring is full.
PageIsTheTail ==
    rpc = "done" /\ ~disturbed /\ (Len(tail) >= RingSize \/ ~ever_met) =>
        [k \in DOMAIN page |-> page[k].text]
            = [k \in DOMAIN LastOf(tail) |-> [h \in 1..2 |-> LastOf(tail)[k]]]

\* A page begun with a full ring is a JSON array of RingSize entries, also while
\* tasks log: a comma between each two, none after the last.  Only a task that still
\* holds an old count can undo it.
FullPageFormed ==
    rpc = "done" /\ full =>
        /\ Len(page) = RingSize
        /\ \A k \in DOMAIN page : page[k].comma <=> k < RingSize
=============================================================================
