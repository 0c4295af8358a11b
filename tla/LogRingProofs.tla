---------------------------- MODULE LogRingProofs ----------------------------
(***************************************************************************)
(* Proofs about LogRing for any number of tasks and any size of the ring.  *)
(***************************************************************************)
EXTENDS LogRing, SequenceTheorems, TLAPS

-----------------------------------------------------------------------------
(* Slots and entries.                                                      *)

LEMMA SizeIsPositive == RingSize \in Nat /\ RingSize > 0 /\ MaxLines \in Nat
BY RingAssumption

LEMMA ModIsSlot ==
  ASSUME NEW n \in Nat
  PROVE  n % RingSize \in Slots
BY SizeIsPositive DEF Slots

PageEntry == [text : Text, comma : BOOLEAN]

LEMMA EntryIsText ==
  ASSUME TypeOK
  PROVE  Entry \in Text
<1>1. start \in Nat /\ i \in Nat
  BY SizeIsPositive DEF TypeOK, Slots
<1>2. (start + i) % RingSize \in Slots
  BY <1>1, ModIsSlot
<1> QED
  BY <1>2 DEF TypeOK, Entry

LEMMA TextIsFunction ==
  ASSUME NEW t \in Text, NEW h \in 1..2, NEW v \in Line \union {0}
  PROVE  [t EXCEPT ![h] = v] \in Text
BY DEF Text

LEMMA HalfIsLine ==
  ASSUME NEW t \in Text
  PROVE  t[2] \in Line \union {0}
BY DEF Text

-----------------------------------------------------------------------------
(* The inductive invariant.                                                *)

\* What a task holds while it adds a line: a line, and a count with room.
Adding ==
    \A w \in Writers :
        /\ wpc[w] # "idle" => line[w] \in Line
        /\ wpc[w] = "bump" => reg[w] < RingSize

\* How far the page is.
Paging ==
    /\ rpc = "idle" => i = 0 /\ page = <<>>
    /\ rpc \in {"second", "comma"} => Len(page) = i + 1
    /\ rpc \notin {"second", "comma"} => Len(page) = i
    /\ rpc \in {"first", "second", "comma"} => i < RingSize

\* A page begun with a full ring: nobody changes the count any more.
StaysFull ==
    full /\ rpc # "idle" =>
        /\ g_log_count = RingSize
        /\ \A w \in Writers : wpc[w] # "bump"
        /\ rpc = "done" => i = RingSize
        /\ \A k \in DOMAIN page : k <= i => (page[k].comma <=> k < RingSize)

IInv == TypeOK /\ Adding /\ Paging /\ StaysFull

LEMMA IndInit == Init => IInv
<1>1. SUFFICES ASSUME Init PROVE IInv
  OBVIOUS
<1>2. 0 \in Slots /\ 0 \in 0..RingSize /\ 0 \in 0..MaxLines
  BY SizeIsPositive DEF Slots
<1>3. [h \in 1..2 |-> 0] \in Text
  BY DEF Text
<1>4. /\ <<>> \in Seq(Line) /\ <<>> \in Seq([text : Text, comma : BOOLEAN])
      /\ Len(<<>>) = 0 /\ Len(<<>>) <= RingSize
  BY SizeIsPositive
<1>5. TypeOK
  BY <1>1, <1>2, <1>3, <1>4 DEF Init, TypeOK
<1>6. Adding /\ Paging /\ StaysFull
  BY <1>1 DEF Init, Adding, Paging, StaysFull
<1> QED
  BY <1>5, <1>6 DEF IInv

-----------------------------------------------------------------------------
(* The steps of a task that logs.                                          *)

\* They leave the page alone, and so its part of the invariant.
LEMMA PageKept ==
  ASSUME IInv, UNCHANGED reader
  PROVE  /\ Paging'
         /\ UNCHANGED g_log_count /\ (\A w \in Writers : wpc'[w] = "bump" => wpc[w] = "bump")
               => StaysFull'
BY DEF IInv, Paging, StaysFull, reader

LEMMA AddLogKeeps ==
  ASSUME IInv, NEW w \in Writers, AddLog(w), disturbed' = TRUE
  PROVE  IInv'
<1>1. /\ TypeOK /\ Adding
      /\ lines < MaxLines /\ wpc[w] = "idle" /\ wpc' = [wpc EXCEPT ![w] = "first"]
      /\ lines' = lines + 1 /\ line' = [line EXCEPT ![w] = lines + 1]
      /\ slot' = [slot EXCEPT ![w] = g_log_head]
      /\ met' \in BOOLEAN /\ ever_met' \in BOOLEAN /\ tail' \in {tail, <<>>}
      /\ UNCHANGED <<g_log_ring, g_log_head, g_log_count, reg>> /\ UNCHANGED reader
  BY DEF IInv, AddLog, Goto, ring, TypeOK
<1>2. lines + 1 \in Line /\ lines + 1 \in 0..MaxLines
  BY <1>1, SizeIsPositive DEF TypeOK, Line
<1>3. tail' \in Seq(Line)
  <2>1. <<>> \in Seq(Line) /\ tail \in Seq(Line)
    BY <1>1 DEF TypeOK
  <2> HIDE DEF Line
  <2> QED
    BY <1>1, <2>1
<1>4. TypeOK'
  BY <1>1, <1>2, <1>3 DEF TypeOK, reader
<1>5. Adding'
  BY <1>1, <1>2 DEF Adding, TypeOK
<1>6. Paging' /\ StaysFull'
  BY <1>1, PageKept DEF TypeOK
<1> QED
  BY <1>4, <1>5, <1>6 DEF IInv

LEMMA CopyKeeps ==
  ASSUME IInv, NEW w \in Writers, CopyFirst(w) \/ CopySecond(w), disturbed' = TRUE
  PROVE  IInv'
<1>1. PICK h \in 1..2, at \in {"second", "head"} :
          /\ wpc[w] \in {"first", "second"} /\ wpc' = [wpc EXCEPT ![w] = at]
          /\ g_log_ring' = [g_log_ring EXCEPT ![slot[w]][h] = line[w]]
          /\ UNCHANGED <<g_log_head, g_log_count, line, slot, reg>>
          /\ UNCHANGED reader /\ UNCHANGED history
  BY DEF CopyFirst, CopySecond, CopyHalf, Goto
<1>2. TypeOK /\ Adding
  BY DEF IInv
<1>3. slot[w] \in Slots /\ line[w] \in Line \union {0}
  BY <1>2 DEF TypeOK
<1>4. g_log_ring[slot[w]] \in Text
  BY <1>2, <1>3 DEF TypeOK
<1>5. [g_log_ring[slot[w]] EXCEPT ![h] = line[w]] \in Text
  BY <1>3, <1>4, TextIsFunction
<1>6. g_log_ring' \in [Slots -> Text]
  BY <1>1, <1>2, <1>3, <1>5 DEF TypeOK
<1>7. TypeOK'
  BY <1>1, <1>2, <1>6 DEF TypeOK, reader, history
<1>8. Adding'
  BY <1>1, <1>2 DEF Adding, TypeOK
<1>9. Paging' /\ StaysFull'
  BY <1>1, <1>2, PageKept DEF TypeOK
<1> QED
  BY <1>7, <1>8, <1>9 DEF IInv

LEMMA LoadHeadKeeps ==
  ASSUME IInv, NEW w \in Writers, LoadHead(w), disturbed' = TRUE
  PROVE  IInv'
<1>1. /\ TypeOK /\ Adding
      /\ wpc[w] = "head" /\ wpc' = [wpc EXCEPT ![w] = "store"]
      /\ reg' = [reg EXCEPT ![w] = g_log_head]
      /\ UNCHANGED <<g_log_ring, g_log_head, g_log_count, line, slot>>
      /\ UNCHANGED reader /\ UNCHANGED history
  BY DEF IInv, LoadHead, Goto, ring
<1>2. g_log_head \in 0..RingSize
  BY <1>1, SizeIsPositive DEF TypeOK, Slots
<1>3. TypeOK'
  BY <1>1, <1>2 DEF TypeOK, reader, history
<1>4. Adding'
  BY <1>1 DEF Adding, TypeOK
<1>5. Paging' /\ StaysFull'
  BY <1>1, PageKept DEF TypeOK
<1> QED
  BY <1>3, <1>4, <1>5 DEF IInv

LEMMA StoreHeadKeeps ==
  ASSUME IInv, NEW w \in Writers, StoreHead(w), disturbed' = TRUE
  PROVE  IInv'
<1>1. /\ TypeOK /\ Adding
      /\ wpc[w] = "store" /\ wpc' = [wpc EXCEPT ![w] = "count"]
      /\ g_log_head' = (reg[w] + 1) % RingSize
      /\ UNCHANGED <<g_log_ring, g_log_count, line, slot, reg>>
      /\ UNCHANGED reader /\ UNCHANGED history
  BY DEF IInv, StoreHead, Goto, NextSlot
<1>2. reg[w] + 1 \in Nat
  BY <1>1, SizeIsPositive DEF TypeOK
<1>3. g_log_head' \in Slots
  BY <1>1, <1>2, ModIsSlot
<1>4. TypeOK'
  BY <1>1, <1>3 DEF TypeOK, reader, history
<1>5. Adding'
  BY <1>1 DEF Adding, TypeOK
<1>6. Paging' /\ StaysFull'
  BY <1>1, PageKept DEF TypeOK
<1> QED
  BY <1>4, <1>5, <1>6 DEF IInv

LEMMA LoadCountKeeps ==
  ASSUME IInv, NEW w \in Writers, LoadCount(w), disturbed' = TRUE
  PROVE  IInv'
<1>1. /\ TypeOK /\ Adding
      /\ g_log_count < RingSize
      /\ wpc[w] = "count" /\ wpc' = [wpc EXCEPT ![w] = "bump"]
      /\ reg' = [reg EXCEPT ![w] = g_log_count]
      /\ UNCHANGED <<g_log_ring, g_log_head, g_log_count, line, slot>>
      /\ UNCHANGED reader /\ UNCHANGED history
  BY DEF IInv, LoadCount, Room, Goto, ring
<1>2. TypeOK'
  BY <1>1 DEF TypeOK, reader, history
<1>3. Adding'
  BY <1>1 DEF Adding, TypeOK
<1>4. Paging'
  BY <1>1, PageKept
<1>5. ~(full /\ rpc # "idle")
  <2>1. g_log_count # RingSize
    BY <1>1, SizeIsPositive DEF TypeOK
  <2> QED
    BY <2>1 DEF IInv, StaysFull
<1>6. StaysFull'
  BY <1>1, <1>5 DEF StaysFull, reader
<1> QED
  BY <1>2, <1>3, <1>4, <1>6 DEF IInv

\* What Return leaves to the history.
LEMMA ReturnKeeps ==
  ASSUME TypeOK, NEW w \in Writers, line[w] \in Line, Return(w)
  PROVE  /\ tail' \in Seq(Line) /\ met' \in BOOLEAN
         /\ UNCHANGED <<lines, ever_met>>
<1>1. Append(tail, line[w]) \in Seq(Line)
  BY AppendProperties DEF TypeOK
<1> QED
  BY <1>1 DEF Return, TypeOK

LEMMA RingIsFullKeeps ==
  ASSUME IInv, NEW w \in Writers, RingIsFull(w), disturbed' = TRUE
  PROVE  IInv'
<1>1. /\ TypeOK /\ Adding /\ Return(w)
      /\ wpc[w] = "count" /\ wpc' = [wpc EXCEPT ![w] = "idle"]
      /\ UNCHANGED <<g_log_ring, g_log_head, g_log_count, line, slot, reg>>
      /\ UNCHANGED reader
  BY DEF IInv, RingIsFull, Goto, ring
<1>2. line[w] \in Line
  BY <1>1 DEF Adding
<1>3. /\ tail' \in Seq(Line) /\ met' \in BOOLEAN
      /\ UNCHANGED <<lines, ever_met>>
  BY <1>1, <1>2, ReturnKeeps
<1>4. TypeOK'
  BY <1>1, <1>3 DEF TypeOK, reader
<1>5. Adding'
  BY <1>1 DEF Adding, TypeOK
<1>6. Paging' /\ StaysFull'
  BY <1>1, PageKept DEF TypeOK
<1> QED
  BY <1>4, <1>5, <1>6 DEF IInv

LEMMA StoreCountKeeps ==
  ASSUME IInv, NEW w \in Writers, StoreCount(w), disturbed' = TRUE
  PROVE  IInv'
<1>1. /\ TypeOK /\ Adding /\ Return(w)
      /\ wpc[w] = "bump" /\ wpc' = [wpc EXCEPT ![w] = "idle"]
      /\ g_log_count' = reg[w] + 1
      /\ UNCHANGED <<g_log_ring, g_log_head, line, slot, reg>>
      /\ UNCHANGED reader
  BY DEF IInv, StoreCount, Goto
<1>2. line[w] \in Line /\ reg[w] < RingSize
  BY <1>1 DEF Adding
<1>3. /\ tail' \in Seq(Line) /\ met' \in BOOLEAN
      /\ UNCHANGED <<lines, ever_met>>
  BY <1>1, <1>2, ReturnKeeps
<1>4. g_log_count' \in 0..RingSize
  BY <1>1, <1>2, SizeIsPositive DEF TypeOK
<1>5. TypeOK'
  BY <1>1, <1>3, <1>4 DEF TypeOK, reader
<1>6. Adding'
  BY <1>1 DEF Adding, TypeOK
<1>7. Paging'
  BY <1>1, PageKept
<1>8. ~(full /\ rpc # "idle")
  BY <1>1 DEF IInv, StaysFull
<1>9. StaysFull'
  BY <1>1, <1>8 DEF StaysFull, reader
<1> QED
  BY <1>5, <1>6, <1>7, <1>9 DEF IInv

-----------------------------------------------------------------------------
(* The steps of the page.                                                  *)

\* They leave the ring and its tasks alone, and so their part of the invariant.
LEMMA TasksKept ==
  ASSUME IInv, UNCHANGED <<ring, writer, history, disturbed>>,
         rpc' \in {"idle", "head", "test", "first", "second", "comma", "done"},
         start' \in Slots, i' \in 0..RingSize, full' \in BOOLEAN,
         page' \in Seq([text : Text, comma : BOOLEAN]), Len(page') <= RingSize
  PROVE  TypeOK' /\ Adding'
BY DEF IInv, TypeOK, Adding, ring, writer, history

LEMMA PageBeginKeeps ==
  ASSUME IInv, PageBegin
  PROVE  IInv'
<1>1. /\ rpc = "idle" /\ rpc' \in {"test", "head"} /\ start' = 0
      /\ full' = (g_log_count = RingSize /\ \A w \in Writers : wpc[w] # "bump")
      /\ disturbed' \in BOOLEAN
      /\ UNCHANGED <<g_log_ring, g_log_head, g_log_count, wpc, line, slot, reg, i, page,
                     lines, tail, met, ever_met>>
  BY DEF PageBegin, PageStarts, ring, writer, history
<1>2. i = 0 /\ page = <<>>
  BY <1>1 DEF IInv, Paging
<1>3. 0 \in Slots
  BY SizeIsPositive DEF Slots
<1>4. TypeOK'
  BY <1>1, <1>3 DEF IInv, TypeOK
<1>5. Adding'
  BY <1>1 DEF IInv, Adding
<1>6. Len(page') = 0 /\ DOMAIN page' = {}
  BY <1>1, <1>2
<1>7. Paging'
  BY <1>1, <1>2, <1>6 DEF Paging
<1>8. full' => g_log_count' = RingSize /\ \A w \in Writers : wpc'[w] # "bump"
  BY <1>1
<1>9. StaysFull'
  BY <1>1, <1>6, <1>8 DEF StaysFull
<1> QED
  BY <1>4, <1>5, <1>7, <1>9 DEF IInv

LEMMA PageHeadKeeps ==
  ASSUME IInv, PageHead
  PROVE  IInv'
<1>1. /\ rpc = "head" /\ rpc' = "test" /\ start' = g_log_head
      /\ UNCHANGED <<g_log_ring, g_log_head, g_log_count, wpc, line, slot, reg, i, page,
                     full, lines, tail, met, ever_met, disturbed>>
  BY DEF PageHead, ring, writer, history
<1>2. TypeOK'
  BY <1>1 DEF IInv, TypeOK
<1>3. Adding'
  BY <1>1 DEF IInv, Adding
<1>4. Paging' /\ StaysFull'
  BY <1>1 DEF IInv, Paging, StaysFull
<1> QED
  BY <1>2, <1>3, <1>4 DEF IInv

LEMMA PageTestKeeps ==
  ASSUME IInv, PageTest
  PROVE  IInv'
<1>1. /\ rpc = "test" /\ rpc' = IF i < g_log_count THEN "first" ELSE "done"
      /\ UNCHANGED <<g_log_ring, g_log_head, g_log_count, wpc, line, slot, reg, start,
                     i, page, full, lines, tail, met, ever_met, disturbed>>
  BY DEF PageTest, ring, writer, history
<1>2. TypeOK'
  BY <1>1 DEF IInv, TypeOK
<1>3. Adding'
  BY <1>1 DEF IInv, Adding
<1>4. i \in Nat /\ i <= RingSize /\ g_log_count \in Nat /\ g_log_count <= RingSize
  BY SizeIsPositive DEF IInv, TypeOK
<1>5. Paging'
  BY <1>1, <1>4, SizeIsPositive DEF IInv, Paging
<1>6. StaysFull'
  <2>1. SUFFICES ASSUME full, rpc # "idle" PROVE StaysFull'
    BY <1>1 DEF StaysFull
  <2>2. g_log_count = RingSize
    BY <2>1 DEF IInv, StaysFull
  <2>3. rpc' = "done" => i = RingSize
    BY <1>1, <1>4, <2>2, SizeIsPositive
  <2> QED
    BY <1>1, <2>1, <2>3 DEF IInv, StaysFull
<1> QED
  BY <1>2, <1>3, <1>5, <1>6 DEF IInv

LEMMA PageFirstKeeps ==
  ASSUME IInv, PageFirst
  PROVE  IInv'
<1> DEFINE e == [text |-> [Entry EXCEPT ![2] = 0], comma |-> FALSE]
           S == [text : Text, comma : BOOLEAN]
<1>1. /\ rpc = "first" /\ rpc' = "second" /\ page' = Append(page, e)
      /\ UNCHANGED <<ring, writer, history, disturbed>>
      /\ UNCHANGED <<start, i, full, g_log_count, wpc>>
  BY DEF PageFirst, ring, writer
<1>2. Entry \in Text
  BY EntryIsText DEF IInv
<1>3. [Entry EXCEPT ![2] = 0] \in Text
  BY <1>2, TextIsFunction
<1>4. e \in S
  BY <1>3
<1>5. page \in Seq(S) /\ i \in 0..RingSize /\ start \in Slots /\ full \in BOOLEAN
  BY DEF IInv, TypeOK
<1>6. Len(page) = i /\ i < RingSize
  BY <1>1 DEF IInv, Paging
<1> HIDE DEF e, S
<1>7. /\ page' \in Seq(S) /\ Len(page') = i + 1
      /\ \A k \in 1..i : page'[k] = page[k]
  BY <1>1, <1>4, <1>5, <1>6, AppendProperties
<1>8. DOMAIN page = 1..i /\ DOMAIN page' = 1..(i + 1)
  BY <1>5, <1>6, <1>7, LenProperties
<1>9. TypeOK' /\ Adding'
  BY <1>1, <1>5, <1>6, <1>7, TasksKept, SizeIsPositive DEF S
<1>10. Paging'
  BY <1>1, <1>6, <1>7 DEF Paging
<1>11. StaysFull'
  <2>1. SUFFICES ASSUME full PROVE StaysFull'
    BY <1>1 DEF StaysFull
  <2>2. /\ g_log_count = RingSize /\ \A w \in Writers : wpc[w] # "bump"
        /\ \A k \in DOMAIN page : k <= i => (page[k].comma <=> k < RingSize)
    BY <1>1, <2>1 DEF IInv, StaysFull
  <2>3. ASSUME NEW k \in DOMAIN page', k <= i
        PROVE  k \in DOMAIN page /\ page'[k] = page[k]
    BY <1>5, <1>7, <1>8, <2>3, SizeIsPositive
  <2> QED
    BY <1>1, <2>2, <2>3 DEF StaysFull
<1> QED
  BY <1>9, <1>10, <1>11 DEF IInv

LEMMA PageSecondKeeps ==
  ASSUME IInv, PageSecond
  PROVE  IInv'
<1> DEFINE n == Len(page)
           e == [page[n] EXCEPT !.text[2] = Entry[2]]
           S == [text : Text, comma : BOOLEAN]
<1>1. /\ rpc = "second" /\ rpc' = "comma" /\ page' = [page EXCEPT ![n] = e]
      /\ UNCHANGED <<ring, writer, history, disturbed>>
      /\ UNCHANGED <<start, i, full, g_log_count, wpc>>
  BY DEF PageSecond, ring, writer
<1>2. Entry \in Text
  BY EntryIsText DEF IInv
<1>3. page \in Seq(S) /\ i \in 0..RingSize /\ start \in Slots /\ full \in BOOLEAN
  BY DEF IInv, TypeOK
<1>4. n = i + 1 /\ i < RingSize
  BY <1>1 DEF IInv, Paging
<1>5. n \in 1..Len(page) /\ i \in Nat /\ n \in Nat
  BY <1>3, <1>4, SizeIsPositive
<1>6. page[n] \in S
  BY <1>3, <1>5, ElementOfSeq
<1>7. e \in S
  <2>1. Entry[2] \in Line \union {0}
    BY <1>2, HalfIsLine
  <2>2. page[n].text \in Text /\ page[n].comma \in BOOLEAN
    BY <1>6
  <2>3. [page[n].text EXCEPT ![2] = Entry[2]] \in Text
    BY <2>1, <2>2, TextIsFunction
  <2>4. e = [text |-> [page[n].text EXCEPT ![2] = Entry[2]], comma |-> page[n].comma]
    BY <1>6
  <2> QED
    BY <2>2, <2>3, <2>4
<1> HIDE DEF e, S
<1>8. /\ page' \in Seq(S) /\ Len(page') = n
      /\ \A k \in 1..n : page'[k] = IF k = n THEN e ELSE page[k]
  BY <1>1, <1>3, <1>5, <1>7, ExceptSeq
<1>9. DOMAIN page = 1..n /\ DOMAIN page' = 1..n
  BY <1>3, <1>8, LenProperties
<1>10. TypeOK' /\ Adding'
  BY <1>1, <1>3, <1>4, <1>5, <1>8, TasksKept, SizeIsPositive DEF S
<1>11. Paging'
  BY <1>1, <1>4, <1>8 DEF Paging
<1>12. StaysFull'
  <2>1. SUFFICES ASSUME full PROVE StaysFull'
    BY <1>1 DEF StaysFull
  <2>2. /\ g_log_count = RingSize /\ \A w \in Writers : wpc[w] # "bump"
        /\ \A k \in DOMAIN page : k <= i => (page[k].comma <=> k < RingSize)
    BY <1>1, <2>1 DEF IInv, StaysFull
  <2>3. ASSUME NEW k \in DOMAIN page', k <= i
        PROVE  k \in DOMAIN page /\ page'[k] = page[k]
    <3>1. k \in 1..n /\ k # n
      BY <1>4, <1>5, <1>9, <2>3
    <3> QED
      BY <1>8, <1>9, <3>1
  <2> QED
    BY <1>1, <2>2, <2>3 DEF StaysFull
<1> QED
  BY <1>10, <1>11, <1>12 DEF IInv

LEMMA PageCommaKeeps ==
  ASSUME IInv, PageComma
  PROVE  IInv'
<1> DEFINE n == Len(page)
           e == [page[n] EXCEPT !.comma = Comma]
           S == [text : Text, comma : BOOLEAN]
<1>1. /\ rpc = "comma" /\ rpc' = "test" /\ page' = [page EXCEPT ![n] = e]
      /\ i' = i + 1
      /\ UNCHANGED <<ring, writer, history, disturbed>>
      /\ UNCHANGED <<start, full, g_log_count, wpc>>
  BY DEF PageComma, ring, writer
<1>2. page \in Seq(S) /\ i \in 0..RingSize /\ start \in Slots /\ full \in BOOLEAN
  BY DEF IInv, TypeOK
<1>3. n = i + 1 /\ i < RingSize
  BY <1>1 DEF IInv, Paging
<1>4. n \in 1..Len(page) /\ i \in Nat /\ n \in Nat
  BY <1>2, <1>3, SizeIsPositive
<1>5. page[n] \in S
  BY <1>2, <1>4, ElementOfSeq
<1>6. e \in S /\ e.comma = Comma
  <2>1. Comma \in BOOLEAN
    BY DEF Comma
  <2>2. page[n].text \in Text
    BY <1>5
  <2>3. e = [text |-> page[n].text, comma |-> Comma]
    BY <1>5
  <2> QED
    BY <2>1, <2>2, <2>3
<1> HIDE DEF e, S
<1>7. /\ page' \in Seq(S) /\ Len(page') = n
      /\ \A k \in 1..n : page'[k] = IF k = n THEN e ELSE page[k]
  BY <1>1, <1>2, <1>4, <1>6, ExceptSeq
<1>8. DOMAIN page = 1..n /\ DOMAIN page' = 1..n
  BY <1>2, <1>7, LenProperties
<1>9. i' \in 0..RingSize
  BY <1>1, <1>3, <1>4, SizeIsPositive
<1>10. TypeOK' /\ Adding'
  BY <1>1, <1>2, <1>3, <1>4, <1>7, <1>9, TasksKept, SizeIsPositive DEF S
<1>11. Paging'
  BY <1>1, <1>3, <1>7 DEF Paging
<1>12. StaysFull'
  <2>1. SUFFICES ASSUME full PROVE StaysFull'
    BY <1>1 DEF StaysFull
  <2>2. /\ g_log_count = RingSize /\ \A w \in Writers : wpc[w] # "bump"
        /\ \A k \in DOMAIN page : k <= i => (page[k].comma <=> k < RingSize)
    BY <1>1, <2>1 DEF IInv, StaysFull
  <2>3. ASSUME NEW k \in DOMAIN page'
        PROVE  page'[k].comma <=> k < RingSize
    <3>1. k \in 1..n /\ k \in Nat
      BY <1>4, <1>8, <2>3
    <3>2. CASE k = n
      <4>1. page'[k] = e
        BY <1>7, <3>1, <3>2
      <4>2. Comma <=> i < RingSize - 1
        BY <2>2 DEF Comma
      <4>3. i < RingSize - 1 <=> k < RingSize
        BY <1>3, <1>4, <3>2, SizeIsPositive
      <4> QED
        BY <1>6, <4>1, <4>2, <4>3
    <3>3. CASE k # n
      <4>1. k <= i /\ k \in DOMAIN page /\ page'[k] = page[k]
        BY <1>3, <1>4, <1>7, <1>8, <3>1, <3>3
      <4> QED
        BY <2>2, <4>1
    <3> QED
      BY <3>2, <3>3
  <2> QED
    BY <1>1, <2>2, <2>3 DEF StaysFull
<1> QED
  BY <1>10, <1>11, <1>12 DEF IInv

LEMMA PageSentKeeps ==
  ASSUME IInv, PageSent
  PROVE  IInv'
<1>1. /\ rpc = "done" /\ rpc' = "idle" /\ i' = 0 /\ page' = <<>>
      /\ UNCHANGED <<ring, writer, history, disturbed>>
      /\ UNCHANGED <<start, full>>
  BY DEF PageSent
<1>2. start \in Slots /\ full \in BOOLEAN
  BY DEF IInv, TypeOK
<1>3. /\ <<>> \in Seq([text : Text, comma : BOOLEAN]) /\ Len(<<>>) = 0
      /\ 0 <= RingSize /\ 0 \in 0..RingSize
  BY SizeIsPositive
<1>4. TypeOK' /\ Adding'
  BY <1>1, <1>2, <1>3, TasksKept
<1>5. Paging' /\ StaysFull'
  BY <1>1, <1>3 DEF Paging, StaysFull
<1> QED
  BY <1>4, <1>5 DEF IInv

-----------------------------------------------------------------------------
(* The theorems.                                                           *)

LEMMA IndNext == IInv /\ [Next]_vars => IInv'
<1>1. SUFFICES ASSUME IInv, [Next]_vars
               PROVE  IInv'
  OBVIOUS
<1>2. ASSUME NEW w \in Writers, Add(w)
      PROVE  IInv'
  <2>1. disturbed' = TRUE
    BY <1>2 DEF Add
  <2>2. CASE AddLog(w)
    BY <1>1, <2>1, <2>2, AddLogKeeps
  <2>3. CASE CopyFirst(w) \/ CopySecond(w)
    BY <1>1, <2>1, <2>3, CopyKeeps
  <2>4. CASE LoadHead(w)
    BY <1>1, <2>1, <2>4, LoadHeadKeeps
  <2>5. CASE StoreHead(w)
    BY <1>1, <2>1, <2>5, StoreHeadKeeps
  <2>6. CASE LoadCount(w)
    BY <1>1, <2>1, <2>6, LoadCountKeeps
  <2>7. CASE RingIsFull(w)
    BY <1>1, <2>1, <2>7, RingIsFullKeeps
  <2>8. CASE StoreCount(w)
    BY <1>1, <2>1, <2>8, StoreCountKeeps
  <2> QED
    BY <1>2, <2>2, <2>3, <2>4, <2>5, <2>6, <2>7, <2>8 DEF Add
<1>3. CASE PageBegin
  BY <1>1, <1>3, PageBeginKeeps
<1>4. CASE PageHead
  BY <1>1, <1>4, PageHeadKeeps
<1>5. CASE PageTest
  BY <1>1, <1>5, PageTestKeeps
<1>6. CASE PageFirst
  BY <1>1, <1>6, PageFirstKeeps
<1>7. CASE PageSecond
  BY <1>1, <1>7, PageSecondKeeps
<1>8. CASE PageComma
  BY <1>1, <1>8, PageCommaKeeps
<1>9. CASE PageSent
  BY <1>1, <1>9, PageSentKeeps
<1>10. CASE UNCHANGED vars
  <2>1. UNCHANGED <<ring, writer, reader, history, disturbed>>
    BY <1>10 DEF vars
  <2> QED
    BY <1>1, <2>1 DEF IInv, TypeOK, Adding, Paging, StaysFull, ring, writer, reader,
                      history
<1> QED
  BY <1>1, <1>2, <1>3, <1>4, <1>5, <1>6, <1>7, <1>8, <1>9, <1>10 DEF Next

THEOREM Invariant == Spec => []IInv
<1> QED
  BY IndInit, IndNext, PTL DEF Spec

\* However many tasks log without a lock, and however large the ring is: no index
\* leaves the ring, no count passes its size and no page has more entries than it.
THEOREM TypeCorrect == Spec => []TypeOK
<1>1. IInv => TypeOK
  BY DEF IInv
<1> QED
  BY <1>1, Invariant, PTL

\* A page begun with a full ring and no task about to store an old count is a JSON
\* array of as many entries as the ring has, whatever the tasks do meanwhile.
THEOREM FullPages == Spec => []FullPageFormed
<1>1. IInv => FullPageFormed
  <2>1. SUFFICES ASSUME IInv, rpc = "done", full PROVE FullPageFormed
    BY DEF FullPageFormed
  <2>2. /\ i = RingSize /\ Len(page) = i
        /\ \A k \in DOMAIN page : k <= i => (page[k].comma <=> k < RingSize)
    BY <2>1 DEF IInv, Paging, StaysFull
  <2>3. page \in Seq([text : Text, comma : BOOLEAN])
    BY <2>1 DEF IInv, TypeOK
  <2>4. DOMAIN page = 1..RingSize
    BY <2>2, <2>3, LenProperties
  <2> QED
    BY <2>2, <2>4, SizeIsPositive DEF FullPageFormed
<1> QED
  BY <1>1, Invariant, PTL

-----------------------------------------------------------------------------
(* What is in the ring before its head.                                    *)

\* The slot j places before h, going round the ring; the text of a whole line.
Back(h, j) == IF h >= j THEN h - j ELSE h - j + RingSize
WholeLine(l) == [h \in 1..2 |-> l]

\* Before the head h lie the lines of s, the newest first, d places back at most.
Holds(rg, h, s, d) ==
    \A j \in 1..Len(s) : j <= d => rg[Back(h, j)] = WholeLine(s[Len(s) + 1 - j])

AllIdle == \A w \in Writers : wpc[w] = "idle"
Writing(w) == wpc[w] \in {"first", "second", "head", "store"}
Counting(w) == wpc[w] \in {"count", "bump"}

Meeting ==
    /\ met => ever_met /\ tail = <<>>
    /\ ~met => \A v, w \in Writers : wpc[v] # "idle" /\ wpc[w] # "idle" => v = w

Alone ==
    ~met => \A w \in Writers :
        /\ wpc[w] \in {"first", "second"} => slot[w] = g_log_head
        /\ wpc[w] = "second" => g_log_ring[g_log_head][1] = line[w]
        /\ wpc[w] \in {"head", "store"} => g_log_ring[g_log_head] = WholeLine(line[w])
        /\ wpc[w] = "store" => reg[w] = g_log_head
        /\ wpc[w] = "bump" => reg[w] = g_log_count

InRing ==
    /\ AllIdle => Holds(g_log_ring, g_log_head, tail, RingSize)
    /\ \A w \in Writers : ~met =>
          /\ Writing(w) => Holds(g_log_ring, g_log_head, tail, RingSize - 1)
          /\ Counting(w) => Holds(g_log_ring, g_log_head, Append(tail, line[w]), RingSize)

Counted ==
    /\ Len(tail) <= g_log_count \/ g_log_count = RingSize
    /\ ~ever_met =>
          /\ g_log_count = IF Len(tail) < RingSize THEN Len(tail) ELSE RingSize
          /\ g_log_count < RingSize =>
                \/ g_log_head = g_log_count /\ \A w \in Writers : ~Counting(w)
                \/ g_log_head = (g_log_count + 1) % RingSize /\ \E w \in Writers : Counting(w)

EntryAt(k) == g_log_ring[(start + k - 1) % RingSize]

Reading ==
    ~disturbed /\ rpc # "idle" =>
        /\ AllIdle
        /\ rpc = "head" => g_log_count = RingSize /\ i = 0
        /\ rpc # "head" => start = IF g_log_count < RingSize THEN 0 ELSE g_log_head
        /\ i <= g_log_count
        /\ rpc = "done" => i = g_log_count
        /\ rpc \in {"first", "second", "comma"} => i < g_log_count
        /\ \A k \in 1..i : page[k].text = EntryAt(k)
        /\ rpc = "second" => page[i + 1].text[1] = EntryAt(i + 1)[1]
        /\ rpc = "comma" => page[i + 1].text = EntryAt(i + 1)

LInv == IInv /\ Meeting /\ Alone /\ InRing /\ Counted /\ Reading

\* Once round the ring at most.
LEMMA Wrap ==
  ASSUME NEW a \in Nat, a < RingSize + RingSize
  PROVE  a % RingSize = IF a < RingSize THEN a ELSE a - RingSize
BY SizeIsPositive

LEMMA SameHalves ==
  ASSUME NEW t \in Text, NEW u \in Text, t[1] = u[1], t[2] = u[2]
  PROVE  t = u
<1>1. \A h \in 1..2 : h = 1 \/ h = 2
  OBVIOUS
<1>2. \A h \in 1..2 : t[h] = u[h]
  BY <1>1
<1> QED
  BY <1>2 DEF Text

LEMMA BackFacts ==
  ASSUME NEW h \in Slots, NEW j \in Nat, j <= RingSize
  PROVE  /\ Back(h, j) \in Slots
         /\ 1 <= j /\ j < RingSize => Back(h, j) # h
         /\ (h + 1) % RingSize \in Slots
         /\ Back((h + 1) % RingSize, 1) = h
         /\ j < RingSize => Back((h + 1) % RingSize, j + 1) = Back(h, j)
<1>1. /\ RingSize \in Nat /\ RingSize > 0
      /\ h \in Nat /\ h < RingSize
  BY SizeIsPositive DEF Slots
<1>2. Back(h, j) \in Slots
  BY <1>1 DEF Back, Slots
<1>3. 1 <= j /\ j < RingSize => Back(h, j) # h
  BY <1>1 DEF Back
<1>4. (h + 1) % RingSize = IF h + 1 < RingSize THEN h + 1 ELSE (h + 1) - RingSize
  <2>1. h + 1 \in Nat /\ h + 1 < RingSize + RingSize
    BY <1>1
  <2> QED
    BY <2>1, Wrap
<1>5. (h + 1) % RingSize = IF h + 1 < RingSize THEN h + 1 ELSE 0
  BY <1>1, <1>4
<1> DEFINE n == (h + 1) % RingSize
<1>6. n = IF h + 1 < RingSize THEN h + 1 ELSE 0
  BY <1>5
<1> HIDE DEF n
<1>7. n \in Slots
  BY <1>1, <1>6 DEF Slots
<1>8. Back(n, 1) = h
  BY <1>1, <1>6 DEF Back
<1>9. j < RingSize => Back(n, j + 1) = Back(h, j)
  BY <1>1, <1>6 DEF Back
<1> QED
  BY <1>2, <1>3, <1>7, <1>8, <1>9 DEF n

LEMMA HoldsNothing ==
  ASSUME NEW rg, NEW h, NEW d
  PROVE  Holds(rg, h, <<>>, d)
BY DEF Holds

LEMMA HoldsLess ==
  ASSUME NEW rg, NEW h, NEW s \in Seq(Line), Holds(rg, h, s, RingSize)
  PROVE  Holds(rg, h, s, RingSize - 1)
<1>1. Len(s) \in Nat /\ RingSize \in Nat
  BY LenProperties, SizeIsPositive
<1> QED
  BY <1>1 DEF Holds

\* Writing to the slot at the head spoils no more than the oldest line.
LEMMA HoldsWhileWriting ==
  ASSUME NEW rg, NEW new, NEW h \in Slots, NEW s \in Seq(Line),
         Holds(rg, h, s, RingSize - 1),
         \A c \in Slots : c # h => new[c] = rg[c]
  PROVE  Holds(new, h, s, RingSize - 1)
<1>1. Len(s) \in Nat /\ RingSize \in Nat /\ RingSize > 0
  BY LenProperties, SizeIsPositive
<1>2. ASSUME NEW j \in 1..Len(s), j <= RingSize - 1
      PROVE  new[Back(h, j)] = rg[Back(h, j)]
  <2>1. j \in Nat /\ j <= RingSize /\ 1 <= j /\ j < RingSize
    BY <1>1, <1>2
  <2> QED
    BY <2>1, BackFacts
<1> QED
  BY <1>2 DEF Holds

\* Moving the head on adds what was written there.
LEMMA HoldsNext ==
  ASSUME NEW rg, NEW h \in Slots, NEW s \in Seq(Line), NEW l \in Line,
         Holds(rg, h, s, RingSize - 1), rg[h] = WholeLine(l)
  PROVE  Holds(rg, (h + 1) % RingSize, Append(s, l), RingSize)
<1> DEFINE n == (h + 1) % RingSize
           t == Append(s, l)
<1>1. Len(s) \in Nat /\ RingSize \in Nat /\ RingSize > 0
  BY LenProperties, SizeIsPositive
<1>2. /\ Len(t) = Len(s) + 1 /\ t[Len(s) + 1] = l
      /\ \A k \in 1..Len(s) : t[k] = s[k]
  BY AppendProperties
<1>3. SUFFICES ASSUME NEW j \in 1..Len(t), j <= RingSize
               PROVE  rg[Back(n, j)] = WholeLine(t[Len(t) + 1 - j])
  BY DEF Holds
<1>4. CASE j = 1
  <2>1. Back(n, 1) = h
    BY <1>1, BackFacts
  <2>2. Len(t) + 1 - j = Len(s) + 1
    BY <1>1, <1>2, <1>4
  <2> QED
    BY <1>2, <1>4, <2>1, <2>2
<1>5. CASE j # 1
  <2> DEFINE k == j - 1
  <2>1. /\ k \in 1..Len(s) /\ k \in Nat /\ k <= RingSize - 1 /\ k <= RingSize
        /\ k < RingSize /\ k + 1 = j
    BY <1>1, <1>2, <1>3, <1>5
  <2>2. Len(t) + 1 - j = Len(s) + 1 - k /\ Len(s) + 1 - k \in 1..Len(s)
    BY <1>1, <1>2, <2>1
  <2> HIDE DEF k
  <2>3. Back(n, k + 1) = Back(h, k)
    BY <2>1, BackFacts
  <2>4. rg[Back(h, k)] = WholeLine(s[Len(s) + 1 - k])
    BY <2>1 DEF Holds
  <2> QED
    BY <1>2, <2>1, <2>2, <2>3, <2>4
<1> QED
  BY <1>4, <1>5

-----------------------------------------------------------------------------
(* The tasks that log.                                                     *)

LEMMA LogFacts ==
  ASSUME LInv
  PROVE  /\ TypeOK /\ tail \in Seq(Line) /\ Len(tail) \in Nat
         /\ g_log_head \in Slots /\ g_log_head \in Nat /\ g_log_head < RingSize
         /\ g_log_count \in Nat /\ g_log_count <= RingSize
         /\ RingSize \in Nat /\ RingSize > 0
         /\ met \in BOOLEAN
         /\ \A w \in Writers : wpc[w] # "idle" => line[w] \in Line
<1>1. TypeOK /\ Adding
  BY DEF LInv, IInv
<1>2. tail \in Seq(Line) /\ g_log_head \in Slots /\ g_log_count \in 0..RingSize
      /\ met \in BOOLEAN
  BY <1>1 DEF TypeOK
<1>3. Len(tail) \in Nat
  BY <1>2, LenProperties
<1> QED
  BY <1>1, <1>2, <1>3, SizeIsPositive DEF Adding, Slots

\* Without lines to look for there is nothing to hold.
LEMMA NoTail ==
  ASSUME tail' = <<>>, met' \/ AllIdle'
  PROVE  Alone' /\ InRing'
<1>1. met' => Alone' /\ InRing'
  BY HoldsNothing DEF Alone, InRing
<1>2. AllIdle' => Alone' /\ InRing'
  BY HoldsNothing DEF Alone, InRing, AllIdle, Writing, Counting
<1> QED
  BY <1>1, <1>2

\* A step in the middle of web_server_add_log.
LEMMA MiddleStep ==
  ASSUME LInv, NEW w \in Writers, wpc[w] # "idle", NEW at, at # "idle",
         wpc' = [wpc EXCEPT ![w] = at], UNCHANGED history
  PROVE  /\ Meeting' /\ ~AllIdle'
         /\ met => Alone' /\ InRing'
         /\ ~met => \A v \in Writers : wpc'[v] = IF v = w THEN at ELSE "idle"
         /\ wpc'[w] = at
<1>1. /\ UNCHANGED <<met, ever_met, tail>> /\ TypeOK
      /\ wpc \in [Writers -> {"idle", "first", "second", "head", "store", "count", "bump"}]
  BY LogFacts DEF history, TypeOK
<1>2. \A v \in Writers : wpc'[v] = IF v = w THEN at ELSE wpc[v]
  BY <1>1
<1>3. \A v \in Writers : wpc'[v] # "idle" <=> wpc[v] # "idle"
  BY <1>2
<1>4. Meeting'
  BY <1>1, <1>3 DEF LInv, Meeting
<1>5. met => Alone' /\ InRing'
  BY <1>1, NoTail DEF LInv, Meeting
<1>6. ~met => \A v \in Writers : v # w => wpc[v] = "idle"
  BY DEF LInv, Meeting
<1> QED
  BY <1>2, <1>4, <1>5, <1>6 DEF AllIdle

LEMMA CountedKept ==
  ASSUME LInv, UNCHANGED <<tail, g_log_count, g_log_head, ever_met>>,
         \A v \in Writers : Counting(v)' <=> Counting(v)
  PROVE  Counted'
BY DEF LInv, Counted

LEMMA AddLogTail ==
  ASSUME LInv, NEW w \in Writers, AddLog(w)
  PROVE  (Meeting /\ Alone /\ InRing /\ Counted)'
<1>1. /\ wpc[w] = "idle" /\ wpc' = [wpc EXCEPT ![w] = "first"]
      /\ slot' = [slot EXCEPT ![w] = g_log_head]
      /\ met' = ~AllIdle /\ ever_met' = (ever_met \/ ~AllIdle)
      /\ tail' = IF AllIdle THEN tail ELSE <<>>
      /\ UNCHANGED <<g_log_ring, g_log_head, g_log_count>>
  BY DEF AddLog, Goto, AllIdle, ring
<1>2. /\ TypeOK /\ tail \in Seq(Line) /\ g_log_count \in Nat
      /\ \A v \in Writers : wpc'[v] = IF v = w THEN "first" ELSE wpc[v]
      /\ slot'[w] = g_log_head
  BY <1>1, LogFacts DEF TypeOK
<1>3. CASE AllIdle
  <2>1. /\ ~met' /\ ever_met' = ever_met /\ tail' = tail
        /\ \A v \in Writers : wpc'[v] = IF v = w THEN "first" ELSE "idle"
    BY <1>1, <1>2, <1>3, LogFacts DEF AllIdle, LInv, IInv, TypeOK
  <2>2. Meeting'
    BY <2>1 DEF Meeting
  <2>3. Alone'
    BY <1>1, <1>2, <2>1 DEF Alone
  <2>4. Holds(g_log_ring, g_log_head, tail, RingSize - 1)
    BY <1>2, <1>3, HoldsLess DEF LInv, InRing
  <2>5. InRing'
    BY <1>1, <2>1, <2>4 DEF InRing, AllIdle, Counting
  <2>6. \A v \in Writers : Counting(v)' <=> Counting(v)
    BY <1>3, <2>1 DEF Counting, AllIdle
  <2>7. Counted'
    BY <1>1, <2>1, <2>6, CountedKept
  <2> QED
    BY <2>2, <2>3, <2>5, <2>7
<1>4. CASE ~AllIdle
  <2>1. met' /\ ever_met' /\ tail' = <<>>
    BY <1>1, <1>4
  <2>2. Alone' /\ InRing'
    BY <2>1, NoTail
  <2>3. Len(tail') = 0 /\ g_log_count' \in Nat
    BY <1>1, <1>2, <2>1
  <2> QED
    BY <2>1, <2>2, <2>3 DEF Meeting, Counted
<1> QED
  BY <1>3, <1>4

\* Both halves.
LEMMA CopyTail ==
  ASSUME LInv, NEW w \in Writers, CopyFirst(w) \/ CopySecond(w)
  PROVE  (Meeting /\ Alone /\ InRing /\ Counted)'
<1>1. PICK h \in 1..2, at \in {"second", "head"} :
          /\ wpc[w] = IF at = "second" THEN "first" ELSE "second"
          /\ h = IF at = "second" THEN 1 ELSE 2
          /\ wpc' = [wpc EXCEPT ![w] = at]
          /\ g_log_ring' = [g_log_ring EXCEPT ![slot[w]][h] = line[w]]
          /\ UNCHANGED <<g_log_head, g_log_count, line, slot, reg>>
          /\ UNCHANGED history
  BY DEF CopyFirst, CopySecond, CopyHalf, Goto
<1>2. /\ Meeting' /\ ~AllIdle'
      /\ met => Alone' /\ InRing'
      /\ ~met => \A v \in Writers : wpc'[v] = IF v = w THEN at ELSE "idle"
      /\ wpc'[w] = at
  BY <1>1, MiddleStep
<1>3. UNCHANGED <<met, ever_met, tail>> /\ tail \in Seq(Line) /\ g_log_head \in Slots
  BY <1>1, LogFacts DEF history
<1>4. Counted'
  <2>1. \A v \in Writers : wpc'[v] = IF v = w THEN at ELSE wpc[v]
    BY <1>1, LogFacts DEF TypeOK
  <2>2. \A v \in Writers : Counting(v)' <=> Counting(v)
    BY <1>1, <2>1 DEF Counting
  <2> QED
    BY <1>1, <1>3, <2>2, CountedKept
<1>5. CASE ~met
  <2>1. slot[w] = g_log_head
    BY <1>1, <1>5 DEF LInv, Alone
  <2>2. /\ g_log_ring \in [Slots -> Text] /\ g_log_ring[g_log_head] \in Text
    BY <1>3, LogFacts DEF TypeOK
  <2>3. /\ g_log_ring'[g_log_head] = [g_log_ring[g_log_head] EXCEPT ![h] = line[w]]
        /\ \A c \in Slots : c # g_log_head => g_log_ring'[c] = g_log_ring[c]
    BY <1>1, <1>3, <2>1, <2>2
  <2>4. Holds(g_log_ring, g_log_head, tail, RingSize - 1)
    BY <1>1, <1>5 DEF LInv, InRing, Writing
  <2>5. Holds(g_log_ring', g_log_head, tail, RingSize - 1)
    BY <1>3, <2>3, <2>4, HoldsWhileWriting
  <2>6. InRing'
    <3>1. \A v \in Writers : ~Counting(v)'
      BY <1>2, <1>5 DEF Counting
    <3>2. Holds(g_log_ring', g_log_head', tail', RingSize - 1)
      BY <1>1, <1>3, <2>5
    <3> QED
      BY <1>2, <3>1, <3>2 DEF InRing
  <2>7. CASE at = "second"
    <3>1. g_log_ring'[g_log_head][1] = line[w]
      BY <1>1, <2>2, <2>3, <2>7 DEF Text
    <3> QED
      BY <1>1, <1>2, <1>3, <1>4, <1>5, <2>1, <2>6, <2>7, <3>1 DEF Alone
  <2>8. CASE at = "head"
    <3>1. g_log_ring[g_log_head][1] = line[w]
      BY <1>1, <1>5, <2>8 DEF LInv, Alone
    <3>2. g_log_ring'[g_log_head] = WholeLine(line[w])
      <4> DEFINE t == g_log_ring[g_log_head]
      <4>1. t \in Text /\ t[1] = line[w] /\ h = 2
        BY <1>1, <2>2, <2>8, <3>1
      <4>2. g_log_ring'[g_log_head] = [t EXCEPT ![2] = line[w]]
        BY <2>3, <4>1
      <4>3. line[w] \in Line \union {0}
        BY LogFacts DEF TypeOK
      <4> HIDE DEF t
      <4> DEFINE u == [t EXCEPT ![2] = line[w]]
      <4>4. u \in Text /\ WholeLine(line[w]) \in Text
        BY <4>1, <4>3 DEF Text, WholeLine
      <4>5. u[1] = line[w] /\ u[2] = line[w]
        BY <4>1 DEF Text
      <4>6. WholeLine(line[w])[1] = line[w] /\ WholeLine(line[w])[2] = line[w]
        BY DEF WholeLine
      <4> HIDE DEF u
      <4>7. u = WholeLine(line[w])
        BY <4>4, <4>5, <4>6, SameHalves
      <4> QED
        BY <4>2, <4>7 DEF u
    <3> QED
      BY <1>1, <1>2, <1>3, <1>4, <1>5, <2>6, <2>8, <3>2 DEF Alone
  <2> QED
    BY <2>7, <2>8
<1> QED
  BY <1>2, <1>4, <1>5

LEMMA LoadHeadTail ==
  ASSUME LInv, NEW w \in Writers, LoadHead(w)
  PROVE  (Meeting /\ Alone /\ InRing /\ Counted)'
<1>1. /\ wpc[w] = "head" /\ wpc' = [wpc EXCEPT ![w] = "store"]
      /\ reg' = [reg EXCEPT ![w] = g_log_head]
      /\ UNCHANGED <<g_log_ring, g_log_head, g_log_count, line, slot>>
      /\ UNCHANGED history
  BY DEF LoadHead, Goto, ring
<1>2. /\ Meeting' /\ ~AllIdle'
      /\ met => Alone' /\ InRing'
      /\ ~met => \A v \in Writers : wpc'[v] = IF v = w THEN "store" ELSE "idle"
      /\ wpc'[w] = "store"
  BY <1>1, MiddleStep
<1>3. UNCHANGED <<met, ever_met, tail>> /\ reg'[w] = g_log_head
  BY <1>1, LogFacts DEF history, TypeOK
<1>4. Counted'
  <2>1. \A v \in Writers : wpc'[v] = IF v = w THEN "store" ELSE wpc[v]
    BY <1>1, LogFacts DEF TypeOK
  <2>2. \A v \in Writers : Counting(v)' <=> Counting(v)
    BY <1>1, <2>1 DEF Counting
  <2> QED
    BY <1>1, <1>3, <2>2, CountedKept
<1>5. CASE ~met
  <2>1. Alone'
    BY <1>1, <1>2, <1>3, <1>5 DEF LInv, Alone
  <2>2. Holds(g_log_ring, g_log_head, tail, RingSize - 1)
    BY <1>1, <1>5 DEF LInv, InRing, Writing
  <2>3. InRing'
    BY <1>1, <1>2, <1>3, <1>5, <2>2 DEF InRing, Counting
  <2> QED
    BY <1>2, <1>4, <2>1, <2>3
<1> QED
  BY <1>2, <1>4, <1>5

LEMMA StoreHeadTail ==
  ASSUME LInv, NEW w \in Writers, StoreHead(w)
  PROVE  (Meeting /\ Alone /\ InRing /\ Counted)'
<1>1. /\ wpc[w] = "store" /\ wpc' = [wpc EXCEPT ![w] = "count"]
      /\ g_log_head' = (reg[w] + 1) % RingSize
      /\ UNCHANGED <<g_log_ring, g_log_count, line, slot, reg>>
      /\ UNCHANGED history
  BY DEF StoreHead, Goto, NextSlot
<1>2. /\ Meeting' /\ ~AllIdle'
      /\ met => Alone' /\ InRing'
      /\ ~met => \A v \in Writers : wpc'[v] = IF v = w THEN "count" ELSE "idle"
      /\ wpc'[w] = "count"
  BY <1>1, MiddleStep
<1>3. /\ UNCHANGED <<met, ever_met, tail>> /\ tail \in Seq(Line) /\ g_log_head \in Slots
      /\ line[w] \in Line /\ Len(tail) \in Nat
  BY <1>1, LogFacts DEF history
<1>4. CASE ~met
  <2>1. reg[w] = g_log_head /\ g_log_ring[g_log_head] = WholeLine(line[w])
    BY <1>1, <1>4 DEF LInv, Alone
  <2>2. g_log_head' = (g_log_head + 1) % RingSize
    BY <1>1, <2>1
  <2>3. Alone'
    BY <1>2, <1>3, <1>4 DEF Alone
  <2>4. Holds(g_log_ring, g_log_head, tail, RingSize - 1)
    BY <1>1, <1>4 DEF LInv, InRing, Writing
  <2>5. Holds(g_log_ring', g_log_head', Append(tail', line'[w]), RingSize)
    BY <1>1, <1>3, <2>1, <2>2, <2>4, HoldsNext
  <2>6. InRing'
    <3>1. \A v \in Writers : ~Writing(v)' /\ (Counting(v)' => v = w)
      BY <1>2, <1>4 DEF Counting, Writing
    <3> QED
      BY <1>2, <2>5, <3>1 DEF InRing
  <2>7. Counted'
    <3>1. Counting(w)' /\ \A v \in Writers : ~Counting(v)
      BY <1>1, <1>2, <1>4 DEF Counting, LInv, Meeting
    <3>2. ~ever_met /\ g_log_count < RingSize => g_log_head = g_log_count
      BY <3>1 DEF LInv, Counted
    <3> QED
      BY <1>1, <1>3, <2>2, <3>1, <3>2 DEF LInv, Counted
  <2> QED
    BY <1>2, <2>3, <2>6, <2>7
<1>5. CASE met
  <2>1. ever_met' /\ tail' = <<>> /\ Len(tail') = 0 /\ g_log_count' \in Nat
    BY <1>1, <1>3, <1>5, LogFacts DEF LInv, Meeting
  <2> QED
    BY <1>2, <1>5, <2>1 DEF Counted
<1> QED
  BY <1>4, <1>5

LEMMA LoadCountTail ==
  ASSUME LInv, NEW w \in Writers, LoadCount(w)
  PROVE  (Meeting /\ Alone /\ InRing /\ Counted)'
<1>1. /\ wpc[w] = "count" /\ wpc' = [wpc EXCEPT ![w] = "bump"]
      /\ reg' = [reg EXCEPT ![w] = g_log_count]
      /\ UNCHANGED <<g_log_ring, g_log_head, g_log_count, line, slot>>
      /\ UNCHANGED history
  BY DEF LoadCount, Goto, ring
<1>2. /\ Meeting' /\ ~AllIdle'
      /\ met => Alone' /\ InRing'
      /\ ~met => \A v \in Writers : wpc'[v] = IF v = w THEN "bump" ELSE "idle"
      /\ wpc'[w] = "bump"
  BY <1>1, MiddleStep
<1>3. UNCHANGED <<met, ever_met, tail>> /\ reg'[w] = g_log_count
  BY <1>1, LogFacts DEF history, TypeOK
<1>4. Counted'
  <2>1. \A v \in Writers : wpc'[v] = IF v = w THEN "bump" ELSE wpc[v]
    BY <1>1, LogFacts DEF TypeOK
  <2>2. \A v \in Writers : Counting(v)' <=> Counting(v)
    BY <1>1, <2>1 DEF Counting
  <2> QED
    BY <1>1, <1>3, <2>2, CountedKept
<1>5. CASE ~met
  <2>1. Alone'
    BY <1>1, <1>2, <1>3, <1>5 DEF Alone
  <2>2. Holds(g_log_ring, g_log_head, Append(tail, line[w]), RingSize)
    BY <1>1, <1>5 DEF LInv, InRing, Counting
  <2>3. InRing'
    <3>1. \A v \in Writers : ~Writing(v)' /\ (Counting(v)' => v = w)
      BY <1>2, <1>5 DEF Counting, Writing
    <3>2. Holds(g_log_ring', g_log_head', Append(tail', line'[w]), RingSize)
      BY <1>1, <1>3, <2>2
    <3> QED
      BY <1>2, <3>1, <3>2 DEF InRing
  <2> QED
    BY <1>2, <1>4, <2>1, <2>3
<1> QED
  BY <1>2, <1>4, <1>5

\* A task returns: either it met another one and there are no lines to look for, or
\* it was alone and added one.
LEMMA ReturnTail ==
  ASSUME LInv, NEW w \in Writers, Counting(w), Return(w),
         wpc' = [wpc EXCEPT ![w] = "idle"], UNCHANGED <<g_log_ring, g_log_head, line>>
  PROVE  /\ (Meeting /\ Alone /\ InRing)'
         /\ UNCHANGED ever_met
         /\ \/ met /\ ever_met /\ tail' = <<>>
            \/ ~met /\ tail' = Append(tail, line[w]) /\ AllIdle'
<1> DEFINE last == \A v \in Writers \ {w} : wpc[v] = "idle"
<1>1. /\ tail' = IF met THEN tail ELSE Append(tail, line[w])
      /\ met' = (met /\ ~last) /\ UNCHANGED ever_met
  BY DEF Return
<1>2. \A v \in Writers : wpc'[v] = IF v = w THEN "idle" ELSE wpc[v]
  BY LogFacts DEF TypeOK
<1>3. last => AllIdle'
  BY <1>2 DEF AllIdle
<1>4. wpc[w] # "idle"
  BY DEF Counting
<1>5. CASE met
  <2>1. ever_met /\ tail' = <<>>
    BY <1>1, <1>5 DEF LInv, Meeting
  <2>2. met' \/ AllIdle'
    BY <1>1, <1>3, <1>5
  <2>3. Alone' /\ InRing'
    BY <2>1, <2>2, NoTail
  <2>4. Meeting'
    BY <1>1, <2>1, <2>2 DEF Meeting, AllIdle
  <2> QED
    BY <1>1, <1>5, <2>1, <2>3, <2>4
<1>6. CASE ~met
  <2>1. last
    BY <1>4, <1>6 DEF LInv, Meeting
  <2>2. ~met' /\ AllIdle' /\ tail' = Append(tail, line[w])
    BY <1>1, <1>3, <1>6, <2>1
  <2>3. Meeting' /\ Alone'
    BY <2>2 DEF Meeting, Alone, AllIdle
  <2>4. Holds(g_log_ring, g_log_head, Append(tail, line[w]), RingSize)
    BY <1>6 DEF LInv, InRing
  <2>5. Holds(g_log_ring', g_log_head', tail', RingSize)
    BY <2>2, <2>4
  <2>6. InRing'
    BY <2>2, <2>5 DEF InRing, AllIdle, Writing, Counting
  <2> QED
    BY <1>1, <1>6, <2>2, <2>3, <2>6
<1> QED
  BY <1>5, <1>6

LEMMA RingIsFullTail ==
  ASSUME LInv, NEW w \in Writers, RingIsFull(w)
  PROVE  (Meeting /\ Alone /\ InRing /\ Counted)'
<1>1. /\ ~(g_log_count < RingSize)
      /\ wpc[w] = "count" /\ wpc' = [wpc EXCEPT ![w] = "idle"] /\ Return(w)
      /\ UNCHANGED <<g_log_ring, g_log_head, g_log_count, line>>
  BY DEF RingIsFull, Goto, ring, Room
<1>2. /\ (Meeting /\ Alone /\ InRing)'
      /\ UNCHANGED ever_met
      /\ \/ met /\ ever_met /\ tail' = <<>>
         \/ ~met /\ tail' = Append(tail, line[w]) /\ AllIdle'
  BY <1>1, ReturnTail DEF Counting
<1>3. /\ g_log_count = RingSize /\ RingSize \in Nat /\ RingSize > 0
      /\ tail \in Seq(Line) /\ line[w] \in Line /\ Len(tail) \in Nat
  BY <1>1, LogFacts
<1>4. ~ever_met => Len(tail') = Len(tail) + 1
  BY <1>2, <1>3, AppendProperties
<1>5. ~ever_met => ~(Len(tail) < RingSize)
  BY <1>3 DEF LInv, Counted
<1>6. Counted'
  BY <1>1, <1>2, <1>3, <1>4, <1>5 DEF Counted
<1> QED
  BY <1>2, <1>6

LEMMA StoreCountTail ==
  ASSUME LInv, NEW w \in Writers, StoreCount(w)
  PROVE  (Meeting /\ Alone /\ InRing /\ Counted)'
<1>1. /\ wpc[w] = "bump" /\ wpc' = [wpc EXCEPT ![w] = "idle"] /\ Return(w)
      /\ g_log_count' = reg[w] + 1
      /\ UNCHANGED <<g_log_ring, g_log_head, line>>
  BY DEF StoreCount, Goto
<1>2. /\ (Meeting /\ Alone /\ InRing)'
      /\ UNCHANGED ever_met
      /\ \/ met /\ ever_met /\ tail' = <<>>
         \/ ~met /\ tail' = Append(tail, line[w]) /\ AllIdle'
  BY <1>1, ReturnTail DEF Counting
<1>3. /\ RingSize \in Nat /\ RingSize > 0
      /\ tail \in Seq(Line) /\ line[w] \in Line /\ Len(tail) \in Nat
      /\ reg[w] \in Nat /\ reg[w] < RingSize
  BY <1>1, LogFacts DEF LInv, IInv, Adding, TypeOK
<1>4. CASE met
  <2>1. Len(tail') = 0 /\ g_log_count' \in Nat /\ ever_met'
    BY <1>1, <1>2, <1>3, <1>4
  <2> QED
    BY <1>2, <2>1 DEF Counted
<1>5. CASE ~met
  <2>1. Len(tail') = Len(tail) + 1 /\ AllIdle'
    BY <1>2, <1>3, <1>5, AppendProperties
  <2>2. reg[w] = g_log_count
    BY <1>1, <1>5 DEF LInv, Alone
  <2>3. Len(tail) <= g_log_count
    BY <1>3, <2>2 DEF LInv, Counted
  <2>4. \A v \in Writers : ~Counting(v)'
    BY <2>1 DEF AllIdle, Counting
  <2>5. Counting(w)
    BY <1>1 DEF Counting
  <2>6. ASSUME ~ever_met
        PROVE  /\ g_log_count' = IF Len(tail') < RingSize THEN Len(tail') ELSE RingSize
               /\ g_log_count' < RingSize => g_log_head' = g_log_count'
    <3>1. /\ g_log_count = Len(tail)
          /\ g_log_head = (g_log_count + 1) % RingSize
      BY <1>3, <2>2, <2>5, <2>6 DEF LInv, Counted
    <3>2. g_log_count' = Len(tail')
      BY <1>1, <2>1, <2>2, <3>1
    <3>3. g_log_count' < RingSize => g_log_head' = g_log_count'
      BY <1>1, <1>3, <2>2, <3>1
    <3> QED
      BY <1>1, <1>3, <2>1, <2>2, <3>1, <3>2, <3>3
  <2>7. Counted'
    BY <1>1, <1>2, <1>3, <2>1, <2>2, <2>3, <2>4, <2>6 DEF Counted
  <2> QED
    BY <1>2, <2>7
<1> QED
  BY <1>4, <1>5

LEMMA AddTail ==
  ASSUME LInv, NEW w \in Writers, Add(w)
  PROVE  (Meeting /\ Alone /\ InRing /\ Counted /\ Reading)'
<1>1. Reading'
  BY DEF Add, Reading
<1> QED
  BY <1>1, AddLogTail, CopyTail, LoadHeadTail, StoreHeadTail, LoadCountTail,
     RingIsFullTail, StoreCountTail DEF Add

-----------------------------------------------------------------------------
(* The page.                                                               *)

LEMMA RingKept ==
  ASSUME LInv, UNCHANGED <<ring, writer, history>>
  PROVE  (Meeting /\ Alone /\ InRing /\ Counted)'
BY DEF LInv, Meeting, Alone, InRing, Counted, AllIdle, Writing, Counting, Holds, ring,
       writer, history

LEMMA PageFacts ==
  ASSUME LInv
  PROVE  /\ start \in Nat /\ i \in Nat /\ i <= RingSize /\ g_log_count \in Nat
         /\ page \in Seq(PageEntry) /\ DOMAIN page = 1..Len(page)
         /\ g_log_count <= RingSize
         /\ Entry = EntryAt(i + 1) /\ Entry \in Text
         /\ \A k \in 1..Len(page) : page[k] \in PageEntry
<1>1. TypeOK
  BY LogFacts
<1>2. /\ start \in Nat /\ i \in Nat /\ i <= RingSize /\ g_log_count \in Nat
      /\ g_log_count <= RingSize
  BY <1>1, SizeIsPositive DEF TypeOK, Slots
<1>3. page \in Seq(PageEntry)
  BY <1>1 DEF TypeOK, PageEntry
<1>4. DOMAIN page = 1..Len(page) /\ \A k \in 1..Len(page) : page[k] \in PageEntry
  BY <1>3, LenProperties, ElementOfSeq
<1>5. start + i = start + (i + 1) - 1
  BY <1>2
<1> QED
  BY <1>1, <1>2, <1>3, <1>4, <1>5, EntryIsText DEF Entry, EntryAt

\* As long as nobody logs, what an entry was read from stays.
LEMMA EntriesKept ==
  ASSUME UNCHANGED <<ring, writer, start>>
  PROVE  /\ \A k : EntryAt(k)' = EntryAt(k)
         /\ AllIdle' = AllIdle /\ UNCHANGED <<g_log_count, g_log_head>>
BY DEF EntryAt, AllIdle, ring, writer

LEMMA PageBeginReads ==
  ASSUME LInv, PageBegin
  PROVE  Reading'
<1>1. /\ rpc = "idle" /\ rpc' = IF g_log_count < RingSize THEN "test" ELSE "head"
      /\ start' = 0 /\ disturbed' = ~AllIdle
      /\ UNCHANGED <<g_log_head, g_log_count, wpc, i, page>>
  BY DEF PageBegin, PageStarts, AllIdle, ring, writer
<1>2. i = 0 /\ g_log_count \in Nat /\ g_log_count <= RingSize /\ RingSize \in Nat
  BY <1>1, LogFacts DEF LInv, IInv, Paging
<1>3. \A k : k \notin 1..i
  BY <1>2
<1>4. AllIdle' = AllIdle
  BY <1>1 DEF AllIdle
<1>5. SUFFICES ASSUME AllIdle PROVE Reading'
  BY <1>1 DEF Reading
<1> QED
  BY <1>1, <1>2, <1>3, <1>4, <1>5 DEF Reading

LEMMA PageHeadReads ==
  ASSUME LInv, PageHead
  PROVE  Reading'
<1>1. /\ rpc = "head" /\ rpc' = "test" /\ start' = g_log_head
      /\ UNCHANGED <<g_log_head, g_log_count, wpc, i, page, disturbed>>
  BY DEF PageHead, ring, writer
<1>2. SUFFICES ASSUME ~disturbed PROVE Reading'
  BY <1>1 DEF Reading
<1>3. AllIdle /\ g_log_count = RingSize /\ i = 0
  BY <1>1, <1>2 DEF LInv, Reading
<1>4. AllIdle' /\ (\A k : k \notin 1..i) /\ RingSize \in Nat
  BY <1>1, <1>3, SizeIsPositive DEF AllIdle
<1> QED
  BY <1>1, <1>3, <1>4 DEF Reading

LEMMA PageTestReads ==
  ASSUME LInv, PageTest
  PROVE  Reading'
<1>1. /\ rpc = "test" /\ rpc' = IF i < g_log_count THEN "first" ELSE "done"
      /\ UNCHANGED <<ring, writer, start, i, page, disturbed>>
  BY DEF PageTest
<1>2. SUFFICES ASSUME ~disturbed PROVE Reading'
  BY <1>1 DEF Reading
<1>3. /\ (\A k : EntryAt(k)' = EntryAt(k)) /\ AllIdle' = AllIdle
      /\ UNCHANGED <<g_log_count, g_log_head>>
  BY <1>1, EntriesKept
<1>4. i \in Nat /\ g_log_count \in Nat
  BY PageFacts
<1> QED
  BY <1>1, <1>2, <1>3, <1>4 DEF LInv, Reading

LEMMA PageFirstReads ==
  ASSUME LInv, PageFirst
  PROVE  Reading'
<1> DEFINE e == [text |-> [Entry EXCEPT ![2] = 0], comma |-> FALSE]
<1>1. /\ rpc = "first" /\ rpc' = "second" /\ page' = Append(page, e)
      /\ UNCHANGED <<ring, writer, start, i, disturbed>>
  BY DEF PageFirst
<1>2. SUFFICES ASSUME ~disturbed PROVE Reading'
  BY <1>1 DEF Reading
<1>3. /\ (\A k : EntryAt(k)' = EntryAt(k)) /\ AllIdle' = AllIdle
      /\ UNCHANGED <<g_log_count, g_log_head>>
  BY <1>1, EntriesKept
<1>4. /\ i \in Nat /\ g_log_count \in Nat /\ page \in Seq(PageEntry)
      /\ Entry = EntryAt(i + 1) /\ Entry \in Text
  BY PageFacts
<1>5. Len(page) = i
  BY <1>1 DEF LInv, IInv, Paging
<1>6. e \in PageEntry /\ e.text[1] = Entry[1]
  <2>1. [Entry EXCEPT ![2] = 0] \in Text /\ [Entry EXCEPT ![2] = 0][1] = Entry[1]
    BY <1>4, TextIsFunction DEF Text
  <2> QED
    BY <2>1 DEF PageEntry
<1> HIDE DEF e
<1>7. page'[i + 1] = e /\ \A k \in 1..i : page'[k] = page[k]
  BY <1>1, <1>4, <1>5, <1>6, AppendProperties
<1>8. /\ AllIdle /\ i < g_log_count /\ i <= g_log_count
      /\ start = IF g_log_count < RingSize THEN 0 ELSE g_log_head
      /\ \A k \in 1..i : page[k].text = EntryAt(k)
  BY <1>1, <1>2 DEF LInv, Reading
<1>9. page'[i + 1].text[1] = EntryAt(i + 1)[1]
  BY <1>4, <1>6, <1>7
<1> QED
  BY <1>1, <1>3, <1>7, <1>8, <1>9 DEF Reading

LEMMA PageSecondReads ==
  ASSUME LInv, PageSecond
  PROVE  Reading'
<1> DEFINE n == Len(page)
           e == [page[n] EXCEPT !.text[2] = Entry[2]]
<1>1. /\ rpc = "second" /\ rpc' = "comma" /\ page' = [page EXCEPT ![n] = e]
      /\ UNCHANGED <<ring, writer, start, i, disturbed>>
  BY DEF PageSecond
<1>2. SUFFICES ASSUME ~disturbed PROVE Reading'
  BY <1>1 DEF Reading
<1>3. /\ (\A k : EntryAt(k)' = EntryAt(k)) /\ AllIdle' = AllIdle
      /\ UNCHANGED <<g_log_count, g_log_head>>
  BY <1>1, EntriesKept
<1>4. /\ i \in Nat /\ g_log_count \in Nat /\ page \in Seq(PageEntry)
      /\ DOMAIN page = 1..n
      /\ Entry = EntryAt(i + 1) /\ Entry \in Text
      /\ \A k \in 1..n : page[k] \in PageEntry
  BY PageFacts
<1>5. n = i + 1
  BY <1>1 DEF LInv, IInv, Paging
<1>6. /\ AllIdle /\ i < g_log_count /\ i <= g_log_count
      /\ start = IF g_log_count < RingSize THEN 0 ELSE g_log_head
      /\ \A k \in 1..i : page[k].text = EntryAt(k)
      /\ page[i + 1].text[1] = EntryAt(i + 1)[1]
  BY <1>1, <1>2 DEF LInv, Reading
<1>7. e.text = Entry
  <2>1. n \in 1..n /\ page[n] \in PageEntry
    BY <1>4, <1>5
  <2> DEFINE t == page[n].text
  <2>2. t \in Text /\ t[1] = Entry[1]
    BY <1>4, <1>5, <1>6, <2>1 DEF PageEntry
  <2>3. e.text = [t EXCEPT ![2] = Entry[2]]
    BY <2>1 DEF PageEntry
  <2> HIDE DEF t, e
  <2> DEFINE u == [t EXCEPT ![2] = Entry[2]]
  <2>4. u \in Text /\ u[1] = Entry[1] /\ u[2] = Entry[2]
    BY <1>4, <2>2, HalfIsLine DEF Text
  <2>5. e.text = u
    BY <2>3
  <2> HIDE DEF u
  <2> QED
    BY <1>4, <2>4, <2>5, SameHalves
<1> HIDE DEF e
<1>8. page'[i + 1] = e /\ \A k \in 1..i : page'[k] = page[k]
  BY <1>1, <1>4, <1>5
<1>9. page'[i + 1].text = EntryAt(i + 1)
  BY <1>4, <1>7, <1>8
<1> QED
  BY <1>1, <1>3, <1>6, <1>8, <1>9 DEF Reading

LEMMA PageCommaReads ==
  ASSUME LInv, PageComma
  PROVE  Reading'
<1> DEFINE n == Len(page)
           e == [page[n] EXCEPT !.comma = Comma]
<1>1. /\ rpc = "comma" /\ rpc' = "test" /\ page' = [page EXCEPT ![n] = e]
      /\ i' = i + 1
      /\ UNCHANGED <<ring, writer, start, disturbed>>
  BY DEF PageComma
<1>2. SUFFICES ASSUME ~disturbed PROVE Reading'
  BY <1>1 DEF Reading
<1>3. /\ (\A k : EntryAt(k)' = EntryAt(k)) /\ AllIdle' = AllIdle
      /\ UNCHANGED <<g_log_count, g_log_head>>
  BY <1>1, EntriesKept
<1>4. /\ i \in Nat /\ g_log_count \in Nat /\ page \in Seq(PageEntry)
      /\ DOMAIN page = 1..n
      /\ \A k \in 1..n : page[k] \in PageEntry
  BY PageFacts
<1>5. n = i + 1
  BY <1>1 DEF LInv, IInv, Paging
<1>6. /\ AllIdle /\ i < g_log_count
      /\ start = IF g_log_count < RingSize THEN 0 ELSE g_log_head
      /\ \A k \in 1..i : page[k].text = EntryAt(k)
      /\ page[i + 1].text = EntryAt(i + 1)
  BY <1>1, <1>2 DEF LInv, Reading
<1>7. e.text = page[n].text
  <2>1. n \in 1..n /\ page[n] \in PageEntry
    BY <1>4, <1>5
  <2> QED
    BY <2>1 DEF PageEntry
<1> HIDE DEF e
<1>8. page'[i + 1] = e /\ \A k \in 1..i : page'[k] = page[k]
  BY <1>1, <1>4, <1>5
<1>9. ASSUME NEW k \in 1..i'
      PROVE  page'[k].text = EntryAt(k)'
  <2>1. k \in 1..i \/ k = i + 1
    BY <1>1, <1>4, <1>9
  <2> QED
    BY <1>3, <1>5, <1>6, <1>7, <1>8, <2>1
<1>10. i' <= g_log_count
  BY <1>1, <1>4, <1>6
<1> QED
  BY <1>1, <1>3, <1>6, <1>9, <1>10 DEF Reading

LEMMA LogIndInit == Init => LInv
<1>1. SUFFICES ASSUME Init
               PROVE  LInv
  OBVIOUS
<1>2. IInv
  BY <1>1, IndInit
<1>3. /\ AllIdle /\ ~met /\ ~ever_met /\ tail = <<>> /\ Len(tail) = 0
      /\ g_log_count = 0 /\ g_log_head = 0 /\ RingSize \in Nat /\ RingSize > 0
      /\ rpc = "idle"
  BY <1>1, SizeIsPositive DEF Init, AllIdle
<1>4. Meeting /\ Reading
  BY <1>3 DEF Meeting, AllIdle, Reading
<1>5. Alone /\ InRing
  BY <1>3, HoldsNothing DEF Alone, InRing, AllIdle, Writing, Counting
<1>6. Counted
  BY <1>3 DEF Counted, Counting, AllIdle
<1> QED
  BY <1>2, <1>4, <1>5, <1>6 DEF LInv

LEMMA LogIndNext == LInv /\ [Next]_vars => LInv'
<1>1. SUFFICES ASSUME LInv, [Next]_vars
               PROVE  LInv'
  OBVIOUS
<1>2. IInv'
  BY <1>1, IndNext DEF LInv
<1>3. ASSUME NEW w \in Writers, Add(w)
      PROVE  LInv'
  BY <1>1, <1>2, <1>3, AddTail DEF LInv
<1>4. CASE PageBegin \/ PageHead \/ PageTest \/ PageFirst \/ PageSecond \/ PageComma
           \/ PageSent
  <2>1. UNCHANGED <<ring, writer, history>>
    BY <1>4 DEF PageBegin, PageHead, PageTest, PageFirst, PageSecond, PageComma, PageSent
  <2>2. (Meeting /\ Alone /\ InRing /\ Counted)'
    BY <1>1, <2>1, RingKept
  <2>3. PageSent => Reading'
    BY DEF PageSent, Reading
  <2>4. Reading'
    BY <1>1, <1>4, <2>3, PageBeginReads, PageHeadReads, PageTestReads, PageFirstReads,
       PageSecondReads, PageCommaReads
  <2> QED
    BY <1>2, <2>2, <2>4 DEF LInv
<1>5. CASE UNCHANGED vars
  <2>1. UNCHANGED <<ring, writer, history>> /\ UNCHANGED <<rpc, start, i, page, disturbed>>
    BY <1>5 DEF vars, reader
  <2>2. (Meeting /\ Alone /\ InRing /\ Counted)'
    BY <1>1, <2>1, RingKept
  <2>3. Reading'
    BY <1>1, <2>1, EntriesKept DEF LInv, Reading
  <2> QED
    BY <1>2, <2>2, <2>3 DEF LInv
<1> QED
  BY <1>1, <1>3, <1>4, <1>5 DEF Next

LEMMA LastOfFacts ==
  ASSUME NEW s \in Seq(Line)
  PROVE  /\ Len(s) >= RingSize =>
               /\ DOMAIN LastOf(s) = 1..RingSize
               /\ \A k \in 1..RingSize : LastOf(s)[k] = s[Len(s) - RingSize + k]
         /\ Len(s) < RingSize => LastOf(s) = s
<1> DEFINE l == Len(s)
<1>1. /\ l \in Nat /\ RingSize \in Nat /\ RingSize > 0 /\ DOMAIN s = 1..l
      /\ LastOf(s) = IF l <= RingSize THEN s ELSE SubSeq(s, l - RingSize + 1, l)
      /\ l = Len(s)
  BY LenProperties, SizeIsPositive DEF LastOf
<1>2. SUFFICES /\ l >= RingSize =>
                     /\ DOMAIN LastOf(s) = 1..RingSize
                     /\ \A k \in 1..RingSize : LastOf(s)[k] = s[l - RingSize + k]
               /\ l < RingSize => LastOf(s) = s
  OBVIOUS
<1> HIDE DEF l
<1>3. CASE l <= RingSize
  <2>1. LastOf(s) = s
    BY <1>1, <1>3
  <2>2. l >= RingSize => l = RingSize
    <3>1. l \in Int /\ RingSize \in Int
      BY <1>1
    <3> QED
      BY <1>3, <3>1
  <2>3. l = RingSize => \A k \in 1..RingSize : l - RingSize + k = k
    BY <1>1
  <2> QED
    BY <1>1, <2>1, <2>2, <2>3
<1>4. CASE ~(l <= RingSize)
  <2> DEFINE m == l - RingSize + 1
  <2>1. LastOf(s) = SubSeq(s, m, l)
    BY <1>1, <1>4
  <2>2. m \in 1..(l + 1) /\ l \in (m - 1)..l /\ l - m + 1 = RingSize /\ m \in Nat
    BY <1>1, <1>4
  <2>3. \A k \in 1..RingSize : m + k - 1 = l - RingSize + k
    BY <1>1
  <2> HIDE DEF m
  <2>4. /\ DOMAIN SubSeq(s, m, l) = 1..(l - m + 1)
        /\ \A k \in 1..(l - m + 1) : SubSeq(s, m, l)[k] = s[m + k - 1]
    BY <1>1, <2>2, SubSeqProperties
  <2>5. ~(l < RingSize)
    BY <1>1, <1>4
  <2> QED
    BY <2>1, <2>2, <2>3, <2>4, <2>5
<1> QED
  BY <1>3, <1>4

\* What the counters say of the lines when nobody is logging.
LEMMA QuietCounts ==
  ASSUME LInv, AllIdle, Len(tail) >= RingSize \/ ~ever_met
  PROVE  \/ g_log_count = RingSize /\ Len(tail) >= RingSize
         \/ /\ g_log_count < RingSize
            /\ g_log_count = Len(tail) /\ g_log_head = g_log_count
<1> DEFINE l == Len(tail)
<1>1. /\ l \in Nat /\ RingSize \in Nat /\ g_log_count \in Nat /\ g_log_count <= RingSize
      /\ l >= RingSize \/ ~ever_met
      /\ l <= g_log_count \/ g_log_count = RingSize
      /\ ~ever_met => g_log_count = IF l < RingSize THEN l ELSE RingSize
      /\ ~ever_met /\ g_log_count < RingSize => g_log_head = g_log_count
  BY LogFacts DEF LInv, Counted, AllIdle, Counting
<1>2. SUFFICES \/ g_log_count = RingSize /\ l >= RingSize
               \/ /\ g_log_count < RingSize
                  /\ g_log_count = l /\ g_log_head = g_log_count
  OBVIOUS
<1> HIDE DEF l
<1> QED
  BY <1>1

\* A page read while nobody logs is the last lines that were added one after the other,
\* whole and oldest first, for any ring and any number of tasks, once as many were added
\* as the ring has slots; without a race before that, too.
THEOREM QuietPages == Spec => []PageIsTheTail
<1>1. LInv => PageIsTheTail
  <2>1. SUFFICES ASSUME LInv, rpc = "done", ~disturbed, Len(tail) >= RingSize \/ ~ever_met
                 PROVE  [k \in DOMAIN page |-> page[k].text]
                            = [k \in DOMAIN LastOf(tail) |-> WholeLine(LastOf(tail)[k])]
    BY DEF PageIsTheTail, WholeLine
  <2>2. /\ AllIdle /\ i = g_log_count
        /\ start = IF g_log_count < RingSize THEN 0 ELSE g_log_head
        /\ \A k \in 1..i : page[k].text = EntryAt(k)
        /\ Len(page) = i
    BY <2>1 DEF LInv, Reading, IInv, Paging
  <2>3. /\ tail \in Seq(Line) /\ Len(tail) \in Nat /\ RingSize \in Nat /\ RingSize > 0
        /\ g_log_count \in Nat /\ g_log_count <= RingSize
        /\ g_log_head \in Nat /\ g_log_head < RingSize
        /\ DOMAIN page = 1..i /\ DOMAIN tail = 1..Len(tail)
    BY <2>1, <2>2, LogFacts, PageFacts, LenProperties
  <2>4. Holds(g_log_ring, g_log_head, tail, RingSize)
    BY <2>1, <2>2 DEF LInv, InRing
  <2>5. CASE g_log_count = RingSize /\ Len(tail) >= RingSize
    <3>1. Len(tail) >= RingSize
      BY <2>5
    <3>2. /\ DOMAIN LastOf(tail) = 1..RingSize
          /\ \A k \in 1..RingSize : LastOf(tail)[k] = tail[Len(tail) - RingSize + k]
      BY <2>3, <3>1, LastOfFacts
    <3>3. ASSUME NEW k \in 1..RingSize
          PROVE  EntryAt(k) = WholeLine(LastOf(tail)[k])
      <4> DEFINE j == RingSize + 1 - k
      <4>1. /\ j \in 1..Len(tail) /\ j <= RingSize
            /\ Len(tail) + 1 - j = Len(tail) - RingSize + k
        BY <2>3, <3>1, <3>3
      <4>2. g_log_ring[Back(g_log_head, j)] = WholeLine(tail[Len(tail) - RingSize + k])
        BY <2>4, <4>1 DEF Holds
      <4>3. Back(g_log_head, j) = (start + k - 1) % RingSize
        <5>1. start = g_log_head
          BY <2>2, <2>3, <2>5
        <5> DEFINE a == g_log_head + k - 1
        <5>2. a \in Nat /\ a < RingSize + RingSize
          BY <2>3, <3>3
        <5>3. a % RingSize = IF a < RingSize THEN a ELSE a - RingSize
          BY <5>2, Wrap
        <5>4. Back(g_log_head, j) = IF a < RingSize THEN a ELSE a - RingSize
          BY <2>3, <3>3 DEF Back
        <5> QED
          BY <5>1, <5>3, <5>4
      <4> QED
        BY <3>2, <4>2, <4>3 DEF EntryAt
    <3> QED
      BY <2>2, <2>3, <2>5, <3>2, <3>3
  <2>6. CASE /\ g_log_count < RingSize
             /\ g_log_count = Len(tail) /\ g_log_head = g_log_count
    <3>1. /\ g_log_count = Len(tail) /\ g_log_head = g_log_count
          /\ Len(tail) < RingSize /\ start = 0
      BY <2>2, <2>6
    <3>2. LastOf(tail) = tail
      BY <2>3, <3>1, LastOfFacts
    <3>3. ASSUME NEW k \in 1..Len(tail)
          PROVE  EntryAt(k) = WholeLine(tail[k])
      <4> DEFINE j == Len(tail) + 1 - k
      <4>1. /\ j \in 1..Len(tail) /\ j <= RingSize /\ Len(tail) + 1 - j = k
        BY <2>3, <3>1, <3>3
      <4>2. g_log_ring[Back(g_log_head, j)] = WholeLine(tail[k])
        BY <2>4, <4>1 DEF Holds
      <4>3. Back(g_log_head, j) = k - 1
        BY <2>3, <3>1, <3>3 DEF Back
      <4>4. (start + k - 1) % RingSize = k - 1
        <5>1. k - 1 \in Nat /\ k - 1 < RingSize /\ k - 1 < RingSize + RingSize
          BY <2>3, <3>1, <3>3
        <5>2. start + k - 1 = k - 1
          BY <3>1, <3>3
        <5>3. (k - 1) % RingSize = k - 1
          BY <5>1, Wrap
        <5> QED
          BY <5>2, <5>3
      <4> QED
        BY <4>2, <4>3, <4>4 DEF EntryAt
    <3> QED
      BY <2>2, <2>3, <3>1, <3>2, <3>3
  <2> QED
    BY <2>1, <2>2, <2>5, <2>6, QuietCounts
<1> QED
  BY <1>1, LogIndInit, LogIndNext, PTL DEF Spec
=============================================================================
