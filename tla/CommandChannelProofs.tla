------------------------ MODULE CommandChannelProofs ------------------------
(***************************************************************************)
(* Proofs about CommandChannel for every set of users and every number of  *)
(* links, commands and fragments.                                          *)
(***************************************************************************)
EXTENDS CommandChannel, TLAPS

-----------------------------------------------------------------------------
(***************************************************************************)
(* The inductive invariant.                                                *)

Handshake == {"find", "info", "asked", "pair"}

\* What a task in a request is sending: only the Bluetooth task sends others than
\* switch commands, and the next fragment is one that the message has.
Sending ==
    \A t \in Tasks :
        /\ pc[t] \in {"check", "key", "load", "store", "build"} => msg[t].k = 0
        /\ pc[t] = "write" => msg[t].k < Fragments[msg[t].kind]
        /\ pc[t] \in {"check", "key"} => msg[t].kind = "switch"
        /\ t \in Users => msg[t].kind = "switch"
        /\ on[t] <= links

\* The link, the stage of the Bluetooth task and the public state.
Linked ==
    /\ up # 0 => known = up
    /\ stage = "connect" <=> known = 0
    /\ stage = "clear" => up = 0
    /\ stage \in {"connect", "clear"} => answers = {}
    /\ stage \notin {"ready", "open"} => g_state = "OTHER"
    /\ pc[Btc] # "idle" => stage \in {"asked", "open"}

\* The session key is that of the link from the answer to DEVICE_INFO on.
KeyOfLink ==
    /\ stage \in {"pair", "ready", "open"} => g_session_key = known
    /\ pc[Btc] # "idle" /\ msg[Btc].kind = "pair" => g_session_key = known
    /\ "pair" \in answers => g_session_key = known

\* A switch command past the check of the state began on an earlier link while a
\* handshake is under way.
Checked ==
    \A t \in Tasks :
        /\ pc[t] \in {"key", "load", "store", "build", "write"}
        /\ msg[t].kind = "switch" /\ stage \in Handshake
        => on[t] # known

\* What a message is encrypted with, if its link still is the one it began on.
Keyed ==
    \A t \in Tasks :
        pc[t] = "write" /\ msg[t].kind # "info" /\ on[t] = up /\ up # 0 => msg[t].key = up

\* The breaker holds the fragments of a message that nothing came between.
Held ==
    \A t \in Tasks :
        clear[t] /\ pc[t] = "write" /\ msg[t].k > 0 =>
            /\ on[t] # 0
            /\ on[t] = up => partial = [task |-> t, k |-> msg[t].k]

\* Without a race on the counter, messages on their way carry different numbers below
\* it that no message carried out on this link had.
Numbered ==
    \/ raced
    \/ /\ ~repeated
       /\ \A n \in numbers : n < g_seq_num
       /\ \A t \in Tasks :
             /\ pc[t] = "store" => msg[t].num = g_seq_num
             /\ pc[t] \in {"build", "write"} =>
                   msg[t].num < g_seq_num /\ msg[t].num \notin numbers
       /\ \A s, t \in Tasks :
             /\ pc[s] = "store" /\ pc[t] = "store" => s = t
             /\ pc[s] \in {"build", "write"} /\ pc[t] \in {"build", "write"}
                  /\ msg[s].num = msg[t].num
                => s = t

IInv ==
    /\ TypeOK
    /\ Sending /\ Linked /\ KeyOfLink /\ Checked /\ Keyed /\ Held /\ Numbered
    /\ NothingElseLoses

-----------------------------------------------------------------------------
(* A task in a request: each step keeps the invariant.                     *)

LEMMA UserCommandKeeps ==
  ASSUME IInv, NEW t \in Tasks, UserCommand(t)
  PROVE  IInv'
<1>1. TypeOK'
  BY FragmentsAssumption, BoundsAssumption DEF IInv, UserCommand, Command, Begin,
     Goto, NoMsg, globals, radio, TypeOK, Kinds
<1>2. Sending' /\ Linked'
  BY TasksAssumption DEF IInv, UserCommand, Command, Begin, Goto, NoMsg, globals,
     radio, TypeOK, Sending, Linked
<1>3. KeyOfLink' /\ Checked'
  BY DEF IInv, UserCommand, Command, Begin, Goto, globals, radio, KeyOfLink, Checked,
     Sending
<1>4. Keyed'
  BY DEF IInv, UserCommand, Command, Begin, Goto, radio, Keyed
<1>5. Held'
  BY DEF IInv, UserCommand, Command, Begin, Goto, radio, Held
<1>6. NothingElseLoses'
  BY DEF IInv, UserCommand, Command, Begin, Goto, NothingElseLoses
<1>7. Numbered'
  BY DEF IInv, UserCommand, Command, Begin, Goto, globals, Numbered
<1> QED
  BY <1>1, <1>2, <1>3, <1>4, <1>5, <1>6, <1>7 DEF IInv

LEMMA CheckStateKeeps ==
  ASSUME IInv, NEW t \in Tasks, CheckState(t)
  PROVE  IInv'
<1>1. TypeOK'
  BY DEF IInv, CheckState, Goto, CheckReady, globals, radio, breaker, TypeOK
<1>2. Sending' /\ Linked'
  BY DEF IInv, CheckState, Goto, CheckReady, globals, radio, breaker, Sending, Linked
<1>3. KeyOfLink' /\ Checked'
  BY DEF IInv, CheckState, Goto, CheckReady, globals, radio, breaker, KeyOfLink,
     Checked, Linked, Handshake
<1>4. Keyed'
  BY DEF IInv, CheckState, Goto, CheckReady, radio, Keyed
<1>5. Held'
  BY DEF IInv, CheckState, Goto, CheckReady, radio, breaker, Held
<1>6. NothingElseLoses'
  BY DEF IInv, CheckState, Goto, CheckReady, breaker, NothingElseLoses
<1>7. Numbered'
  BY DEF IInv, CheckState, Goto, CheckReady, globals, breaker, Numbered
<1> QED
  BY <1>1, <1>2, <1>3, <1>4, <1>5, <1>6, <1>7 DEF IInv

LEMMA CheckKeyKeeps ==
  ASSUME IInv, NEW t \in Tasks, CheckKey(t)
  PROVE  IInv'
<1>1. TypeOK'
  BY DEF IInv, CheckKey, Goto, globals, radio, breaker, TypeOK
<1>2. Sending' /\ Linked'
  BY DEF IInv, CheckKey, Goto, globals, radio, breaker, Sending, Linked
<1>3. KeyOfLink' /\ Checked'
  BY DEF IInv, CheckKey, Goto, globals, radio, breaker, KeyOfLink, Checked
<1>4. Keyed'
  BY DEF IInv, CheckKey, Goto, radio, Keyed
<1>5. Held'
  BY DEF IInv, CheckKey, Goto, radio, breaker, Held
<1>6. NothingElseLoses'
  BY DEF IInv, CheckKey, Goto, breaker, NothingElseLoses
<1>7. Numbered'
  BY DEF IInv, CheckKey, Goto, globals, breaker, Numbered
<1> QED
  BY <1>1, <1>2, <1>3, <1>4, <1>5, <1>6, <1>7 DEF IInv

LEMMA LoadSeqKeeps ==
  ASSUME IInv, NEW t \in Tasks, LoadSeq(t)
  PROVE  IInv'
<1>1. TypeOK'
  BY DEF IInv, LoadSeq, Goto, globals, radio, breaker, TypeOK
<1>2. Sending' /\ Linked'
  BY DEF IInv, LoadSeq, Goto, globals, radio, breaker, Sending, Linked
<1>3. KeyOfLink' /\ Checked'
  BY DEF IInv, LoadSeq, Goto, globals, radio, breaker, KeyOfLink, Checked
<1>4. Keyed'
  BY DEF IInv, LoadSeq, Goto, radio, Keyed
<1>5. Held'
  BY DEF IInv, LoadSeq, Goto, radio, breaker, Held
<1>6. NothingElseLoses'
  BY DEF IInv, LoadSeq, Goto, breaker, NothingElseLoses
<1>7. Numbered'
  <2>1. CASE raced'
    BY <2>1 DEF Numbered
  <2>2. CASE ~raced'
    <3>1. ~raced /\ \A s \in Tasks : pc[s] # "store"
      BY <2>2 DEF LoadSeq
    <3>2. /\ pc[t] = "load" /\ pc' = [pc EXCEPT ![t] = "store"]
          /\ msg' = [msg EXCEPT ![t].num = g_seq_num]
          /\ UNCHANGED <<g_seq_num, numbers, repeated>>
      BY DEF LoadSeq, Goto, globals, breaker
    <3>3. /\ pc'[t] = "store" /\ msg'[t].num = g_seq_num
          /\ \A s \in Tasks \ {t} : pc'[s] = pc[s] /\ msg'[s] = msg[s]
      BY <3>2 DEF IInv, TypeOK
    <3> QED
      BY <3>1, <3>2, <3>3 DEF IInv, Numbered
  <2> QED
    BY <2>1, <2>2
<1> QED
  BY <1>1, <1>2, <1>3, <1>4, <1>5, <1>6, <1>7 DEF IInv

LEMMA StoreSeqKeeps ==
  ASSUME IInv, NEW t \in Tasks, StoreSeq(t)
  PROVE  IInv'
<1>1. TypeOK'
  BY DEF IInv, StoreSeq, Goto, AfterSeq, radio, breaker, TypeOK
<1>2. Sending' /\ Linked'
  BY DEF IInv, StoreSeq, Goto, AfterSeq, radio, breaker, Sending, Linked
<1>3. KeyOfLink' /\ Checked'
  BY DEF IInv, StoreSeq, Goto, AfterSeq, radio, breaker, KeyOfLink, Checked
<1>4. Keyed'
  BY DEF IInv, StoreSeq, Goto, AfterSeq, radio, Keyed
<1>5. Held'
  BY DEF IInv, StoreSeq, Goto, AfterSeq, radio, breaker, Held
<1>6. NothingElseLoses'
  BY DEF IInv, StoreSeq, Goto, AfterSeq, breaker, NothingElseLoses
<1>7. Numbered'
  BY DEF IInv, StoreSeq, Goto, AfterSeq, breaker, TypeOK, Numbered
<1> QED
  BY <1>1, <1>2, <1>3, <1>4, <1>5, <1>6, <1>7 DEF IInv

LEMMA BuildKeeps ==
  ASSUME IInv, NEW t \in Tasks, Build(t)
  PROVE  IInv'
<1>1. TypeOK'
  BY BoundsAssumption DEF IInv, Build, Goto, globals, radio, breaker, TypeOK
<1>2. Sending' /\ Linked'
  BY FragmentsAssumption DEF IInv, Build, Goto, globals, radio, breaker, TypeOK,
     Sending, Linked
<1>3. KeyOfLink' /\ Checked'
  BY DEF IInv, Build, Goto, globals, radio, breaker, KeyOfLink, Checked
<1>4. Keyed'
  BY DEF IInv, Build, Goto, radio, TypeOK, Keyed, Checked, KeyOfLink, Sending, Linked,
     Handshake, Tasks, Kinds
<1>5. Held'
  BY DEF IInv, Build, Goto, radio, breaker, Held, Sending
<1>6. NothingElseLoses'
  BY DEF IInv, Build, Goto, breaker, NothingElseLoses
<1>7. Numbered'
  BY DEF IInv, Build, Goto, globals, breaker, Numbered
<1> QED
  BY <1>1, <1>2, <1>3, <1>4, <1>5, <1>6, <1>7 DEF IInv

LEMMA BuildFailsKeeps ==
  ASSUME IInv, NEW t \in Tasks, BuildFails(t)
  PROVE  IInv'
<1>1. TypeOK'
  BY DEF IInv, BuildFails, Goto, globals, radio, breaker, TypeOK
<1>2. Sending' /\ Linked'
  BY DEF IInv, BuildFails, Goto, globals, radio, breaker, Sending, Linked
<1>3. KeyOfLink' /\ Checked'
  BY DEF IInv, BuildFails, Goto, globals, radio, breaker, KeyOfLink, Checked
<1>4. Keyed'
  BY DEF IInv, BuildFails, Goto, radio, Keyed
<1>5. Held'
  BY DEF IInv, BuildFails, Goto, radio, breaker, Held
<1>6. NothingElseLoses'
  BY DEF IInv, BuildFails, Goto, breaker, NothingElseLoses
<1>7. Numbered'
  BY DEF IInv, BuildFails, Goto, globals, breaker, Numbered
<1> QED
  BY <1>1, <1>2, <1>3, <1>4, <1>5, <1>6, <1>7 DEF IInv

\* The next fragment of a message that has one.
LEMMA AdvanceFacts ==
  ASSUME IInv, NEW t \in Tasks, Advance(t)
  PROVE  /\ msg[t].kind \in Kinds /\ msg[t].num \in Nat /\ msg[t].k \in Nat
         /\ msg' \in [Tasks -> [kind : Kinds, num : Nat, key : 0..MaxLinks, k : Nat]]
         /\ \A s \in Tasks : msg'[s].k <= Fragments[msg'[s].kind]
         /\ pc[t] = "write" /\ pc'[t] \in {"write", "sent"}
         /\ \A s \in Tasks \ {t} : msg'[s] = msg[s] /\ pc'[s] = pc[s]
         /\ pc' \in [Tasks -> {"idle", "check", "key", "load", "store", "build", "write",
                               "sent"}]
         /\ UNCHANGED <<on, links>> => Sending'
<1>1. /\ pc[t] = "write" /\ t \in Tasks /\ msg[t].k \in Nat /\ msg[t].kind \in Kinds
      /\ msg[t].num \in Nat
      /\ Fragments[msg[t].kind] \in Nat /\ msg[t].k < Fragments[msg[t].kind]
      /\ pc' = [pc EXCEPT ![t] = IF LastFragment(t) THEN "sent" ELSE "write"]
      /\ msg' = [msg EXCEPT ![t].k = @ + 1]
      /\ msg \in [Tasks -> [kind : Kinds, num : Nat, key : 0..MaxLinks, k : Nat]]
      /\ pc \in [Tasks -> {"idle", "check", "key", "load", "store", "build", "write",
                           "sent"}]
  BY FragmentsAssumption DEF IInv, Advance, TypeOK, Sending
<1>2. /\ msg'[t].kind = msg[t].kind /\ msg'[t].k = msg[t].k + 1
      /\ \A s \in Tasks \ {t} : msg'[s] = msg[s] /\ pc'[s] = pc[s]
      /\ pc'[t] \in {"write", "sent"}
      /\ pc'[t] = "write" => msg[t].k + 1 < Fragments[msg[t].kind]
      /\ msg' \in [Tasks -> [kind : Kinds, num : Nat, key : 0..MaxLinks, k : Nat]]
  BY <1>1 DEF LastFragment, Tasks, Kinds
<1>3. \A s \in Tasks : msg'[s].k <= Fragments[msg'[s].kind]
  BY <1>1, <1>2 DEF IInv, TypeOK
<1>4. UNCHANGED <<on, links>> => Sending'
  BY <1>1, <1>2 DEF IInv, Sending
<1> QED
  BY <1>1, <1>2, <1>3, <1>4

LEMMA WriteKeeps ==
  ASSUME IInv, NEW t \in Tasks, Write(t)
  PROVE  IInv'
<1>0. Advance(t) /\ UNCHANGED <<on, links>>
  BY DEF Write, radio
<1>1. TypeOK'
  <2>1. /\ msg[t].kind \in Kinds /\ msg[t].num \in Nat /\ msg[t].k \in Nat
        /\ msg' \in [Tasks -> [kind : Kinds, num : Nat, key : 0..MaxLinks, k : Nat]]
        /\ \A s \in Tasks : msg'[s].k <= Fragments[msg'[s].kind]
        /\ pc' \in [Tasks -> {"idle", "check", "key", "load", "store", "build", "write",
                              "sent"}]
    BY <1>0, AdvanceFacts
  <2>2. partial' \in [task : Tasks, k : Nat]
    BY <2>1 DEF Write, Taken, NoPart, Tasks
  <2>3. /\ answers' \subseteq {"info", "pair"} /\ outcome' \in [Tasks -> {"none", "done"}]
        /\ numbers' \subseteq Nat /\ repeated' \in BOOLEAN
    <3>1. /\ answers \subseteq {"info", "pair"} /\ outcome \in [Tasks -> {"none", "done"}]
          /\ numbers \subseteq Nat /\ repeated \in BOOLEAN
      BY DEF IInv, TypeOK
    <3>2. CASE UNCHANGED <<outcome, answers, numbers, repeated>>
      BY <3>1, <3>2
    <3>3. CASE /\ outcome' = [outcome EXCEPT ![t] = "done"]
               /\ answers' = answers \union ({msg[t].kind} \ {"switch"})
               /\ numbers' = numbers \union {msg[t].num}
               /\ repeated' = (repeated \/ msg[t].num \in numbers)
      <4>1. {msg[t].kind} \ {"switch"} \subseteq {"info", "pair"}
        BY <2>1 DEF Kinds
      <4> QED
        BY <2>1, <3>1, <3>3, <4>1
    <3> QED
      BY <3>2, <3>3 DEF Write, Taken
  <2>4. clear' \in [Tasks -> BOOLEAN]
    BY <2>1 DEF Write
  <2>5. UNCHANGED <<globals, radio, on, commands, raced>>
    BY DEF Write
  <2> QED
    BY <2>1, <2>2, <2>3, <2>4, <2>5 DEF IInv, TypeOK, globals, radio
<1>2. Sending' /\ Linked'
  <2>1. Sending'
    BY <1>0, AdvanceFacts
  <2>2. pc[t] = "write" /\ \A s \in Tasks \ {t} : pc'[s] = pc[s]
    BY <1>0, AdvanceFacts
  <2>3. Linked'
    BY <2>2 DEF IInv, Write, Linked, globals, radio, Tasks
  <2> QED
    BY <2>1, <2>3
<1>3. KeyOfLink' /\ Checked'
  BY DEF IInv, Write, Advance, Taken, globals, radio, KeyOfLink, Checked, Sending,
     Tasks
<1>4. Keyed'
  BY DEF IInv, Write, Advance, radio, Keyed
<1>5. Held'
  BY DEF IInv, Write, Advance, LastFragment, Taken, TypeOK, Held
<1>6. NothingElseLoses'
  BY DEF IInv, Write, Advance, LastFragment, Taken, Opens, TypeOK, NothingElseLoses,
     Held, Keyed
<1>7. Numbered'
  BY DEF IInv, Write, Advance, LastFragment, Taken, globals, TypeOK, Numbered
<1> QED
  BY <1>1, <1>2, <1>3, <1>4, <1>5, <1>6, <1>7 DEF IInv

LEMMA WriteLostKeeps ==
  ASSUME IInv, NEW t \in Tasks, WriteLost(t)
  PROVE  IInv'
<1>0. Advance(t) /\ UNCHANGED <<on, links>>
  BY DEF WriteLost, radio
<1>1. TypeOK'
  <2>1. /\ msg[t].kind \in Kinds /\ msg[t].num \in Nat /\ msg[t].k \in Nat
        /\ msg' \in [Tasks -> [kind : Kinds, num : Nat, key : 0..MaxLinks, k : Nat]]
        /\ \A s \in Tasks : msg'[s].k <= Fragments[msg'[s].kind]
        /\ pc' \in [Tasks -> {"idle", "check", "key", "load", "store", "build", "write",
                              "sent"}]
    BY <1>0, AdvanceFacts
  <2>2. partial' \in [task : Tasks, k : Nat]
    BY <2>1 DEF WriteLost, breaker, IInv, TypeOK
  <2>3. /\ answers' \subseteq {"info", "pair"} /\ outcome' \in [Tasks -> {"none", "done"}]
        /\ numbers' \subseteq Nat /\ repeated' \in BOOLEAN
    BY <2>1 DEF WriteLost, breaker, IInv, TypeOK
  <2>4. clear' \in [Tasks -> BOOLEAN]
    BY <2>1 DEF WriteLost, IInv, TypeOK
  <2>5. UNCHANGED <<globals, radio, on, commands, raced>>
    BY DEF WriteLost
  <2> QED
    BY <2>1, <2>2, <2>3, <2>4, <2>5 DEF IInv, TypeOK, globals, radio
<1>2. Sending' /\ Linked'
  <2>1. Sending'
    BY <1>0, AdvanceFacts
  <2>2. pc[t] = "write" /\ \A s \in Tasks \ {t} : pc'[s] = pc[s]
    BY <1>0, AdvanceFacts
  <2>3. Linked'
    BY <2>2 DEF IInv, WriteLost, Linked, globals, radio, breaker, Tasks
  <2> QED
    BY <2>1, <2>3
<1>3. KeyOfLink' /\ Checked'
  BY DEF IInv, WriteLost, Advance, globals, radio, breaker, KeyOfLink, Checked
<1>4. Keyed'
  BY DEF IInv, WriteLost, Advance, radio, Keyed
<1>5. Held'
  BY DEF IInv, WriteLost, Advance, radio, breaker, TypeOK, Held
<1>6. NothingElseLoses'
  BY DEF IInv, WriteLost, Advance, breaker, TypeOK, NothingElseLoses
<1>7. Numbered'
  BY DEF IInv, WriteLost, Advance, globals, breaker, Numbered
<1> QED
  BY <1>1, <1>2, <1>3, <1>4, <1>5, <1>6, <1>7 DEF IInv

LEMMA WriteRefusedKeeps ==
  ASSUME IInv, NEW t \in Tasks, WriteRefused(t)
  PROVE  IInv'
<1>1. TypeOK'
  BY DEF IInv, WriteRefused, Goto, globals, radio, breaker, TypeOK
<1>2. Sending' /\ Linked'
  BY DEF IInv, WriteRefused, Goto, globals, radio, breaker, Sending, Linked
<1>3. KeyOfLink' /\ Checked'
  BY DEF IInv, WriteRefused, Goto, globals, radio, breaker, KeyOfLink, Checked
<1>4. Keyed'
  BY DEF IInv, WriteRefused, Goto, radio, Keyed
<1>5. Held'
  BY DEF IInv, WriteRefused, Goto, radio, breaker, Held
<1>6. NothingElseLoses'
  BY DEF IInv, WriteRefused, Goto, breaker, NothingElseLoses
<1>7. Numbered'
  BY DEF IInv, WriteRefused, Goto, globals, breaker, Numbered
<1> QED
  BY <1>1, <1>2, <1>3, <1>4, <1>5, <1>6, <1>7 DEF IInv

LEMMA SentKeeps ==
  ASSUME IInv, NEW t \in Tasks, Sent(t)
  PROVE  IInv'
<1>1. TypeOK'
  BY DEF IInv, Sent, Goto, globals, radio, breaker, TypeOK
<1>2. Sending' /\ Linked'
  BY DEF IInv, Sent, Goto, globals, radio, breaker, Sending, Linked
<1>3. KeyOfLink' /\ Checked'
  BY DEF IInv, Sent, Goto, globals, radio, breaker, KeyOfLink, Checked
<1>4. Keyed'
  BY DEF IInv, Sent, Goto, radio, Keyed
<1>5. Held'
  BY DEF IInv, Sent, Goto, radio, breaker, Held
<1>6. NothingElseLoses'
  BY DEF IInv, Sent, Goto, breaker, NothingElseLoses
<1>7. Numbered'
  BY DEF IInv, Sent, Goto, globals, breaker, Numbered
<1> QED
  BY <1>1, <1>2, <1>3, <1>4, <1>5, <1>6, <1>7 DEF IInv

-----------------------------------------------------------------------------
(* The Bluetooth task, and the end of a link.                              *)

LEMMA LinkUpKeeps ==
  ASSUME IInv, LinkUp
  PROVE  IInv'
<1>1. TypeOK'
  <2>1. MaxLinks \in Nat
    BY BoundsAssumption
  <2>2. links' \in 0..MaxLinks /\ up' \in {0, links'} /\ known' \in 0..MaxLinks
    BY <2>1 DEF IInv, LinkUp, TypeOK
  <2>3. /\ g_state' \in {"READY", "OTHER"}
        /\ g_write_handle' \in BOOLEAN /\ g_has_session_key' \in BOOLEAN
        /\ g_session_key' \in 0..MaxLinks
        /\ g_seq_num' \in Nat \ {0}
        /\ stage' \in {"connect", "find", "info", "pair", "asked", "ready", "open", "clear"}
        /\ answers' \subseteq {"info", "pair"}
        /\ outcome' \in [Tasks -> {"none", "done"}]
        /\ numbers' \subseteq Nat
        /\ repeated' \in BOOLEAN /\ raced' \in BOOLEAN
        /\ commands' \in 0..MaxCommands
    BY DEF IInv, LinkUp, globals, TypeOK
  <2>4. partial' \in [task : Tasks, k : Nat]
    BY DEF LinkUp, NoPart, Tasks
  <2>5. UNCHANGED task
    BY DEF LinkUp
  <2> QED
    BY <2>2, <2>3, <2>4, <2>5 DEF IInv, TypeOK, task
<1>2. Sending' /\ Linked'
  BY DEF IInv, LinkUp, globals, task, TypeOK, Sending, Linked
<1>3. KeyOfLink' /\ Checked'
  BY DEF IInv, LinkUp, Free, task, TypeOK, KeyOfLink, Checked, Sending
<1>4. Keyed'
  BY DEF IInv, LinkUp, task, TypeOK, Keyed, Sending
<1>5. Held'
  BY DEF IInv, LinkUp, task, TypeOK, Held, Sending
<1>6. NothingElseLoses'
  BY DEF IInv, LinkUp, task, NothingElseLoses
<1>7. Numbered'
  BY DEF IInv, LinkUp, globals, task, Numbered
<1> QED
  BY <1>1, <1>2, <1>3, <1>4, <1>5, <1>6, <1>7 DEF IInv

LEMMA FindHandleKeeps ==
  ASSUME IInv, FindHandle
  PROVE  IInv'
<1>1. TypeOK'
  BY DEF IInv, FindHandle, task, breaker, TypeOK
<1>2. Sending' /\ Linked'
  BY DEF IInv, FindHandle, task, Sending, Linked
<1>3. KeyOfLink' /\ Checked'
  BY DEF IInv, FindHandle, task, breaker, KeyOfLink, Checked, Handshake
<1>4. Keyed'
  BY DEF IInv, FindHandle, task, Keyed
<1>5. Held'
  BY DEF IInv, FindHandle, task, breaker, Held
<1>6. NothingElseLoses'
  BY DEF IInv, FindHandle, task, breaker, NothingElseLoses
<1>7. Numbered'
  BY DEF IInv, FindHandle, task, breaker, Numbered
<1> QED
  BY <1>1, <1>2, <1>3, <1>4, <1>5, <1>6, <1>7 DEF IInv

LEMMA SendDeviceInfoKeeps ==
  ASSUME IInv, SendDeviceInfo
  PROVE  IInv'
<1>1. TypeOK'
  BY FragmentsAssumption, BoundsAssumption DEF IInv, SendDeviceInfo, Begin, Goto,
     NoMsg, globals, TypeOK, Tasks, Kinds
<1>2. Sending' /\ Linked'
  BY TasksAssumption DEF IInv, SendDeviceInfo, Begin, Goto, NoMsg, globals, TypeOK,
     Sending, Linked
<1>3. KeyOfLink' /\ Checked'
  BY DEF IInv, SendDeviceInfo, Begin, Goto, globals, TypeOK, KeyOfLink, Checked,
     Handshake
<1>4. Keyed'
  BY DEF IInv, SendDeviceInfo, Begin, Goto, Keyed
<1>5. Held'
  BY DEF IInv, SendDeviceInfo, Begin, Goto, Held
<1>6. NothingElseLoses'
  BY DEF IInv, SendDeviceInfo, Begin, Goto, NothingElseLoses
<1>7. Numbered'
  BY DEF IInv, SendDeviceInfo, Begin, Goto, globals, Numbered
<1> QED
  BY <1>1, <1>2, <1>3, <1>4, <1>5, <1>6, <1>7 DEF IInv

LEMMA AnswerInfoKeeps ==
  ASSUME IInv, AnswerInfo
  PROVE  IInv'
<1>1. TypeOK'
  BY DEF IInv, AnswerInfo, Derive, task, TypeOK
<1>2. Sending' /\ Linked'
  BY DEF IInv, AnswerInfo, Free, Derive, task, Sending, Linked
<1>3. KeyOfLink' /\ Checked'
  BY DEF IInv, AnswerInfo, Derive, task, KeyOfLink, Checked, Handshake
<1>4. Keyed'
  BY DEF IInv, AnswerInfo, Derive, task, Keyed
<1>5. Held'
  BY DEF IInv, AnswerInfo, Derive, task, Held
<1>6. NothingElseLoses'
  BY DEF IInv, AnswerInfo, Derive, task, NothingElseLoses
<1>7. Numbered'
  BY DEF IInv, AnswerInfo, Derive, task, Numbered
<1> QED
  BY <1>1, <1>2, <1>3, <1>4, <1>5, <1>6, <1>7 DEF IInv

LEMMA SendPairKeeps ==
  ASSUME IInv, SendPair
  PROVE  IInv'
<1>1. TypeOK'
  BY FragmentsAssumption, BoundsAssumption DEF IInv, SendPair, Begin, Goto, NoMsg,
     globals, TypeOK, Tasks, Kinds
<1>2. Sending' /\ Linked'
  BY TasksAssumption DEF IInv, SendPair, Begin, Goto, NoMsg, globals, TypeOK, Sending,
     Linked
<1>3. KeyOfLink' /\ Checked'
  BY DEF IInv, SendPair, Begin, Goto, globals, TypeOK, KeyOfLink, Checked, Handshake
<1>4. Keyed'
  BY DEF IInv, SendPair, Begin, Goto, Keyed
<1>5. Held'
  BY DEF IInv, SendPair, Begin, Goto, Held
<1>6. NothingElseLoses'
  BY DEF IInv, SendPair, Begin, Goto, NothingElseLoses
<1>7. Numbered'
  BY DEF IInv, SendPair, Begin, Goto, globals, Numbered
<1> QED
  BY <1>1, <1>2, <1>3, <1>4, <1>5, <1>6, <1>7 DEF IInv

LEMMA AnswerPairKeeps ==
  ASSUME IInv, AnswerPair
  PROVE  IInv'
<1>1. TypeOK'
  BY DEF IInv, AnswerPair, task, TypeOK
<1>2. Sending' /\ Linked'
  BY DEF IInv, AnswerPair, Free, task, Sending, Linked
<1>3. KeyOfLink' /\ Checked'
  BY DEF IInv, AnswerPair, KeyOfLink, Checked, Handshake
<1>4. Keyed'
  BY DEF IInv, AnswerPair, task, Keyed
<1>5. Held'
  BY DEF IInv, AnswerPair, task, Held
<1>6. NothingElseLoses'
  BY DEF IInv, AnswerPair, task, NothingElseLoses
<1>7. Numbered'
  BY DEF IInv, AnswerPair, task, Numbered
<1> QED
  BY <1>1, <1>2, <1>3, <1>4, <1>5, <1>6, <1>7 DEF IInv

LEMMA SendPendingKeeps ==
  ASSUME IInv, SendPending
  PROVE  IInv'
<1>1. TypeOK'
  BY FragmentsAssumption, BoundsAssumption DEF IInv, SendPending, Command, Begin,
     Goto, NoMsg, globals, TypeOK, Tasks, Kinds
<1>2. Sending' /\ Linked'
  BY DEF IInv, SendPending, Command, Begin, Goto, NoMsg, TypeOK, Sending, Linked
<1>3. KeyOfLink' /\ Checked'
  BY DEF IInv, SendPending, Command, globals, KeyOfLink, Checked, Handshake
<1>4. Keyed'
  BY DEF IInv, SendPending, Command, Begin, Goto, Keyed
<1>5. Held'
  BY DEF IInv, SendPending, Command, Begin, Goto, Held
<1>6. NothingElseLoses'
  BY DEF IInv, SendPending, Command, Begin, Goto, NothingElseLoses
<1>7. Numbered'
  BY DEF IInv, SendPending, Command, Begin, Goto, globals, Numbered
<1> QED
  BY <1>1, <1>2, <1>3, <1>4, <1>5, <1>6, <1>7 DEF IInv

LEMMA NothingPendingKeeps ==
  ASSUME IInv, NothingPending
  PROVE  IInv'
<1>1. TypeOK'
  BY DEF IInv, NothingPending, globals, task, breaker, TypeOK
<1>2. Sending' /\ Linked'
  BY DEF IInv, NothingPending, task, Sending, Linked
<1>3. KeyOfLink' /\ Checked'
  BY DEF IInv, NothingPending, globals, KeyOfLink, Checked, Handshake
<1>4. Keyed'
  BY DEF IInv, NothingPending, task, Keyed
<1>5. Held'
  BY DEF IInv, NothingPending, task, breaker, Held
<1>6. NothingElseLoses'
  BY DEF IInv, NothingPending, task, breaker, NothingElseLoses
<1>7. Numbered'
  BY DEF IInv, NothingPending, globals, task, breaker, Numbered
<1> QED
  BY <1>1, <1>2, <1>3, <1>4, <1>5, <1>6, <1>7 DEF IInv

LEMMA TellDownKeeps ==
  ASSUME IInv, TellDown
  PROVE  IInv'
<1>1. TypeOK'
  BY DEF IInv, TellDown, task, breaker, TypeOK
<1>2. Sending' /\ Linked'
  BY DEF IInv, TellDown, Free, task, breaker, Sending, Linked
<1>3. KeyOfLink' /\ Checked'
  BY DEF TellDown, Free, task, breaker, KeyOfLink, Checked, Handshake
<1>4. Keyed'
  BY DEF TellDown, Keyed
<1>5. Held'
  BY DEF IInv, TellDown, task, Held
<1>6. NothingElseLoses'
  BY DEF IInv, TellDown, task, breaker, NothingElseLoses
<1>7. Numbered'
  BY DEF IInv, TellDown, task, breaker, Numbered
<1> QED
  BY <1>1, <1>2, <1>3, <1>4, <1>5, <1>6, <1>7 DEF IInv

LEMMA ClearSessionKeeps ==
  ASSUME IInv, ClearSession
  PROVE  IInv'
<1>1. TypeOK'
  <2>1. MaxLinks \in Nat
    BY BoundsAssumption
  <2>2. links' \in 0..MaxLinks /\ up' \in {0, links'} /\ known' \in 0..MaxLinks
    BY <2>1 DEF IInv, ClearSession, TypeOK
  <2>3. /\ g_state' \in {"READY", "OTHER"}
        /\ g_write_handle' \in BOOLEAN /\ g_has_session_key' \in BOOLEAN
        /\ g_session_key' \in 0..MaxLinks
        /\ g_seq_num' \in Nat \ {0}
        /\ stage' \in {"connect", "find", "info", "pair", "asked", "ready", "open", "clear"}
        /\ answers' \subseteq {"info", "pair"}
        /\ outcome' \in [Tasks -> {"none", "done"}]
        /\ numbers' \subseteq Nat
        /\ repeated' \in BOOLEAN /\ raced' \in BOOLEAN
        /\ commands' \in 0..MaxCommands
    BY DEF IInv, ClearSession, breaker, TypeOK
  <2>4. partial' \in [task : Tasks, k : Nat]
    BY DEF IInv, ClearSession, breaker, TypeOK
  <2>5. UNCHANGED task
    BY DEF ClearSession
  <2> QED
    BY <2>2, <2>3, <2>4, <2>5 DEF IInv, TypeOK, task
<1>2. Sending' /\ Linked'
  BY DEF IInv, ClearSession, task, breaker, Sending, Linked
<1>3. KeyOfLink' /\ Checked'
  BY DEF IInv, ClearSession, task, breaker, KeyOfLink, Checked, Linked, Handshake
<1>4. Keyed'
  BY DEF IInv, ClearSession, Keyed, Linked
<1>5. Held'
  BY DEF IInv, ClearSession, task, Held, Linked
<1>6. NothingElseLoses'
  BY DEF IInv, ClearSession, task, breaker, NothingElseLoses
<1>7. Numbered'
  BY DEF IInv, ClearSession, task, breaker, Numbered
<1> QED
  BY <1>1, <1>2, <1>3, <1>4, <1>5, <1>6, <1>7 DEF IInv

LEMMA LinkLostKeeps ==
  ASSUME IInv, LinkLost
  PROVE  IInv'
<1>1. TypeOK'
  BY DEF IInv, LinkLost, globals, task, TypeOK
<1>2. Sending' /\ Linked'
  BY DEF IInv, LinkLost, globals, task, Sending, Linked
<1>3. KeyOfLink' /\ Checked'
  BY DEF IInv, LinkLost, globals, task, KeyOfLink, Checked
<1>4. Keyed'
  BY DEF LinkLost, Keyed
<1>5. Held'
  BY DEF IInv, LinkLost, task, Held
<1>6. NothingElseLoses'
  BY DEF IInv, LinkLost, task, NothingElseLoses
<1>7. Numbered'
  BY DEF IInv, LinkLost, globals, task, Numbered
<1> QED
  BY <1>1, <1>2, <1>3, <1>4, <1>5, <1>6, <1>7 DEF IInv

LEMMA DisconnectKeeps ==
  ASSUME IInv, Disconnect
  PROVE  IInv'
<1>1. TypeOK'
  BY DEF IInv, Disconnect, task, TypeOK
<1>2. Sending' /\ Linked'
  BY DEF IInv, Disconnect, task, Sending, Linked
<1>3. KeyOfLink' /\ Checked'
  BY DEF IInv, Disconnect, task, KeyOfLink, Checked
<1>4. Keyed'
  BY DEF Disconnect, Keyed
<1>5. Held'
  BY DEF IInv, Disconnect, task, Held
<1>6. NothingElseLoses'
  BY DEF IInv, Disconnect, task, NothingElseLoses
<1>7. Numbered'
  BY DEF IInv, Disconnect, task, Numbered
<1> QED
  BY <1>1, <1>2, <1>3, <1>4, <1>5, <1>6, <1>7 DEF IInv

-----------------------------------------------------------------------------
(* The theorems.                                                           *)

LEMMA IndInit == Init => IInv
<1>1. SUFFICES ASSUME Init
               PROVE  IInv
  OBVIOUS
<1>2. TypeOK
  <2>1. 0 \in 0..MaxLinks /\ 0 \in 0..MaxCommands
    BY BoundsAssumption
  <2>2. NoMsg \in [kind : Kinds, num : Nat, key : 0..MaxLinks, k : Nat]
    BY <2>1 DEF NoMsg, Kinds
  <2>3. \A t \in Tasks : msg[t] = NoMsg /\ msg[t].k <= Fragments[msg[t].kind]
    BY <1>1, FragmentsAssumption DEF Init, NoMsg, Kinds
  <2>4. partial \in [task : Tasks, k : Nat]
    BY <1>1 DEF Init, NoPart, Tasks
  <2>5. /\ msg \in [Tasks -> [kind : Kinds, num : Nat, key : 0..MaxLinks, k : Nat]]
        /\ pc \in [Tasks -> {"idle", "check", "key", "load", "store", "build", "write",
                             "sent"}]
        /\ on \in [Tasks -> 0..MaxLinks] /\ clear \in [Tasks -> BOOLEAN]
        /\ outcome \in [Tasks -> {"none", "done"}]
    BY <1>1, <2>1, <2>2 DEF Init
  <2>6. /\ g_state \in {"READY", "OTHER"}
        /\ g_seq_num \in Nat \ {0}
        /\ links = 0 /\ up = 0 /\ known = 0 /\ g_session_key = 0 /\ commands = 0
        /\ stage \in {"connect", "find", "info", "pair", "asked", "ready", "open", "clear"}
    BY <1>1 DEF Init
  <2>7. /\ g_write_handle \in BOOLEAN /\ g_has_session_key \in BOOLEAN
        /\ repeated \in BOOLEAN /\ raced \in BOOLEAN
    BY <1>1 DEF Init
  <2>8. answers \subseteq {"info", "pair"} /\ numbers \subseteq Nat
    BY <1>1 DEF Init
  <2> QED
    BY <2>1, <2>3, <2>4, <2>5, <2>6, <2>7, <2>8 DEF TypeOK
<1>3. /\ Sending /\ Linked /\ KeyOfLink /\ Checked /\ Keyed /\ Held /\ Numbered
      /\ NothingElseLoses
  BY <1>1 DEF Init, NoMsg, Sending, Linked, KeyOfLink, Checked, Keyed, Held, Numbered,
     NothingElseLoses, Tasks
<1> QED
  BY <1>2, <1>3 DEF IInv

LEMMA IndNext == IInv /\ [Next]_vars => IInv'
<1>1. SUFFICES ASSUME IInv, [Next]_vars
               PROVE  IInv'
  OBVIOUS
<1>2. ASSUME NEW t \in Tasks, UserCommand(t)
      PROVE  IInv'
  BY <1>1, <1>2, UserCommandKeeps
<1>3. ASSUME NEW t \in Tasks, Send(t)
      PROVE  IInv'
  BY <1>1, <1>3, CheckStateKeeps, CheckKeyKeeps, LoadSeqKeeps, StoreSeqKeeps,
     BuildKeeps, BuildFailsKeeps, WriteKeeps, WriteLostKeeps, WriteRefusedKeeps,
     SentKeeps DEF Send
<1>4. CASE Bluetooth
  BY <1>1, <1>4, LinkUpKeeps, FindHandleKeeps, SendDeviceInfoKeeps, AnswerInfoKeeps,
     SendPairKeeps, AnswerPairKeeps, SendPendingKeeps, NothingPendingKeeps,
     TellDownKeeps, ClearSessionKeeps DEF Bluetooth
<1>5. CASE LinkLost \/ Disconnect
  BY <1>1, <1>5, LinkLostKeeps, DisconnectKeeps
<1>6. CASE UNCHANGED vars
  BY <1>1, <1>6 DEF vars, globals, radio, task, breaker, IInv, TypeOK, Sending,
     Linked, KeyOfLink, Checked, Keyed, Held, Numbered, NothingElseLoses
<1> QED
  BY <1>1, <1>2, <1>3, <1>4, <1>5, <1>6 DEF Next

\* In every behaviour, whatever the number of users, links, commands and fragments.
THEOREM Invariant == Spec => []IInv
<1> QED
  BY IndInit, IndNext, PTL DEF Spec

\* The globals and the messages under way keep their types: no task goes past the last
\* fragment of its message.
THEOREM TypeCorrect == Spec => []TypeOK
<1>1. IInv => TypeOK
  BY DEF IInv
<1> QED
  BY Invariant, <1>1, PTL

\* A message that was built, whose link held, none of whose writes failed and whose
\* fragments nothing came between is carried out: the key it was built with is that of
\* the link, and what is left of a message that broke off does not spoil it
\* (tuya_ble_client.c:273-355 and :531-574).
THEOREM CarriedOut == Spec => []NothingElseLoses
<1>1. IInv => NothingElseLoses
  BY DEF IInv
<1> QED
  BY Invariant, <1>1, PTL

\* The check of READY keeps switch commands out of the handshake of the link they were
\* given on.
THEOREM Undisturbed == Spec => []HandshakeUndisturbed
<1>1. IInv => HandshakeUndisturbed
  BY DEF IInv, Checked, Handshake, HandshakeUndisturbed
<1> QED
  BY Invariant, <1>1, PTL

\* While no two tasks are between reading and writing g_seq_num at once, the messages
\* carried out on a link have different numbers.
THEOREM NumbersUnique == Spec => []NumbersDiffer
<1>1. IInv => NumbersDiffer
  BY DEF IInv, Numbered, NumbersDiffer
<1> QED
  BY Invariant, <1>1, PTL
=============================================================================
