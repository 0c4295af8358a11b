---------------------------- MODULE CommandChannel ----------------------------
(***************************************************************************)
(* The one characteristic every request is written to.  A request is built *)
(* (tuya_packet.c) and written fragment by fragment with a pause after each *)
(* one: DEVICE_INFO and PAIR by the Bluetooth task, switch commands by the *)
(* web and MQTT tasks and, for a queued one, by the Bluetooth task inside  *)
(* the READY callback.  Nothing orders these loops.                        *)
(*                                                                         *)
(* The breaker is external: it puts fragments together as the NOTIFY       *)
(* handler does and carries out a message that is whole and opens under     *)
(* the key of the link.                                                    *)
(***************************************************************************)
EXTENDS Integers, Sequences

CONSTANTS
    Users,          \* tasks that send switch commands: web and MQTT
    Btc,            \* the Bluetooth task
    Fragments,      \* kind of request -> its number of fragments
    MaxLinks,       \* bound: links in a behaviour
    MaxCommands     \* bound: switch commands in a behaviour

Kinds == {"info", "pair", "switch"}
Tasks == Users \union {Btc}

ASSUME FragmentsAssumption == Fragments \in [Kinds -> Nat \ {0}]
ASSUME TasksAssumption == Btc \notin Users
ASSUME BoundsAssumption == MaxLinks \in Nat /\ MaxCommands \in Nat

VARIABLES
    g_state,            \* "READY" or "OTHER"
    g_write_handle,     \* whether it is set
    g_has_session_key,
    g_session_key,      \* the link whose srand it was made from, 0 for none
    g_seq_num,
    \* --- the link ---
    links,              \* links made so far
    up,                 \* the link that is up, 0 for none
    known,              \* the one the Bluetooth task has the CONNECT event of
    stage,              \* what the Bluetooth task does next; "asked" waits for an
                        \* answer, "open" is after the handshake
    \* --- each sending task ---
    pc,                 \* "idle", "check", "key", "load", "store", "build",
                        \* "write" or "sent"
    msg,                \* kind, number and key of its message, and the next fragment
    on,                 \* the link that was up when it began
    clear,              \* that link held, no write was refused, and no other
                        \* fragment came in between
    \* --- the breaker ---
    partial,            \* the message it is putting together
    answers,            \* requests it has yet to answer
    outcome,            \* what became of the last message of each task
    \* --- history ---
    commands,           \* switch commands so far
    numbers,            \* numbers of the messages carried out on this link
    repeated,           \* one of them came twice
    raced               \* two tasks were between reading and writing g_seq_num

globals == <<g_state, g_write_handle, g_has_session_key, g_session_key, g_seq_num>>
radio == <<links, up, known, stage>>
task == <<pc, msg, on, clear>>
breaker == <<partial, answers, outcome, numbers, repeated>>
vars == <<globals, radio, task, breaker, commands, raced>>

NoMsg == [kind |-> "switch", num |-> 0, key |-> 0, k |-> 0]
NoPart == [task |-> Btc, k |-> 0]       \* k = 0: nothing, or spoiled

TypeOK ==
    /\ g_state \in {"READY", "OTHER"}
    /\ g_write_handle \in BOOLEAN /\ g_has_session_key \in BOOLEAN
    /\ g_session_key \in 0..MaxLinks
    /\ g_seq_num \in Nat \ {0}
    /\ links \in 0..MaxLinks /\ up \in {0, links} /\ known \in 0..MaxLinks
    /\ stage \in {"connect", "find", "info", "pair", "asked", "ready", "open", "clear"}
    /\ pc \in [Tasks -> {"idle", "check", "key", "load", "store", "build", "write",
                         "sent"}]
    /\ msg \in [Tasks -> [kind : Kinds, num : Nat, key : 0..MaxLinks, k : Nat]]
    /\ \A t \in Tasks : msg[t].k <= Fragments[msg[t].kind]
    /\ on \in [Tasks -> 0..MaxLinks]
    /\ clear \in [Tasks -> BOOLEAN]
    /\ partial \in [task : Tasks, k : Nat]
    /\ answers \subseteq {"info", "pair"}
    /\ outcome \in [Tasks -> {"none", "done"}]
    /\ commands \in 0..MaxCommands
    /\ numbers \subseteq Nat
    /\ repeated \in BOOLEAN /\ raced \in BOOLEAN

Init ==
    /\ g_state = "OTHER" /\ g_write_handle = FALSE
    /\ g_has_session_key = FALSE /\ g_session_key = 0
    /\ g_seq_num = 1
    /\ links = 0 /\ up = 0 /\ known = 0 /\ stage = "connect"
    /\ pc = [t \in Tasks |-> "idle"]
    /\ msg = [t \in Tasks |-> NoMsg]
    /\ on = [t \in Tasks |-> 0]
    /\ clear = [t \in Tasks |-> FALSE]
    /\ partial = NoPart
    /\ answers = {}
    /\ outcome = [t \in Tasks |-> "none"]
    /\ commands = 0 /\ numbers = {} /\ repeated = FALSE /\ raced = FALSE

-----------------------------------------------------------------------------
(* A request, from the call to its last fragment.                          *)

Goto(t, from, to) == pc[t] = from /\ pc' = [pc EXCEPT ![t] = to]

\* A request of a kind begins; only a switch command begins with the checks.
Begin(t, kind) ==
    /\ Goto(t, "idle", IF kind = "switch" THEN "check" ELSE "load")
    /\ msg' = [msg EXCEPT ![t] = [NoMsg EXCEPT !.kind = kind]]
    /\ on' = [on EXCEPT ![t] = up]
    /\ clear' = [clear EXCEPT ![t] = TRUE]
    /\ outcome' = [outcome EXCEPT ![t] = "none"]
    /\ UNCHANGED <<partial, answers, numbers, repeated>>

\* tuya_ble_send_switch_command is called by a user's task that read READY, or by
\* the callback.
Command(t) ==
    /\ commands < MaxCommands
    /\ Begin(t, "switch")
    /\ commands' = commands + 1
    /\ UNCHANGED <<globals, raced>>

UserCommand(t) == t \in Users /\ Command(t) /\ UNCHANGED radio

\* The two checks, and without the first.
CheckNone(t) == TRUE
CheckReady(t) == g_state = "READY"

CheckState(t) ==
    /\ Goto(t, "check", IF CheckReady(t) THEN "key" ELSE "idle")
    /\ UNCHANGED <<globals, radio, msg, on, clear, breaker, commands, raced>>

CheckKey(t) ==
    /\ Goto(t, "key", IF g_has_session_key THEN "load" ELSE "idle")
    /\ UNCHANGED <<globals, radio, msg, on, clear, breaker, commands, raced>>

\* g_seq_num++ is a load and a store.
LoadSeq(t) ==
    /\ Goto(t, "load", "store")
    /\ msg' = [msg EXCEPT ![t].num = g_seq_num]
    /\ raced' = (raced \/ \E s \in Tasks : pc[s] = "store")
    /\ UNCHANGED <<globals, radio, on, clear, breaker, commands>>

\* The number stored, and a counter that stays.
AfterSeqSame(t) == msg[t].num
AfterSeq(t) == msg[t].num + 1

StoreSeq(t) ==
    /\ Goto(t, "store", "build")
    /\ g_seq_num' = AfterSeq(t)
    /\ UNCHANGED <<g_state, g_write_handle, g_has_session_key, g_session_key, radio,
                   msg, on, clear, breaker, commands, raced>>

\* The message is encrypted: DEVICE_INFO with the login key, the others with the
\* session key as it is now.
Build(t) ==
    /\ Goto(t, "build", "write")
    /\ msg' = [msg EXCEPT ![t].key = IF msg[t].kind = "info" THEN 0 ELSE g_session_key]
    /\ UNCHANGED <<globals, radio, on, clear, breaker, commands, raced>>

\* It cannot be built (num_packets == 0): nothing is written, and the number taken
\* from the counter is not used.
BuildFails(t) ==
    /\ Goto(t, "build", "idle")
    /\ UNCHANGED <<globals, radio, msg, on, clear, breaker, commands, raced>>

\* Whether the breaker can open it.
Opens(m) == m.kind = "info" \/ m.key = up

\* The breaker takes fragment k of the message of t.
Taken(t) ==
    LET m == msg[t]
        fits == m.k = 0 \/ (partial.task = t /\ partial.k = m.k)
        whole == fits /\ m.k + 1 = Fragments[m.kind]
    IN  /\ partial' = IF fits /\ ~whole THEN [task |-> t, k |-> m.k + 1] ELSE NoPart
        /\ IF whole /\ Opens(m)
           THEN /\ outcome' = [outcome EXCEPT ![t] = "done"]
                /\ answers' = answers \union ({m.kind} \ {"switch"})
                /\ numbers' = numbers \union {m.num}
                /\ repeated' = (repeated \/ m.num \in numbers)
           ELSE UNCHANGED <<outcome, answers, numbers, repeated>>

\* Whether this fragment was the last (i < num_packets), and one too late.
LastLate(t) == msg[t].k = Fragments[msg[t].kind]
LastFragment(t) == msg[t].k + 1 = Fragments[msg[t].kind]

Advance(t) ==
    /\ pc[t] = "write"
    /\ msg' = [msg EXCEPT ![t].k = @ + 1]
    /\ pc' = [pc EXCEPT ![t] = IF LastFragment(t) THEN "sent" ELSE "write"]

\* A fragment goes out on the link that is up, whichever that is.  It comes between
\* the fragments of every task that has begun to write and has not ended.
Write(t) ==
    /\ up # 0 /\ g_write_handle
    /\ Advance(t)
    /\ Taken(t)
    /\ clear' = [s \in Tasks |->
          /\ clear[s]
          /\ s # t => ~(pc[s] = "write" /\ msg[s].k > 0)
          /\ s = t => on[t] = up]
    /\ UNCHANGED <<globals, radio, on, commands, raced>>

\* A fragment that does not go out, and the task goes on with the next: one written
\* without a link or a handle may be lost without an error, and the two handshake
\* requests only log an error, whatever it is.
WriteLost(t) ==
    /\ up = 0 \/ ~g_write_handle \/ msg[t].kind # "switch"
    /\ Advance(t)
    /\ clear' = [clear EXCEPT ![t] = FALSE]
    /\ UNCHANGED <<globals, radio, on, breaker, commands, raced>>

\* An error of a write, on a link that is up or not, ends a switch command.
WriteRefused(t) ==
    /\ msg[t].kind = "switch"
    /\ Goto(t, "write", "idle")
    /\ clear' = [clear EXCEPT ![t] = FALSE]
    /\ UNCHANGED <<globals, radio, msg, on, breaker, commands, raced>>

Sent(t) ==
    /\ Goto(t, "sent", "idle")
    /\ UNCHANGED <<globals, radio, msg, on, clear, breaker, commands, raced>>

Send(t) ==
    \/ CheckState(t) \/ CheckKey(t) \/ LoadSeq(t) \/ StoreSeq(t)
    \/ Build(t) \/ BuildFails(t)
    \/ Write(t) \/ WriteLost(t) \/ WriteRefused(t) \/ Sent(t)

-----------------------------------------------------------------------------
(* The Bluetooth task: it takes an event when it is done with the last.    *)

Free == pc[Btc] = "idle"

LinkUp ==
    /\ Free
    /\ up = 0 /\ known = 0 /\ stage = "connect"
    /\ links < MaxLinks
    /\ links' = links + 1
    /\ up' = links + 1
    /\ known' = links + 1
    /\ stage' = "find"
    /\ partial' = NoPart
    /\ answers' = {}
    /\ numbers' = {}
    /\ repeated' = FALSE
    /\ UNCHANGED <<globals, task, outcome, commands, raced>>

\* Discovery finds the handle, then the first request is sent.
FindHandle ==
    /\ Free
    /\ up = known /\ stage = "find"
    /\ g_write_handle' = TRUE
    /\ stage' = "info"
    /\ UNCHANGED <<g_state, g_has_session_key, g_session_key, g_seq_num, links, up, known,
                   task, breaker, commands, raced>>

SendDeviceInfo ==
    /\ stage = "info"
    /\ Begin(Btc, "info")
    /\ stage' = "asked"
    /\ UNCHANGED <<globals, links, up, known, commands, raced>>

\* What the session key becomes with an answer, and one that is made once only.
DeriveOnce == IF g_session_key # 0 THEN g_session_key ELSE known
Derive == known

AnswerInfo ==
    /\ Free
    /\ stage = "asked" /\ "info" \in answers
    /\ answers' = answers \ {"info"}
    /\ g_session_key' = Derive
    /\ g_has_session_key' = TRUE
    /\ g_state' = "OTHER"
    /\ stage' = "pair"
    /\ UNCHANGED <<g_write_handle, g_seq_num, links, up, known, task, partial, outcome,
                   numbers, repeated, commands, raced>>

SendPair ==
    /\ stage = "pair"
    /\ Begin(Btc, "pair")
    /\ stage' = "asked"
    /\ UNCHANGED <<globals, links, up, known, commands, raced>>

AnswerPair ==
    /\ Free
    /\ stage = "asked" /\ "pair" \in answers
    /\ answers' = answers \ {"pair"}
    /\ g_state' = "READY"
    /\ stage' = "ready"
    /\ UNCHANGED <<g_write_handle, g_has_session_key, g_session_key, g_seq_num, links, up,
                   known, task, partial, outcome, numbers, repeated, commands, raced>>

\* The READY callback sends what is queued, or nothing is.
SendPending ==
    /\ stage = "ready"
    /\ Command(Btc)
    /\ stage' = "open"
    /\ UNCHANGED <<links, up, known>>

NothingPending ==
    /\ stage = "ready"
    /\ stage' = "open"
    /\ UNCHANGED <<globals, links, up, known, task, breaker, commands, raced>>

\* The DISCONNECT event: the state first, then the handle and the key.
TellDown ==
    /\ Free
    /\ stage \in {"find", "asked", "open"}
    /\ up = 0 /\ known # 0 /\ answers = {}
    /\ g_state' = "OTHER"
    /\ stage' = "clear"
    /\ UNCHANGED <<g_write_handle, g_has_session_key, g_session_key, g_seq_num, links, up,
                   known, task, breaker, commands, raced>>

ClearSession ==
    /\ stage = "clear"
    /\ known' = 0
    /\ g_write_handle' = FALSE
    /\ g_has_session_key' = FALSE
    /\ stage' = "connect"
    /\ UNCHANGED <<g_state, g_session_key, g_seq_num, links, up, task, breaker, commands,
                   raced>>

Bluetooth ==
    \/ LinkUp \/ FindHandle \/ SendDeviceInfo \/ AnswerInfo \/ SendPair \/ AnswerPair
    \/ SendPending \/ NothingPending \/ TellDown \/ ClearSession

\* The link ends, at any time: an answer that was notified is still handled before
\* the DISCONNECT event, any other is lost.
LinkLost ==
    /\ up # 0
    /\ up' = 0
    /\ answers' \in {answers, {}}
    /\ UNCHANGED <<globals, links, known, stage, task, partial, outcome, numbers,
                   repeated, commands, raced>>

\* The disconnect button: the link is closed and the state set.
Disconnect ==
    /\ up # 0
    /\ up' = 0
    /\ answers' \in {answers, {}}
    /\ g_state' = "OTHER"
    /\ UNCHANGED <<g_write_handle, g_has_session_key, g_session_key, g_seq_num, links,
                   known, stage, task, partial, outcome, numbers, repeated, commands,
                   raced>>

Next ==
    \/ \E t \in Tasks : UserCommand(t) \/ Send(t)
    \/ Bluetooth
    \/ LinkLost \/ Disconnect

Spec == Init /\ [][Next]_vars

-----------------------------------------------------------------------------
(* Properties.                                                             *)

\* A message that was built and written to its last fragment is carried out if its
\* link held since the call, none of its writes failed and no other task wrote a fragment
\* between its first and its last: the key it was built with is the one of that link,
\* and nothing left over of a message that broke off spoils it.
NothingElseLoses ==
    \A t \in Tasks : pc[t] = "sent" /\ clear[t] => outcome[t] = "done"

\* A switch command that writes before the handshake of a link is over was called on
\* an earlier link: no user's command disturbs the handshake of its own link.
HandshakeUndisturbed ==
    \A t \in Tasks :
        /\ pc[t] = "write" /\ msg[t].kind = "switch"
        /\ stage \in {"find", "info", "asked", "pair"}
        => on[t] # known

\* Unless two tasks incremented g_seq_num at once, no number is used twice on a link.
NumbersDiffer == repeated => raced
=============================================================================
