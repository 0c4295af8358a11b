------------------------ MODULE BridgeControllerProofs ------------------------
(***************************************************************************)
(* Proofs about BridgeController for every set of operations, every pair   *)
(* of delays and every number of commands.                                 *)
(***************************************************************************)
EXTENDS BridgeController, TLAPS

DownSteps == {"pub_down", "may_retry", "arm", "double", "cap"}
CallSteps == {"connect", "seek", "idle"}
SendSteps == {"queue_flag", "queue_value", "override", "send", "write"}

\* The steps each task can be at: only web and btc make the DISCONNECTED
\* callback, only btc the READY callback.
PcInv ==
    /\ pc["timer"] \in CallSteps
    /\ pc["main"] \in CallSteps
    /\ pc["mqtt"] \in CallSteps \union SendSteps \union {"pub_offline"}
    /\ pc["web"] \in CallSteps \union SendSteps \union DownSteps \union
                     {"web_read", "web_stop_timer", "web_close", "web_down"}
    /\ pc["btc"] \in {"idle", "pub_ready", "take", "take_value", "send", "write"}
                     \union DownSteps

\* The delay has been doubled once more for each task that still has to cap it.
DelayInv ==
    /\ g_reconnect_delay \in MinDelay .. (4 * MaxDelay)
    /\ (pc["web"] # "cap" \/ pc["btc"] # "cap") => g_reconnect_delay <= 2 * MaxDelay
    /\ (pc["web"] # "cap" /\ pc["btc"] # "cap") => g_reconnect_delay <= MaxDelay

\* The rest of TypeOK.
RestType ==
    /\ g_state \in Ble!States /\ link \in Ble!LinkStates /\ phase \in Ble!Phases
    /\ sighted \in BOOLEAN
    /\ g_manual_disconnect \in BOOLEAN
    /\ g_pending_command \in BOOLEAN
    /\ g_pending_command_on \in Values
    /\ armed \in 0 .. (2 * MaxDelay)
    /\ s_connected \in BOOLEAN
    /\ availability \in {"online", "offline"}
    /\ renewed \in BOOLEAN
    /\ pc \in [Tasks -> Steps]
    /\ arg \in [Tasks -> Values]
    /\ saw_down \in [Tasks -> BOOLEAN]
    /\ asked \in [Values -> Nat]
    /\ sent \in [Values -> Nat]

TypeInv == RestType /\ PcInv /\ DelayInv

-----------------------------------------------------------------------------
(* Commands are handed on, never copied.                                   *)

\* A task at one of these steps holds a command it may still send or queue.
Token(step) == IF step \in {"queue_flag", "take_value", "send", "write"}
               THEN 1 ELSE 0

InHand == Token(pc["web"]) + Token(pc["mqtt"]) + Token(pc["timer"])
          + Token(pc["main"]) + Token(pc["btc"])

InSlot == IF g_pending_command THEN 1 ELSE 0

Asked == asked["on"] + asked["off"]
Sent  == sent["on"] + sent["off"]

\* What was sent, waits in the slot or is in the hands of a task was asked for.
Conserved == Sent + InSlot + InHand <= Asked

CommandInv == TypeInv /\ Conserved

-----------------------------------------------------------------------------
(* Type correctness and the bound of the delay.                            *)

\* At the start no task makes a callback and the delay is the minimum.
LEMMA InitType == Init => TypeInv
<1> SUFFICES ASSUME Init PROVE TypeInv
  OBVIOUS
<1>1. RestType
  <2>1. g_state \in Ble!States /\ link \in Ble!LinkStates /\ phase \in Ble!Phases
    BY DEF Init, Ble!Init, Ble!States, Ble!LinkStates, Ble!Phases
  <2>2. /\ g_manual_disconnect \in BOOLEAN /\ g_pending_command \in BOOLEAN
        /\ g_pending_command_on \in Values /\ s_connected \in BOOLEAN
        /\ sighted \in BOOLEAN /\ renewed \in BOOLEAN
    BY DEF Init, Ble!Init, Values
  <2>3. armed \in 0 .. (2 * MaxDelay) /\ availability \in {"online", "offline"}
    BY DelayAssumption DEF Init
  <2>4. /\ pc \in [Tasks -> Steps]
        /\ arg \in [Tasks -> Values] /\ saw_down \in [Tasks -> BOOLEAN]
    BY DEF Init, Tasks, Steps, Values
  <2>5. asked \in [Values -> Nat] /\ sent \in [Values -> Nat]
    BY DEF Init
  <2> QED
    BY <2>1, <2>2, <2>3, <2>4, <2>5 DEF RestType
<1>2. PcInv
  BY DEF Init, PcInv, Tasks, CallSteps, SendSteps, DownSteps
<1>3. DelayInv
  BY DelayAssumption DEF Init, DelayInv
<1> QED
  BY <1>1, <1>2, <1>3 DEF TypeInv

\* A step of a switch command keeps the types.
LEMMA SendingType ==
  ASSUME TypeInv, NEW t \in Tasks, Sending(t)
  PROVE  TypeInv'
<1> USE DEF TypeInv, RestType, PcInv, CallSteps, SendSteps, DownSteps, Tasks,
            Steps, Values, Go, ble, cmd, mqtt, hist, frame, flags
<1>1. CASE QueueFlag(t)
  <2>1. g_pending_command' \in BOOLEAN
    BY <1>1 DEF QueueFlag
  <2> QED
    BY <1>1, <2>1 DEF QueueFlag, DelayInv
<1>2. CASE QueueValue(t)
  BY <1>2 DEF QueueValue, DelayInv
<1>3. CASE Override(t)
  <2>1. g_manual_disconnect' \in BOOLEAN
    BY <1>3 DEF Override
  <2> QED
    BY <1>3, <2>1 DEF Override, DelayInv
<1>4. CASE SendCheck(t)
  <2>1. arg' \in [Tasks -> Values]
    BY <1>4 DEF SendCheck
  <2> QED
    BY <1>4, <2>1 DEF SendCheck, DelayInv
<1>5. CASE SendWrite(t)
  BY <1>5 DEF SendWrite, DelayInv
<1> QED
  BY <1>1, <1>2, <1>3, <1>4, <1>5 DEF Sending

\* A step of the DISCONNECTED callback keeps the types; Double raises the delay
\* only of a task that caps it next.
LEMMA DownType ==
  ASSUME TypeInv, NEW t \in Tasks, Down(t)
  PROVE  TypeInv'
<1> USE DelayAssumption
<1> USE DEF TypeInv, RestType, PcInv, CallSteps, SendSteps, DownSteps, Tasks,
            Steps, Values, Go, ble, cmd, mqtt, hist, frame, flags
<1>0. Down(t) => t \in {"web", "btc"}
  BY DEF Down, PublishDown, MayRetry, Arm, Double, Cap
<1>1. CASE PublishDown(t)
  BY <1>0, <1>1 DEF PublishDown, TellDown, Publish, DelayInv
<1>2. CASE MayRetry(t)
  BY <1>0, <1>2 DEF MayRetry, DelayInv
<1>3. CASE Arm(t)
  BY <1>0, <1>3 DEF Arm, DelayInv
<1>4. CASE Double(t)
  BY <1>0, <1>4 DEF Double, DelayInv
<1>5. CASE Cap(t)
  <2>1. g_reconnect_delay' \in MinDelay .. MaxDelay
    BY <1>5 DEF Cap, Capped, DelayInv
  <2> QED
    BY <1>0, <1>5, <2>1 DEF Cap, DelayInv
<1> QED
  BY <1>1, <1>2, <1>3, <1>4, <1>5 DEF Down

\* Any other step of a call keeps the types.
LEMMA CallType ==
  ASSUME TypeInv, NEW t \in Tasks,
         \/ Connecting(t)
         \/ t = "web" /\ Web
         \/ t = "btc" /\ Ready
         \/ t = "mqtt" /\ PublishOffline
  PROVE  TypeInv'
<1> USE DelayAssumption
<1> USE DEF TypeInv, RestType, PcInv, CallSteps, SendSteps, DownSteps, Tasks,
            Steps, Values, Go, ble, cmd, mqtt, hist, frame, flags,
            Ble!States, Ble!LinkStates, Ble!Phases
<1>1. CASE ConnectCheck(t)
  BY <1>1 DEF ConnectCheck, DelayInv
<1>2. CASE ConnectSeek(t)
  BY <1>2 DEF ConnectSeek, Ble!Seek, DelayInv
<1>3. CASE WebRead
  BY <1>3 DEF WebRead, DelayInv
<1>4. CASE WebStopTimer
  BY <1>4 DEF WebStopTimer, DelayInv
<1>5. CASE WebClose
  BY <1>5 DEF WebClose, DelayInv
<1>6. CASE WebDown
  BY <1>6 DEF WebDown, Ble!GiveUp, DelayInv
<1>7. CASE PublishReady
  BY <1>7 DEF PublishReady, TellReady, Publish, DelayInv
<1>8. CASE TakePending
  <2>1. g_pending_command' \in BOOLEAN
    BY <1>8 DEF TakePending, EmptySlot
  <2> QED
    BY <1>8, <2>1 DEF TakePending, EmptySlot, DelayInv
<1>9. CASE TakeValue
  BY <1>9 DEF TakeValue, DelayInv
<1>10. CASE PublishOffline
  <2>1. renewed' \in BOOLEAN
    BY <1>10 DEF PublishOffline
  <2> QED
    BY <1>10, <2>1 DEF PublishOffline, Publish, DelayInv
<1> QED
  BY <1>1, <1>2, <1>3, <1>4, <1>5, <1>6, <1>7, <1>8, <1>9, <1>10
  DEF Connecting, Web, Ready

\* So does what users, the timer, the device and the broker start.
LEMMA EventType ==
  ASSUME TypeInv,
         \/ \E t \in Users, on \in Values : Request(t, on)
         \/ WebConnect \/ WebDisconnect \/ TimerFire
         \/ Sight \/ Found \/ OpenTarget \/ LinkUp \/ LinkDown
         \/ AskInfo \/ DeriveKey \/ AskPair \/ Paired
         \/ BrokerUp \/ BrokerDown
  PROVE  TypeInv'
<1> USE DelayAssumption
<1> USE DEF TypeInv, RestType, PcInv, CallSteps, SendSteps, DownSteps, Tasks,
            Users, Steps, Values, Go, ble, cmd, mqtt, hist, frame, flags,
            Ble!States, Ble!LinkStates, Ble!Phases
<1>1. ASSUME NEW t \in Users, NEW on \in Values, Request(t, on)
      PROVE  TypeInv'
  <2>1. asked' \in [Values -> Nat] /\ arg' \in [Tasks -> Values]
    BY <1>1 DEF Request
  <2>2. saw_down' \in [Tasks -> BOOLEAN]
    BY <1>1 DEF Request
  <2>3. pc' \in [Tasks -> Steps] /\ PcInv'
    BY <1>1 DEF Request
  <2>4. DelayInv'
    BY <1>1 DEF Request, DelayInv
  <2> QED
    BY <1>1, <2>1, <2>2, <2>3, <2>4 DEF Request
<1>2. CASE WebConnect
  <2>1. g_manual_disconnect' \in BOOLEAN
    BY <1>2 DEF WebConnect
  <2> QED
    BY <1>2, <2>1 DEF WebConnect, DelayInv
<1>3. CASE WebDisconnect
  <2>1. g_manual_disconnect' \in BOOLEAN
    BY <1>3 DEF WebDisconnect
  <2> QED
    BY <1>3, <2>1 DEF WebDisconnect, DelayInv
<1>4. CASE TimerFire
  BY <1>4 DEF TimerFire, DelayInv
<1>5. CASE Sight \/ Found \/ OpenTarget \/ LinkUp
  <2>1. sighted' \in BOOLEAN
    BY <1>5 DEF Sight, Found, OpenTarget, LinkUp, Event, Ble!Sight, Ble!Found,
                Ble!OpenTarget, Ble!LinkUp
  <2> QED
    BY <1>5, <2>1 DEF Sight, Found, OpenTarget, LinkUp, Event, Ble!Sight, Ble!Found,
                      Ble!OpenTarget, Ble!LinkUp, DelayInv
<1>6. CASE LinkDown
  BY <1>6 DEF LinkDown, Ble!LinkDown, DelayInv
<1>7. CASE AskInfo \/ DeriveKey \/ AskPair
  BY <1>7 DEF AskInfo, DeriveKey, AskPair, Event, Ble!AskInfo, Ble!DeriveKey,
              Ble!AskPair, DelayInv
<1>8. CASE Paired
  <2>1. renewed' \in BOOLEAN
    BY <1>8 DEF Paired
  <2> QED
    BY <1>8, <2>1 DEF Paired, Ble!Paired, DelayInv
<1>9. CASE BrokerUp
  <2>1. s_connected' \in BOOLEAN
    BY <1>9 DEF BrokerUp
  <2> QED
    BY <1>9, <2>1 DEF BrokerUp, DelayInv
<1>10. CASE BrokerDown
  <2>1. s_connected' \in BOOLEAN
    BY <1>10 DEF BrokerDown
  <2> QED
    BY <1>10, <2>1 DEF BrokerDown, DelayInv
<1> QED
  BY <1>1, <1>2, <1>3, <1>4, <1>5, <1>6, <1>7, <1>8, <1>9, <1>10

\* Every step keeps the types.
LEMMA NextType == TypeInv /\ [Next]_vars => TypeInv'
<1> SUFFICES ASSUME TypeInv, [Next]_vars PROVE TypeInv'
  OBVIOUS
<1>1. ASSUME NEW t \in Tasks, Continue(t) PROVE TypeInv'
  BY <1>1, SendingType, DownType, CallType DEF Continue
<1>2. CASE UNCHANGED vars
  BY <1>2 DEF vars, ble, cmd, mqtt, hist, frame, flags, TypeInv, RestType,
              PcInv, DelayInv
<1> QED
  BY <1>1, <1>2, EventType DEF Next

\* The variables keep their types.  With it: two tasks can be between doubling
\* and capping the reconnect delay (main.c:168-171), so the delay never gets
\* beyond four times the maximum and the timer is never started with more than
\* twice the maximum.
THEOREM TypeCorrect == Spec => []TypeOK
<1>1. TypeInv => TypeOK
  BY DEF TypeInv, RestType, DelayInv, TypeOK
<1> QED
  BY <1>1, InitType, NextType, PTL DEF Spec

-----------------------------------------------------------------------------
(* A command is sent at most once.                                         *)

\* A task that goes from one step to another lays down the token of the first
\* and takes up that of the second; the other tasks keep theirs.
LEMMA Handing ==
  ASSUME RestType, NEW t \in Tasks, NEW l, NEW m, Go(t, l, m)
  PROVE  /\ InHand \in Nat /\ InHand' \in Nat
         /\ InHand' + Token(l) = InHand + Token(m)
<1>1. pc[t] = l /\ pc' = [pc EXCEPT ![t] = m] /\ pc \in [Tasks -> Steps]
  BY DEF Go, RestType
<1>2. \A s : Token(s) \in Nat
  BY DEF Token
<1> HIDE DEF Token
<1>3. \A u \in Tasks : pc'[u] = IF u = t THEN m ELSE pc[u]
  BY <1>1
<1> QED
  BY <1>1, <1>2, <1>3 DEF InHand, Tasks

\* Two counters, one of which is raised by one.
LEMMA CountUp ==
  ASSUME NEW f \in [Values -> Nat], NEW v \in Values,
         NEW g, g = [f EXCEPT ![v] = @ + 1]
  PROVE  g["on"] + g["off"] = f["on"] + f["off"] + 1
<1> QED
  BY DEF Values

\* The sums the invariant speaks about are numbers.
LEMMA Sums ==
  ASSUME RestType
  PROVE  Sent \in Nat /\ Asked \in Nat /\ InSlot \in Nat
<1> QED
  BY DEF RestType, Values, Sent, Asked, InSlot

\* A token that is given up can go to the slot, to the device or be lost.
LEMMA GivenUp ==
  ASSUME NEW s \in Nat, NEW w \in Nat, NEW h \in Nat, NEW h1 \in Nat,
         NEW a \in Nat, s + w + h <= a
  PROVE  /\ h1 + 1 = h => s + 1 + h1 <= a
         /\ h1 + 1 = h => (s + 1) + w + h1 <= a
         /\ h1 + 1 = h \/ h1 = h => s + w + h1 <= a
<1> QED
  OBVIOUS

\* The steps that hand a command on: from the caller to the slot, from the slot
\* to btc, from a task to the device or to nowhere.
LEMMA HandedOn ==
  ASSUME CommandInv, NEW t \in Tasks,
         \/ QueueFlag(t) \/ SendCheck(t) \/ SendWrite(t)
         \/ TakePending \/ TakeValue
  PROVE  Conserved'
<1> USE DEF CommandInv, Conserved, cmd, hist, flags, ble, mqtt, frame
<1>0. /\ Sent \in Nat /\ Asked \in Nat /\ InSlot \in Nat
      /\ RestType
  BY Sums DEF TypeInv
<1>1. CASE QueueFlag(t)
  <2>1. InHand \in Nat /\ InHand' \in Nat /\ InHand' + 1 = InHand
    BY <1>0, <1>1, Handing DEF QueueFlag, Token
  <2>2. InSlot' = 1 /\ Sent' = Sent /\ Asked' = Asked
    BY <1>1 DEF QueueFlag, InSlot, Sent, Asked
  <2> QED
    BY <1>0, <2>1, <2>2, GivenUp
<1>2. CASE SendCheck(t)
  <2>1. /\ InHand \in Nat /\ InHand' \in Nat
        /\ InHand' + 1 = InHand \/ InHand' = InHand
    BY <1>0, <1>2, Handing DEF SendCheck, Token
  <2>2. InSlot' = InSlot /\ Sent' = Sent /\ Asked' = Asked
    BY <1>2 DEF SendCheck, InSlot, Sent, Asked
  <2> QED
    BY <1>0, <2>1, <2>2, GivenUp
<1>3. CASE SendWrite(t)
  <2>1. InHand \in Nat /\ InHand' \in Nat /\ InHand' + 1 = InHand
    BY <1>0, <1>3, Handing DEF SendWrite, Token
  <2>2. InSlot' = InSlot /\ Asked' = Asked
    BY <1>3 DEF SendWrite, InSlot, Asked
  <2>3. Sent' \in {Sent, Sent + 1}
    <3>1. arg[t] \in Values /\ sent \in [Values -> Nat]
      BY <1>0 DEF RestType
    <3>2. sent' = sent \/ sent' = [sent EXCEPT ![arg[t]] = @ + 1]
      BY <1>3 DEF SendWrite
    <3> QED
      BY <3>1, <3>2, CountUp DEF Sent
  <2> QED
    BY <1>0, <2>1, <2>2, <2>3, GivenUp
<1>4. CASE TakePending
  <2>1. "btc" \in Tasks
    BY DEF Tasks
  <2>2. InHand \in Nat /\ InHand' \in Nat /\ InHand' = InHand + InSlot
    BY <1>0, <1>4, <2>1, Handing DEF TakePending, Token, InSlot
  <2>3. InSlot' = 0 /\ Sent' = Sent /\ Asked' = Asked
    BY <1>4 DEF TakePending, EmptySlot, InSlot, Sent, Asked
  <2> QED
    BY <1>0, <2>2, <2>3
<1>5. CASE TakeValue
  <2>1. "btc" \in Tasks
    BY DEF Tasks
  <2>2. InHand \in Nat /\ InHand' \in Nat /\ InHand' = InHand
    BY <1>0, <1>5, <2>1, Handing DEF TakeValue, Token
  <2>3. InSlot' = InSlot /\ Sent' = Sent /\ Asked' = Asked
    BY <1>5 DEF TakeValue, InSlot, Sent, Asked
  <2> QED
    BY <1>0, <2>2, <2>3
<1> QED
  BY <1>1, <1>2, <1>3, <1>4, <1>5

\* A new command adds one token to what was asked.
LEMMA Accepted ==
  ASSUME CommandInv, NEW t \in Users, NEW on \in Values, Request(t, on)
  PROVE  Conserved'
<1> USE DEF CommandInv, Conserved
<1>0. /\ Sent \in Nat /\ Asked \in Nat /\ InSlot \in Nat
      /\ RestType
  BY Sums DEF TypeInv
<1>1. t \in Tasks
  BY DEF Users, Tasks
<1>2. InHand \in Nat /\ InHand' \in Nat /\ InHand' = InHand + 1
  BY <1>0, <1>1, Handing DEF Request, Token
<1>3. InSlot' = InSlot /\ Sent' = Sent
  BY DEF Request, InSlot, Sent, cmd
<1>4. Asked' = Asked + 1
  <2>1. asked \in [Values -> Nat] /\ asked' = [asked EXCEPT ![on] = @ + 1]
    BY <1>0 DEF RestType, Request
  <2> QED
    BY <2>1, CountUp DEF Asked
<1> QED
  BY <1>0, <1>2, <1>3, <1>4

\* A step that touches neither the slot nor the counters and hands nothing on.
LEMMA NothingHanded ==
  ASSUME CommandInv, UNCHANGED <<g_pending_command, hist>>,
         \/ UNCHANGED pc
         \/ \E t \in Tasks, l, m \in Steps :
               Go(t, l, m) /\ Token(l) = 0 /\ Token(m) = 0
  PROVE  Conserved'
<1>1. InHand' = InHand
  <2>1. CASE UNCHANGED pc
    BY <2>1 DEF InHand
  <2>2. ASSUME NEW t \in Tasks, NEW l, NEW m, Go(t, l, m), Token(l) = 0, Token(m) = 0
        PROVE  InHand' = InHand
    BY <2>2, Handing DEF CommandInv, TypeInv
  <2> QED
    BY <2>1, <2>2
<1>2. InSlot' = InSlot /\ Sent' = Sent /\ Asked' = Asked
  BY DEF hist, InSlot, Sent, Asked
<1> QED
  BY <1>1, <1>2 DEF CommandInv, Conserved

\* The other steps of a call.
LEMMA OtherStep ==
  ASSUME CommandInv, NEW t \in Tasks,
         \/ QueueValue(t) \/ Override(t) \/ Connecting(t) \/ Down(t)
         \/ t = "web" /\ Web
         \/ t = "btc" /\ PublishReady
         \/ t = "mqtt" /\ PublishOffline
  PROVE  Conserved'
<1> USE DEF cmd, hist, flags, ble, mqtt, frame
<1>1. UNCHANGED <<g_pending_command, hist>>
  BY DEF QueueValue, Override, Connecting, ConnectCheck, ConnectSeek, Down,
         PublishDown, MayRetry, Arm, Double, Cap, Web, WebRead, WebStopTimer,
         WebClose, WebDown, PublishReady, PublishOffline
<1>2. \E l, m \in Steps : Go(t, l, m) /\ Token(l) = 0 /\ Token(m) = 0
  <2> USE DEF Steps, Token
  <2>1. CASE QueueValue(t) \/ Override(t)
    BY <2>1 DEF QueueValue, Override
  <2>2. CASE Connecting(t)
    BY <2>2 DEF Connecting, ConnectCheck, ConnectSeek
  <2>3. CASE Down(t)
    BY <2>3 DEF Down, PublishDown, MayRetry, Arm, Double, Cap
  <2>4. CASE t = "web" /\ Web
    BY <2>4 DEF Web, WebRead, WebStopTimer, WebClose, WebDown
  <2>5. CASE t = "btc" /\ PublishReady
    BY <2>5 DEF PublishReady
  <2>6. CASE t = "mqtt" /\ PublishOffline
    BY <2>6 DEF PublishOffline
  <2> QED
    BY <2>1, <2>2, <2>3, <2>4, <2>5, <2>6
<1> QED
  BY <1>1, <1>2, NothingHanded

\* What is started by buttons, the timer, the device and the broker.
LEMMA OtherEvent ==
  ASSUME CommandInv,
         \/ WebConnect \/ WebDisconnect \/ TimerFire
         \/ Sight \/ Found \/ OpenTarget \/ LinkUp \/ LinkDown
         \/ AskInfo \/ DeriveKey \/ AskPair \/ Paired
         \/ BrokerUp \/ BrokerDown
  PROVE  Conserved'
<1> USE DEF cmd, hist, flags, ble, mqtt, frame
<1>1. UNCHANGED <<g_pending_command, hist>>
  BY DEF WebConnect, WebDisconnect, TimerFire, Sight, Found, OpenTarget, LinkUp,
         LinkDown, AskInfo, DeriveKey, AskPair, Paired, Event, BrokerUp, BrokerDown
<1>2. \/ UNCHANGED pc
      \/ \E t \in Tasks, l, m \in Steps :
            Go(t, l, m) /\ Token(l) = 0 /\ Token(m) = 0
  <2> USE DEF Steps, Token, Tasks
  <2>1. CASE WebConnect \/ WebDisconnect
    BY <2>1 DEF WebConnect, WebDisconnect
  <2>2. CASE TimerFire
    BY <2>2 DEF TimerFire
  <2>3. CASE LinkDown \/ Paired
    BY <2>3 DEF LinkDown, Paired
  <2>4. CASE BrokerUp \/ BrokerDown
    BY <2>4 DEF BrokerUp, BrokerDown
  <2>5. CASE Sight \/ Found \/ OpenTarget \/ LinkUp \/ AskInfo \/ DeriveKey \/ AskPair
    BY <2>5 DEF Sight, Found, OpenTarget, LinkUp, AskInfo, DeriveKey, AskPair, Event
  <2> QED
    BY <2>1, <2>2, <2>3, <2>4, <2>5
<1> QED
  BY <1>1, <1>2, NothingHanded

\* The invariant is inductive.
LEMMA NextCommand == CommandInv /\ [Next]_vars => CommandInv'
<1> SUFFICES ASSUME CommandInv, [Next]_vars PROVE CommandInv'
  OBVIOUS
<1>1. TypeInv'
  BY NextType DEF CommandInv
<1>2. ASSUME NEW t \in Tasks, Continue(t) PROVE Conserved'
  BY <1>2, HandedOn, OtherStep DEF Continue, Sending, Ready
<1>3. ASSUME NEW t \in Users, NEW on \in Values, Request(t, on) PROVE Conserved'
  BY <1>3, Accepted
<1>4. ASSUME UNCHANGED vars PROVE Conserved'
  BY <1>4, NothingHanded DEF vars, cmd, hist
<1> QED
  BY <1>1, <1>2, <1>3, <1>4, OtherEvent DEF Next, CommandInv

\* However READY, queueing and sending interleave and however often the link
\* comes and goes, the device gets no more switch commands than users gave
\* (send_switch_command and the READY callback, main.c:173-205).
THEOREM SentAtMostOnce == Spec => []AtMostOnce
<1>1. Init => CommandInv
  <2> SUFFICES ASSUME Init PROVE CommandInv
    OBVIOUS
  <2>1. TypeInv
    BY InitType
  <2>2. Sent = 0 /\ Asked = 0 /\ InSlot = 0
    BY DEF Init, Values, Sent, Asked, InSlot
  <2>3. InHand = 0
    BY DEF Init, Tasks, InHand, Token
  <2> QED
    BY <2>1, <2>2, <2>3 DEF CommandInv, Conserved
<1>2. CommandInv => AtMostOnce
  <2> SUFFICES ASSUME CommandInv PROVE AtMostOnce
    OBVIOUS
  <2>1. Sent \in Nat /\ Asked \in Nat /\ InSlot \in Nat
    BY Sums DEF CommandInv, TypeInv
  <2>2. InHand \in Nat
    BY DEF InHand, Token
  <2>3. Sent <= Asked
    BY <2>1, <2>2 DEF CommandInv, Conserved
  <2> QED
    BY <2>3 DEF AtMostOnce, Sent, Asked
<1> QED
  BY <1>1, <1>2, NextCommand, PTL DEF Spec

-----------------------------------------------------------------------------
(* The delay the timer is started with.                                    *)

\* Without the disconnect button only btc makes the DISCONNECTED callback.
WebKeepsOut ==
    pc["web"] \notin DownSteps \union {"web_stop_timer", "web_close", "web_down"}

BackoffInv == TypeInv /\ WebKeepsOut /\ BackoffBounded

\* The step that starts the timer, with a delay no other task has doubled.
LEMMA ArmBounded ==
  ASSUME BackoffInv, NEW t \in Tasks, Arm(t)
  PROVE  BackoffBounded'
<1> USE DEF BackoffInv, TypeInv
<1>1. pc[t] = "arm" /\ armed' = g_reconnect_delay
  BY DEF Arm, Go
<1>2. t = "btc"
  BY <1>1 DEF WebKeepsOut, PcInv, DownSteps, CallSteps, SendSteps, Tasks
<1>3. g_reconnect_delay \in MinDelay .. MaxDelay
  BY <1>1, <1>2, DelayAssumption DEF WebKeepsOut, DownSteps, DelayInv
<1> QED
  BY <1>1, <1>3 DEF BackoffBounded

\* Every other step leaves the timer or stops it.
LEMMA NotArmed ==
  ASSUME BackoffBounded, [Next]_vars, \A t \in Tasks : ~Arm(t)
  PROVE  BackoffBounded'
<1>1. armed' \in {armed, 0}
  BY DEF Next, Request, WebConnect, WebDisconnect, Continue, Sending, QueueFlag,
         QueueValue, Override, SendCheck, SendWrite, Connecting, ConnectCheck,
         ConnectSeek, Down, PublishDown, MayRetry, Double, Cap, Web, WebRead,
         WebStopTimer, WebClose, WebDown, Ready, PublishReady, TakePending,
         TakeValue, PublishOffline, TimerFire, Sight, Found, OpenTarget, LinkUp,
         LinkDown, AskInfo, DeriveKey, AskPair, Paired, Event, BrokerUp,
         BrokerDown, vars, flags
<1> QED
  BY <1>1 DEF BackoffBounded

\* No step takes the web task into the DISCONNECTED callback.
LEMMA NextKeepsOut ==
  ASSUME "web_disconnect" \notin Ops, TypeInv, WebKeepsOut, [Next]_vars
  PROVE  WebKeepsOut'
<1>0. /\ pc \in [Tasks -> Steps] /\ "web" \in Tasks
      /\ WebKeepsOut /\ PcInv
  BY DEF TypeInv, RestType, Tasks
<1> USE <1>0 DEF WebKeepsOut, DownSteps, Go
<1>1. ASSUME NEW t \in Tasks, Continue(t) PROVE WebKeepsOut'
  <2>1. CASE Sending(t)
    BY <1>1, <2>1 DEF Sending, QueueFlag, QueueValue, Override, SendCheck, SendWrite
  <2>2. CASE Connecting(t)
    BY <1>1, <2>2 DEF Connecting, ConnectCheck, ConnectSeek
  <2>3. CASE Down(t)
    BY <1>1, <2>3 DEF Down, Tasks, PublishDown, MayRetry, Arm, Double, Cap
  <2>4. CASE t = "web" /\ Web
    BY <1>1, <2>4 DEF Web, WebRead, WebStopTimer, WebClose, WebDown
  <2>5. CASE t = "btc" /\ Ready
    BY <1>1, <2>5 DEF Ready, PublishReady, TakePending, TakeValue
  <2>6. CASE t = "mqtt" /\ PublishOffline
    BY <1>1, <2>6 DEF PublishOffline
  <2> QED
    BY <1>1, <2>1, <2>2, <2>3, <2>4, <2>5, <2>6 DEF Continue
<1>2. ASSUME NEW t \in Users, NEW on \in Values, Request(t, on) PROVE WebKeepsOut'
  BY <1>2 DEF Request, Users
<1>3. CASE WebConnect \/ WebDisconnect \/ TimerFire
  BY <1>3 DEF WebConnect, WebDisconnect, TimerFire
<1>4. CASE \/ Sight \/ Found \/ OpenTarget \/ LinkUp \/ LinkDown
           \/ AskInfo \/ DeriveKey \/ AskPair \/ Paired
  BY <1>4 DEF Sight, Found, OpenTarget, LinkUp, LinkDown, AskInfo, DeriveKey, AskPair,
              Paired, Event
<1>5. CASE BrokerUp \/ BrokerDown \/ UNCHANGED vars
  BY <1>5 DEF BrokerUp, BrokerDown, vars
<1> QED
  BY <1>1, <1>2, <1>3, <1>4, <1>5 DEF Next

\* As long as nobody uses the disconnect button the timer is started with a
\* delay between the two constants (schedule_reconnect, main.c:160-171): the
\* callback of btc alone doubles and caps, whatever resets the delay meanwhile.
THEOREM DelayBounded ==
  ASSUME "web_disconnect" \notin Ops
  PROVE  Spec => []BackoffBounded
<1>1. Init => BackoffInv
  <2> SUFFICES ASSUME Init PROVE BackoffInv
    OBVIOUS
  <2>1. WebKeepsOut
    BY DEF Init, Tasks, WebKeepsOut, DownSteps
  <2>2. BackoffBounded
    BY DEF Init, BackoffBounded
  <2> QED
    BY <2>1, <2>2, InitType DEF BackoffInv
<1>2. BackoffInv /\ [Next]_vars => BackoffInv'
  <2> SUFFICES ASSUME BackoffInv, [Next]_vars PROVE BackoffInv'
    OBVIOUS
  <2>1. BackoffBounded'
    BY ArmBounded, NotArmed DEF BackoffInv
  <2> QED
    BY <2>1, NextType, NextKeepsOut DEF BackoffInv
<1>3. BackoffInv => BackoffBounded
  BY DEF BackoffInv
<1> QED
  BY <1>1, <1>2, <1>3, PTL DEF Spec

-----------------------------------------------------------------------------
(* What the broker retains.                                                *)

\* Without the disconnect button the state is DISCONNECTED only when there is no link,
\* and the READY callback runs on the link that is ready.
LinkKnown ==
    /\ link # "down" => g_state # "DISCONNECTED"
    /\ pc["btc"] = "pub_ready" => link = "up" /\ phase = "pair"

\* An online that is not true any more is about to be taken back; a broker that hears
\* nothing holds offline.
OnlineBacked ==
    /\ availability = "online" => \/ link = "up" /\ phase = "pair"
                                  \/ pc["btc"] = "pub_down"
    /\ ~s_connected => availability = "offline"

OnlineInv == TypeInv /\ WebKeepsOut /\ LinkKnown /\ OnlineBacked

\* A READY the broker can hear is told or about to be, unless the announcement of the
\* broker connection took it back or is about to.
ReadyTold ==
    /\ g_state = "READY" /\ s_connected /\ ~renewed
         => \/ availability = "online"
            \/ pc["btc"] = "pub_ready"
            \/ pc["mqtt"] = "pub_offline"
    /\ pc["btc"] = "pub_down" => g_state # "READY"

ReadyInv == OnlineInv /\ ReadyTold

\* The steps of a call, and what users and the timer start, change neither link nor
\* phase; only a search changes the state, and only to CONNECTING.
LEMMA OnlySearches ==
  ASSUME "web_disconnect" \notin Ops, OnlineInv,
         \/ \E t \in Tasks : Continue(t)
         \/ \E t \in Users, on \in Values : Request(t, on)
         \/ WebConnect \/ WebDisconnect \/ TimerFire
  PROVE  /\ UNCHANGED <<link, phase, s_connected>>
         /\ UNCHANGED g_state \/ g_state' = "CONNECTING"
<1> USE DEF cmd, flags, ble, mqtt, frame, hist
<1>1. ASSUME NEW t \in Tasks, Continue(t)
      PROVE  /\ UNCHANGED <<link, phase, s_connected>>
             /\ UNCHANGED g_state \/ g_state' = "CONNECTING"
  <2>1. ~WebDown
    BY DEF OnlineInv, WebKeepsOut, WebDown, Go
  <2>2. CASE Sending(t)
    BY <2>2 DEF Sending, QueueFlag, QueueValue, Override, SendCheck, SendWrite
  <2>3. CASE Connecting(t)
    BY <2>3 DEF Connecting, ConnectCheck, ConnectSeek, Ble!Seek
  <2>4. CASE Down(t)
    BY <2>4 DEF Down, PublishDown, MayRetry, Arm, Double, Cap
  <2>5. CASE Web
    BY <2>1, <2>5 DEF Web, WebRead, WebStopTimer, WebClose
  <2>6. CASE Ready
    BY <2>6 DEF Ready, PublishReady, TakePending, TakeValue
  <2>7. CASE PublishOffline
    BY <2>7 DEF PublishOffline
  <2> QED
    BY <1>1, <2>2, <2>3, <2>4, <2>5, <2>6, <2>7 DEF Continue
<1>2. ASSUME NEW t \in Users, NEW on \in Values, Request(t, on)
      PROVE  UNCHANGED <<link, phase, s_connected, g_state>>
  BY <1>2 DEF Request
<1>3. CASE WebConnect \/ WebDisconnect \/ TimerFire
  BY <1>3 DEF WebConnect, WebDisconnect, TimerFire
<1> QED
  BY <1>1, <1>2, <1>3

\* Of these, only the two callbacks of btc and the broker's own message tell anything.
LEMMA OnlyCallbacksTell ==
  ASSUME OnlineInv,
         \/ \E t \in Tasks : Continue(t)
         \/ \E t \in Users, on \in Values : Request(t, on)
         \/ WebConnect \/ WebDisconnect \/ TimerFire
  PROVE  \/ PublishDown("btc")
         \/ PublishReady
         \/ PublishOffline
         \/ UNCHANGED availability /\ pc["btc"] \notin {"pub_down", "pub_ready"}
               /\ pc'["btc"] \notin {"pub_down", "pub_ready"}
         \/ UNCHANGED availability /\ pc'["btc"] = pc["btc"]
<1> USE DEF mqtt, Go
<1>0. /\ pc \in [Tasks -> Steps] /\ "btc" \in Tasks /\ "web" \in Tasks /\ "mqtt" \in Tasks
      /\ PcInv /\ WebKeepsOut
  BY DEF OnlineInv, TypeInv, RestType, Tasks
<1> DEFINE Quietly ==
              \/ UNCHANGED availability /\ pc["btc"] \notin {"pub_down", "pub_ready"}
                    /\ pc'["btc"] \notin {"pub_down", "pub_ready"}
              \/ UNCHANGED availability /\ pc'["btc"] = pc["btc"]
<1>1. ASSUME NEW t \in Tasks, Continue(t)
      PROVE  PublishDown("btc") \/ PublishReady \/ PublishOffline \/ Quietly
  <2>1. CASE Sending(t)
    BY <1>0, <2>1 DEF Sending, QueueFlag, QueueValue, Override, SendCheck, SendWrite
  <2>2. CASE Connecting(t)
    BY <1>0, <2>2 DEF Connecting, ConnectCheck, ConnectSeek
  <2>3. CASE Down(t)
    <3>1. t = "btc"
      BY <1>0, <2>3 DEF Down, PublishDown, MayRetry, Arm, Double, Cap, PcInv,
                        WebKeepsOut, DownSteps, CallSteps, SendSteps, Tasks
    <3> QED
      BY <1>0, <2>3, <3>1 DEF Down, MayRetry, Arm, Double, Cap
  <2>4. CASE t = "web" /\ Web
    BY <1>0, <2>4 DEF Web, WebRead, WebStopTimer, WebClose, WebDown
  <2>5. CASE Ready
    BY <1>0, <2>5 DEF Ready, TakePending, TakeValue
  <2>6. CASE PublishOffline
    BY <2>6
  <2> QED
    BY <1>1, <2>1, <2>2, <2>3, <2>4, <2>5, <2>6 DEF Continue
<1>2. ASSUME NEW t \in Users, NEW on \in Values, Request(t, on)
      PROVE  Quietly
  BY <1>0, <1>2 DEF Request, Users
<1>3. CASE WebConnect \/ WebDisconnect \/ TimerFire
  BY <1>0, <1>3 DEF WebConnect, WebDisconnect, TimerFire
<1> QED
  BY <1>1, <1>2, <1>3

LEMMA NextOnline ==
  ASSUME "web_disconnect" \notin Ops, OnlineInv, [Next]_vars
  PROVE  OnlineInv'
<1> USE DEF Go, mqtt
<1>0. /\ pc \in [Tasks -> Steps] /\ "btc" \in Tasks /\ "mqtt" \in Tasks
      /\ TypeInv /\ WebKeepsOut /\ LinkKnown /\ OnlineBacked
      /\ s_connected \in BOOLEAN
  BY DEF OnlineInv, TypeInv, RestType, Tasks
<1>1. TypeInv' /\ WebKeepsOut'
  BY <1>0, NextType, NextKeepsOut
<1> SUFFICES LinkKnown' /\ OnlineBacked'
  BY <1>1 DEF OnlineInv
<1>2. ASSUME \/ \E t \in Tasks : Continue(t)
             \/ \E t \in Users, on \in Values : Request(t, on)
             \/ WebConnect \/ WebDisconnect \/ TimerFire
      PROVE  LinkKnown' /\ OnlineBacked'
  <2>1. /\ UNCHANGED <<link, phase, s_connected>>
        /\ UNCHANGED g_state \/ g_state' = "CONNECTING"
    BY <1>2, OnlySearches
  <2>2. CASE PublishDown("btc")
    BY <1>0, <2>1, <2>2 DEF PublishDown, TellDown, Publish, LinkKnown, OnlineBacked
  <2>3. CASE PublishReady
    BY <1>0, <2>1, <2>3 DEF PublishReady, TellReady, Publish, LinkKnown, OnlineBacked
  <2>4. CASE PublishOffline
    BY <1>0, <2>1, <2>4 DEF PublishOffline, Publish, LinkKnown, OnlineBacked
  <2>5. CASE \/ UNCHANGED availability /\ pc["btc"] \notin {"pub_down", "pub_ready"}
                  /\ pc'["btc"] \notin {"pub_down", "pub_ready"}
             \/ UNCHANGED availability /\ pc'["btc"] = pc["btc"]
    BY <1>0, <2>1, <2>5 DEF LinkKnown, OnlineBacked
  <2> QED
    BY <1>2, <2>2, <2>3, <2>4, <2>5, OnlyCallbacksTell
<1>3. CASE LinkDown
  BY <1>0, <1>3 DEF LinkDown, Ble!LinkDown, LinkKnown, OnlineBacked
<1>4. CASE Paired
  BY <1>0, <1>4 DEF Paired, Ble!Paired, LinkKnown, OnlineBacked
<1>5. CASE Sight \/ Found \/ OpenTarget \/ LinkUp
  BY <1>0, <1>5 DEF Sight, Found, OpenTarget, LinkUp, Event, Ble!Sight, Ble!Found,
                    Ble!OpenTarget, Ble!LinkUp, LinkKnown, OnlineBacked
<1>6. CASE AskInfo \/ DeriveKey \/ AskPair
  BY <1>0, <1>6 DEF AskInfo, DeriveKey, AskPair, Event, Ble!AskInfo, Ble!DeriveKey,
                    Ble!AskPair, LinkKnown, OnlineBacked
<1>7. CASE BrokerUp \/ BrokerDown
  BY <1>0, <1>7 DEF BrokerUp, BrokerDown, ble, LinkKnown, OnlineBacked
<1>8. CASE UNCHANGED vars
  BY <1>0, <1>8 DEF vars, ble, LinkKnown, OnlineBacked
<1> QED
  BY <1>2, <1>3, <1>4, <1>5, <1>6, <1>7, <1>8 DEF Next

LEMMA InitOnline == Init => OnlineInv
<1> SUFFICES ASSUME Init PROVE OnlineInv
  OBVIOUS
<1>1. WebKeepsOut
  BY DEF Init, Tasks, WebKeepsOut, DownSteps
<1>2. LinkKnown /\ OnlineBacked
  BY DEF Init, Ble!Init, Tasks, LinkKnown, OnlineBacked
<1> QED
  BY <1>1, <1>2, InitType DEF OnlineInv

\* As long as nobody uses the disconnect button, and however often the broker connection
\* comes and goes: when every task has told what it knows, online is retained only while
\* the handshake of a link that is up is complete (the callbacks of tuya_state_callback
\* and mqtt_event_handler).
THEOREM OnlineIsLinked ==
  ASSUME "web_disconnect" \notin Ops
  PROVE  Spec => []OnlineMeansLinked
<1>1. OnlineInv => OnlineMeansLinked
  BY DEF OnlineInv, OnlineBacked, OnlineMeansLinked, Quiet, Tasks
<1>2. OnlineInv /\ [Next]_vars => OnlineInv'
  BY NextOnline
<1> QED
  BY <1>1, <1>2, InitOnline, PTL DEF Spec

\* Apart from the announcement itself nothing these steps do touches its history, and
\* the MQTT task does nothing else before it.
LEMMA AnnouncementStays ==
  ASSUME RestType, ~PublishOffline,
         \/ \E t \in Tasks : Continue(t)
         \/ \E t \in Users, on \in Values : Request(t, on)
         \/ WebConnect \/ WebDisconnect \/ TimerFire
  PROVE  /\ UNCHANGED renewed
         /\ pc["mqtt"] = "pub_offline" => pc'["mqtt"] = "pub_offline"
<1> DEFINE Stays == /\ UNCHANGED renewed
                    /\ pc["mqtt"] = "pub_offline" => pc'["mqtt"] = "pub_offline"
<1>0. pc \in [Tasks -> Steps] /\ "mqtt" \in Tasks
  BY DEF RestType, Tasks
<1> USE DEF mqtt, Go
<1>1. ASSUME NEW t \in Tasks, Continue(t) PROVE Stays
  <2>1. CASE Sending(t)
    BY <1>0, <2>1 DEF Sending, QueueFlag, QueueValue, Override, SendCheck, SendWrite
  <2>2. CASE Connecting(t)
    BY <1>0, <2>2 DEF Connecting, ConnectCheck, ConnectSeek
  <2>3. CASE Down(t)
    BY <1>0, <2>3 DEF Down, PublishDown, MayRetry, Arm, Double, Cap
  <2>4. CASE t = "web" /\ Web
    BY <1>0, <2>4 DEF Web, WebRead, WebStopTimer, WebClose, WebDown
  <2>5. CASE t = "btc" /\ Ready
    BY <1>0, <2>5 DEF Ready, PublishReady, TakePending, TakeValue
  <2> QED
    BY <1>1, <2>1, <2>2, <2>3, <2>4, <2>5 DEF Continue
<1>2. ASSUME NEW t \in Users, NEW on \in Values, Request(t, on) PROVE Stays
  BY <1>0, <1>2 DEF Request, Users
<1>3. CASE WebConnect \/ WebDisconnect \/ TimerFire
  BY <1>0, <1>3 DEF WebConnect, WebDisconnect, TimerFire
<1> QED
  BY <1>1, <1>2, <1>3

LEMMA NextReady ==
  ASSUME "web_disconnect" \notin Ops, ReadyInv, [Next]_vars
  PROVE  ReadyInv'
<1> USE DEF Go, mqtt
<1>0. /\ pc \in [Tasks -> Steps] /\ "btc" \in Tasks /\ "mqtt" \in Tasks
      /\ OnlineInv /\ ReadyTold /\ RestType
  BY DEF ReadyInv, OnlineInv, TypeInv, RestType, Tasks
<1>1. OnlineInv'
  BY <1>0, NextOnline
<1> SUFFICES ReadyTold'
  BY <1>1 DEF ReadyInv
<1>2. ASSUME \/ \E t \in Tasks : Continue(t)
             \/ \E t \in Users, on \in Values : Request(t, on)
             \/ WebConnect \/ WebDisconnect \/ TimerFire
      PROVE  ReadyTold'
  <2>1. /\ UNCHANGED s_connected
        /\ UNCHANGED g_state \/ g_state' = "CONNECTING"
    BY <1>0, <1>2, OnlySearches
  <2>2. ASSUME ~PublishOffline
        PROVE  /\ UNCHANGED renewed
               /\ pc["mqtt"] = "pub_offline" => pc'["mqtt"] = "pub_offline"
    BY <1>0, <1>2, <2>2, AnnouncementStays
  <2>3. CASE PublishOffline
    BY <1>0, <2>1, <2>3 DEF PublishOffline, ReadyTold
  <2>4. CASE PublishDown("btc")
    BY <1>0, <2>1, <2>4 DEF PublishDown, ReadyTold
  <2>5. CASE PublishReady
    BY <1>0, <2>1, <2>5 DEF PublishReady, TellReady, Publish, ReadyTold
  <2>6. CASE /\ ~PublishOffline
             /\ \/ UNCHANGED availability /\ pc["btc"] \notin {"pub_down", "pub_ready"}
                     /\ pc'["btc"] \notin {"pub_down", "pub_ready"}
                \/ UNCHANGED availability /\ pc'["btc"] = pc["btc"]
    BY <1>0, <2>1, <2>2, <2>6 DEF ReadyTold
  <2> QED
    BY <1>0, <1>2, <2>3, <2>4, <2>5, <2>6, OnlyCallbacksTell
<1>3. CASE LinkDown
  BY <1>0, <1>3 DEF LinkDown, Ble!LinkDown, ReadyTold
<1>4. CASE Paired
  <2>1. CASE g_state = "READY"
    <3>1. renewed' = renewed
      BY <1>0, <1>4, <2>1 DEF Paired, RestType
    <3> QED
      BY <1>0, <1>4, <2>1, <3>1 DEF Paired, Ble!Paired, ReadyTold
  <2>2. CASE g_state # "READY"
    BY <1>0, <1>4, <2>2 DEF Paired, Ble!Paired, ReadyTold
  <2> QED
    BY <2>1, <2>2
<1>5. CASE Sight \/ Found \/ OpenTarget \/ LinkUp
  BY <1>0, <1>5 DEF Sight, Found, OpenTarget, LinkUp, Event, Ble!Sight, Ble!Found,
                    Ble!OpenTarget, Ble!LinkUp, ReadyTold
<1>6. CASE AskInfo \/ DeriveKey \/ AskPair
  BY <1>0, <1>6 DEF AskInfo, DeriveKey, AskPair, Event, Ble!AskInfo, Ble!DeriveKey,
                    Ble!AskPair, ReadyTold
<1>7. CASE BrokerUp
  BY <1>0, <1>7 DEF BrokerUp, ble, ReadyTold
<1>8. CASE BrokerDown
  BY <1>0, <1>8 DEF BrokerDown, ble, ReadyTold
<1>9. CASE UNCHANGED vars
  BY <1>0, <1>9 DEF vars, ble, ReadyTold
<1> QED
  BY <1>2, <1>3, <1>4, <1>5, <1>6, <1>7, <1>8, <1>9 DEF Next

\* As long as nobody uses the disconnect button, whether the first broker connection
\* comes before or after READY and however often it is lost: a bridge that is READY and
\* can be heard is online as soon as every task has told what it knows, unless the
\* broker connection was announced while it was READY (MQTT_EVENT_CONNECTED publishes
\* offline, mqtt_ha.c:99).
THEOREM ReadyIsOnline ==
  ASSUME "web_disconnect" \notin Ops
  PROVE  Spec => []OnlineWhenReady
<1>1. Init => ReadyInv
  <2> SUFFICES ASSUME Init PROVE ReadyInv
    OBVIOUS
  <2>1. ReadyTold
    BY DEF Init, Ble!Init, Tasks, ReadyTold
  <2> QED
    BY <2>1, InitOnline DEF ReadyInv
<1>2. ReadyInv => OnlineWhenReady
  BY DEF ReadyInv, ReadyTold, OnlineWhenReady, Quiet, Tasks
<1>3. ReadyInv /\ [Next]_vars => ReadyInv'
  BY NextReady
<1> QED
  BY <1>1, <1>2, <1>3, PTL DEF Spec
=============================================================================
