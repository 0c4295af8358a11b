------------------------------ MODULE BootProofs ------------------------------
(***************************************************************************)
(* Proofs about the boot: the bit and the station while WiFi events are     *)
(* queued, and the search that a bridge that has booted has under way.      *)
(***************************************************************************)
EXTENDS Boot, SequenceTheorems, TLAPS

\* The queue holds what the driver did since the bit was last in step with it.
WifiInv ==
    \/ station = "off" /\ wifi_events = <<>> /\ ~connected_bit
    \/ station = "idle" /\ wifi_events = <<"START">> /\ ~connected_bit
    \/ station = "trying" /\ wifi_events = <<>> /\ ~connected_bit
    \/ station = "up" /\ wifi_events = <<"GOT_IP">> /\ ~connected_bit
    \/ station = "up" /\ wifi_events = <<>> /\ connected_bit
    \/ station = "idle" /\ wifi_events = <<"GOT_IP", "DISCONNECTED">> /\ ~connected_bit
    \/ station = "idle" /\ wifi_events = <<"DISCONNECTED">>

\* What app_main has done when it comes to a stage.
StageInv ==
    /\ stage = "init_wifi" <=> station = "off"
    /\ stage \in {"timer", "connect", "running"} => gap_registered
    /\ gap_registered => bluedroid_enabled
    /\ stage \in {"gattc", "gap"} => bluedroid_enabled

\* Without a command that came too early nobody searches before the client can, and a
\* search that was announced was started.
SearchInv ==
    /\ ~early /\ ~gap_registered => calls = {} /\ g_state = "DISCONNECTED"
    /\ ~early /\ g_state = "CONNECTING" => scan # "none"
    /\ stage = "running" => calls # {} \/ g_state = "CONNECTING"

IInv == TypeOK /\ WifiInv /\ StageInv /\ SearchInv

LEMMA IndInit == Init => IInv
<1>1. SUFFICES ASSUME Init
               PROVE  IInv
  OBVIOUS
<1>2. <<>> \in Seq({"START", "DISCONNECTED", "GOT_IP"}) /\ Len(<<>>) = 0 /\ 0 <= 2
  OBVIOUS
<1>3. TypeOK
  BY <1>1, <1>2 DEF Init, TypeOK, Stages
<1>4. WifiInv
  BY <1>1 DEF Init, WifiInv
<1>5. StageInv /\ SearchInv
  BY <1>1 DEF Init, StageInv, SearchInv
<1> QED
  BY <1>3, <1>4, <1>5 DEF IInv

-----------------------------------------------------------------------------
(* WiFi.                                                                   *)

\* The queue after a step, for the queues that occur.
LEMMA Queues ==
  LET E == {"START", "DISCONNECTED", "GOT_IP"}
  IN  /\ <<>> \in Seq(E) /\ Len(<<>>) <= 2
      /\ \A e \in E : /\ <<e>> \in Seq(E) /\ Len(<<e>>) <= 2 /\ <<e>> # <<>>
                      /\ Append(<<>>, e) = <<e>>
                      /\ Head(<<e>>) = e /\ Tail(<<e>>) = <<>>
      /\ \A d, e \in E : /\ <<d, e>> \in Seq(E) /\ Len(<<d, e>>) <= 2
                         /\ Append(<<d>>, e) = <<d, e>>
                         /\ Head(<<d, e>>) = d /\ Tail(<<d, e>>) = <<e>>
<1> DEFINE E == {"START", "DISCONNECTED", "GOT_IP"}
<1> HIDE DEF E
<1>1. <<>> \in Seq(E) /\ Len(<<>>) <= 2
  OBVIOUS
<1>2. ASSUME NEW e \in E
      PROVE  /\ <<e>> \in Seq(E) /\ Len(<<e>>) <= 2 /\ <<e>> # <<>>
             /\ Append(<<>>, e) = <<e>>
             /\ Head(<<e>>) = e /\ Tail(<<e>>) = <<>>
  OBVIOUS
<1>3. ASSUME NEW d \in E, NEW e \in E
      PROVE  /\ <<d, e>> \in Seq(E) /\ Len(<<d, e>>) <= 2
             /\ Append(<<d>>, e) = <<d, e>>
             /\ Head(<<d, e>>) = d /\ Tail(<<d, e>>) = <<e>>
  <2>1. <<d, e>> \in Seq(E) /\ Len(<<d, e>>) <= 2
    OBVIOUS
  <2>2. Append(<<d>>, e) = <<d, e>>
    <3> DEFINE p == Append(<<d>>, e)  q == <<d, e>>
    <3>1. <<d>> \in Seq(E) /\ Len(<<d>>) = 1 /\ <<d>>[1] = d
      OBVIOUS
    <3>2. p \in Seq(E) /\ Len(p) = 2 /\ p[1] = d /\ p[2] = e
      BY <3>1, AppendProperties
    <3>3. q \in Seq(E) /\ Len(q) = 2 /\ q[1] = d /\ q[2] = e
      BY <2>1
    <3> HIDE DEF p, q
    <3>4. \A i \in 1..Len(p) : p[i] = q[i]
      BY <3>2, <3>3
    <3>5. p = q
      BY <3>2, <3>3, <3>4, SeqEqual
    <3> QED
      BY <3>5 DEF p, q
  <2>3. Head(<<d, e>>) = d
    OBVIOUS
  <2>4. Tail(<<d, e>>) = <<e>>
    OBVIOUS
  <2> QED
    BY <2>1, <2>2, <2>3, <2>4
<1> QED
  BY <1>1, <1>2, <1>3 DEF E

\* The queue after a step is one of those that occur.
LEMMA WifiTypes ==
  ASSUME WifiInv'
  PROVE  /\ station' \in {"off", "idle", "trying", "up"}
         /\ wifi_events' \in Seq({"START", "DISCONNECTED", "GOT_IP"})
         /\ Len(wifi_events') <= 2
<1>1. wifi_events' \in {<<>>, <<"START">>, <<"DISCONNECTED">>, <<"GOT_IP">>,
                        <<"GOT_IP", "DISCONNECTED">>}
  BY DEF WifiInv
<1>2. station' \in {"off", "idle", "trying", "up"}
  BY DEF WifiInv
<1> QED
  BY <1>1, <1>2, Queues

\* The driver: it can have two events waiting at most, the second being the end of the
\* association the first announced.
LEMMA DriverKeeps ==
  ASSUME WifiInv, Associate \/ Dissociate
  PROVE  WifiInv' /\ station # "off" /\ station' # "off"
<1>1. CASE Associate
  <2>1. /\ station = "trying" /\ station' = "up" /\ connected_bit' = connected_bit
        /\ wifi_events' = Append(wifi_events, "GOT_IP")
    BY <1>1 DEF Associate
  <2>2. wifi_events = <<>> /\ ~connected_bit
    BY <2>1 DEF WifiInv
  <2>3. wifi_events' = <<"GOT_IP">>
    BY <2>1, <2>2, Queues
  <2> QED
    BY <2>1, <2>2, <2>3 DEF WifiInv
<1>2. CASE Dissociate
  <2>1. /\ station \in {"trying", "up"} /\ station' = "idle"
        /\ connected_bit' = connected_bit
        /\ wifi_events' = Append(wifi_events, "DISCONNECTED")
    BY <1>2 DEF Dissociate
  <2>2. wifi_events = <<>> \/ (wifi_events = <<"GOT_IP">> /\ ~connected_bit)
    BY <2>1 DEF WifiInv
  <2>3. \/ wifi_events' = <<"DISCONNECTED">>
        \/ wifi_events' = <<"GOT_IP", "DISCONNECTED">> /\ ~connected_bit
    BY <2>1, <2>2, Queues
  <2> QED
    BY <2>1, <2>3 DEF WifiInv
<1> QED
  BY <1>1, <1>2

\* wifi_event_handler.
LEMMA HandlerKeeps ==
  ASSUME WifiInv, EventTask
  PROVE  WifiInv' /\ station # "off" /\ station' # "off"
<1>1. CASE OnStart
  <2>1. /\ Head(wifi_events) = "START" /\ wifi_events # <<>>
        /\ wifi_events' = Tail(wifi_events)
        /\ station' = "trying" /\ connected_bit' = connected_bit
    BY <1>1 DEF OnStart, Handle
  <2>2. station = "idle" /\ wifi_events = <<"START">> /\ ~connected_bit
    BY <2>1, Queues DEF WifiInv
  <2>3. wifi_events' = <<>>
    BY <2>1, <2>2, Queues
  <2> QED
    BY <2>1, <2>2, <2>3 DEF WifiInv
<1>2. CASE OnDisconnected
  <2>1. /\ Head(wifi_events) = "DISCONNECTED" /\ wifi_events # <<>>
        /\ wifi_events' = Tail(wifi_events)
        /\ station' = "trying" /\ connected_bit' = FALSE
    BY <1>2 DEF OnDisconnected, Handle, Connecting, BitCleared
  <2>2. station = "idle" /\ wifi_events = <<"DISCONNECTED">>
    BY <2>1, Queues DEF WifiInv
  <2>3. wifi_events' = <<>>
    BY <2>1, <2>2, Queues
  <2> QED
    BY <2>1, <2>2, <2>3 DEF WifiInv
<1>3. CASE OnGotIp
  <2>1. /\ Head(wifi_events) = "GOT_IP" /\ wifi_events # <<>>
        /\ wifi_events' = Tail(wifi_events)
        /\ station' = station /\ connected_bit' = TRUE
    BY <1>3 DEF OnGotIp, Handle
  <2>2. \/ station = "up" /\ wifi_events = <<"GOT_IP">>
        \/ station = "idle" /\ wifi_events = <<"GOT_IP", "DISCONNECTED">>
    BY <2>1, Queues DEF WifiInv
  <2>3. \/ station = "up" /\ wifi_events' = <<>>
        \/ station = "idle" /\ wifi_events' = <<"DISCONNECTED">>
    BY <2>1, <2>2, Queues
  <2> QED
    BY <2>1, <2>2, <2>3 DEF WifiInv
<1> QED
  BY <1>1, <1>2, <1>3 DEF EventTask

-----------------------------------------------------------------------------
(* Every step.                                                             *)

LEMMA WifiStep ==
  ASSUME IInv, Associate \/ Dissociate \/ EventTask
  PROVE  IInv'
<1>1. WifiInv' /\ station # "off" /\ station' # "off"
  BY DriverKeeps, HandlerKeeps DEF IInv
<1>2. /\ UNCHANGED <<served, bluedroid_enabled, gap_registered, client>>
      /\ stage' = stage \/ (stage = "waiting" /\ stage' = "web")
      /\ connected_bit' \in BOOLEAN
  BY DEF Associate, Dissociate, EventTask, OnStart, OnDisconnected, OnGotIp, Handle, boot,
         Woken, BitCleared, IInv, TypeOK
<1>3. TypeOK'
  <2>1. /\ station' \in {"off", "idle", "trying", "up"}
        /\ wifi_events' \in Seq({"START", "DISCONNECTED", "GOT_IP"})
        /\ Len(wifi_events') <= 2
    BY <1>1, WifiTypes
  <2>2. stage' \in Stages
    BY <1>2 DEF IInv, TypeOK, Stages
  <2> QED
    BY <1>2, <2>1, <2>2 DEF IInv, TypeOK, client
<1>4. StageInv'
  BY <1>1, <1>2 DEF IInv, StageInv
<1>5. SearchInv'
  BY <1>2 DEF IInv, SearchInv, client
<1> QED
  BY <1>1, <1>3, <1>4, <1>5 DEF IInv

LEMMA ClientStep ==
  ASSUME IInv, NEW t \in Callers, Command(t) \/ ConnectScan(t) \/ ScanParamsSet
  PROVE  IInv'
<1>1. UNCHANGED <<wifi, boot>>
  BY DEF Command, ConnectScan, ScanParamsSet
<1>2. TypeOK'
  BY <1>1 DEF Command, ConnectScan, ScanParamsSet, ConnectCheck, IInv, TypeOK, wifi, boot
<1>3. WifiInv' /\ StageInv'
  BY <1>1 DEF IInv, WifiInv, StageInv, wifi, boot
<1>4. SearchInv'
  <2>1. CASE Command(t)
    <3>1. /\ calls' = calls \union {t} /\ UNCHANGED <<g_state, scan>>
          /\ early' = (early \/ (t \in Users /\ ~gap_registered))
          /\ t \in Users /\ g_state = "DISCONNECTED"
      BY <2>1 DEF Command, ConnectCheck, IInv, TypeOK
    <3>2. ~early' => ~early /\ gap_registered
      BY <3>1
    <3> QED
      BY <1>1, <3>1, <3>2 DEF IInv, SearchInv, boot
  <2>2. CASE ConnectScan(t)
    <3>1. /\ t \in calls /\ calls' = calls \ {t} /\ g_state' = "CONNECTING"
          /\ early' = early
          /\ scan' = IF bluedroid_enabled /\ scan = "none" THEN "params" ELSE scan
      BY <2>2 DEF ConnectScan
    <3>2. ~early => gap_registered /\ bluedroid_enabled
      BY <3>1 DEF IInv, SearchInv, StageInv
    <3> QED
      BY <1>1, <3>1, <3>2 DEF IInv, SearchInv, boot
  <2>3. CASE ScanParamsSet
    <3>1. /\ scan = "params" /\ scan' = IF gap_registered THEN "on" ELSE "none"
          /\ UNCHANGED <<g_state, calls, early>>
      BY <2>3 DEF ScanParamsSet
    <3> QED
      BY <1>1, <3>1 DEF IInv, SearchInv, boot
  <2> QED
    BY <2>1, <2>2, <2>3
<1> QED
  BY <1>2, <1>3, <1>4 DEF IInv

LEMMA MainStep ==
  ASSUME IInv, AppMain
  PROVE  IInv'
<1>1. CASE InitWifi
  <2>1. /\ stage = "init_wifi" /\ stage' = "wait_wifi"
        /\ station' = "idle" /\ wifi_events' = <<"START">>
        /\ UNCHANGED <<connected_bit, served, bluedroid_enabled, gap_registered, client>>
    BY <1>1 DEF InitWifi, Step, Started
  <2>2. station = "off" /\ ~connected_bit
    BY <2>1 DEF IInv, StageInv, WifiInv
  <2>3. WifiInv'
    BY <2>1, <2>2 DEF WifiInv
  <2>4. TypeOK'
    BY <2>1, <2>3, WifiTypes DEF IInv, TypeOK, client, Stages
  <2>5. StageInv' /\ SearchInv'
    BY <2>1 DEF IInv, StageInv, SearchInv, client
  <2> QED
    BY <2>3, <2>4, <2>5 DEF IInv
<1>2. CASE WaitWifi \/ StartWeb \/ StartMqtt \/ EnableBluetooth \/ RegisterGattc
           \/ RegisterGap \/ Stop \/ CreateTimer
  <2>1. /\ UNCHANGED <<wifi, client>>
        /\ stage # "init_wifi" /\ stage' # "init_wifi" /\ stage' # "running"
    BY <1>2 DEF WaitWifi, StartWeb, StartMqtt, StartServer, EnableBluetooth, RegisterGattc,
                RegisterGap, Stop, CreateTimer, Step, GapNext
  <2>2. TypeOK'
    <3>1. stage' \in Stages
      BY <1>2 DEF WaitWifi, StartWeb, StartMqtt, StartServer, EnableBluetooth,
                RegisterGattc, RegisterGap, Stop, CreateTimer, Step, GapNext, Stages
    <3>2. /\ served' = served \/ served' = served \union {"web"}
             \/ served' = served \union {"mqtt"}
          /\ bluedroid_enabled' = bluedroid_enabled \/ bluedroid_enabled' = TRUE
          /\ gap_registered' = gap_registered \/ gap_registered' = TRUE
      BY <1>2 DEF WaitWifi, StartWeb, StartMqtt, StartServer, EnableBluetooth,
                RegisterGattc, RegisterGap, Stop, CreateTimer
    <3>3. served' \subseteq Users
      BY <3>2 DEF IInv, TypeOK, Users
    <3>4. bluedroid_enabled' \in BOOLEAN /\ gap_registered' \in BOOLEAN
      BY <3>2 DEF IInv, TypeOK
    <3> QED
      BY <2>1, <3>1, <3>3, <3>4 DEF IInv, TypeOK, wifi, client
  <2>3. WifiInv'
    BY <2>1 DEF IInv, WifiInv, wifi
  <2>4. StageInv' /\ (gap_registered => gap_registered')
    BY <1>2, <2>1 DEF WaitWifi, StartWeb, StartMqtt, StartServer, EnableBluetooth,
                RegisterGattc, RegisterGap, Stop, CreateTimer, Step, GapNext, IInv,
                StageInv, wifi
  <2>5. SearchInv'
    BY <2>1, <2>4 DEF IInv, SearchInv, client
  <2> QED
    BY <2>2, <2>3, <2>4, <2>5 DEF IInv
<1>3. CASE MainConnect
  <2>1. /\ stage = "connect" /\ stage' = "running"
        /\ UNCHANGED <<wifi, served, bluedroid_enabled, gap_registered>>
        /\ IF g_state = "DISCONNECTED" THEN ConnectCheck("main") ELSE UNCHANGED client
    BY <1>3 DEF MainConnect, Step
  <2>2. gap_registered /\ g_state \in {"DISCONNECTED", "CONNECTING"}
    BY <2>1 DEF IInv, StageInv, TypeOK
  <2>3. /\ UNCHANGED <<g_state, scan>> /\ early' = early
        /\ IF g_state = "DISCONNECTED" THEN calls' = calls \union {"main"}
           ELSE calls' = calls
    BY <2>1, <2>2 DEF ConnectCheck, client, IInv, TypeOK
  <2>4. TypeOK'
    BY <2>1, <2>3 DEF IInv, TypeOK, wifi, Stages, Callers
  <2>5. WifiInv' /\ StageInv'
    BY <2>1, <2>2 DEF IInv, WifiInv, StageInv, wifi
  <2>6. SearchInv'
    BY <2>1, <2>2, <2>3 DEF IInv, SearchInv
  <2> QED
    BY <2>4, <2>5, <2>6 DEF IInv
<1> QED
  BY <1>1, <1>2, <1>3 DEF AppMain

LEMMA IndNext == IInv /\ [Next]_vars => IInv'
<1>1. SUFFICES ASSUME IInv, [Next]_vars
               PROVE  IInv'
  OBVIOUS
<1>2. CASE Associate \/ Dissociate \/ EventTask
  BY <1>1, <1>2, WifiStep
<1>3. ASSUME NEW t \in Callers, Command(t) \/ ConnectScan(t)
      PROVE  IInv'
  BY <1>1, <1>3, ClientStep
<1>4. CASE ScanParamsSet
  <2>1. "main" \in Callers
    BY DEF Callers
  <2> QED
    BY <1>1, <1>4, <2>1, ClientStep
<1>5. CASE AppMain
  BY <1>1, <1>5, MainStep
<1>6. CASE UNCHANGED vars
  BY <1>1, <1>6 DEF vars, wifi, boot, client, IInv, TypeOK, WifiInv, StageInv, SearchInv
<1> QED
  BY <1>1, <1>2, <1>3, <1>4, <1>5, <1>6 DEF Next

LEMMA Invariant == Spec => []IInv
<1> QED
  BY IndInit, IndNext, PTL DEF Spec

\* The flags of boot and of WiFi keep their types; no more than two WiFi events wait.
THEOREM TypeCorrect == Spec => []TypeOK
<1>1. IInv => TypeOK
  BY DEF IInv
<1> QED
  BY <1>1, Invariant, PTL

\* Whenever wifi_event_handler has nothing left to do, WIFI_CONNECTED_BIT is set exactly
\* if the station is up, however late the events were handled.
THEOREM BitFollowsStation == Spec => []BitIsTheStation
<1>1. IInv => BitIsTheStation
  <2>1. SUFFICES ASSUME WifiInv, wifi_events = <<>>
                 PROVE  connected_bit <=> station = "up"
    BY DEF IInv, BitIsTheStation
  <2>2. \A e \in {"START", "DISCONNECTED", "GOT_IP"} : <<e>> # <<>>
    BY Queues
  <2>3. <<"GOT_IP", "DISCONNECTED">> # <<>>
    OBVIOUS
  <2> QED
    BY <2>1, <2>2, <2>3 DEF WifiInv
<1> QED
  BY <1>1, Invariant, PTL

\* The safety half of SearchesUnlessEarly: once app_main is done, and no command came
\* before the client could search, tuya_ble_client_connect is at work or the scan has
\* begun, with a callback that will hear of it.
SearchUnderWay ==
    stage = "running" /\ ~early => gap_registered /\ (calls # {} \/ scan # "none")

\* Only a command that came too early keeps a bridge that has booted from searching.
THEOREM Searches == Spec => []SearchUnderWay
<1>1. IInv => SearchUnderWay
  BY DEF IInv, StageInv, SearchInv, SearchUnderWay
<1> QED
  BY <1>1, Invariant, PTL
===============================================================================
