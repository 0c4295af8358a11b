------------------------ MODULE TuyaBleClientProofs ------------------------
(***************************************************************************)
(* Proofs about TuyaBleClient for every set of tasks, calls and faults and *)
(* every bound.  The properties are not inductive by themselves; IInv adds *)
(* what each stage of a link has already made true.                        *)
(***************************************************************************)
EXTENDS TuyaBleClient, TLAPS

HasRequest(kind) == \E r \in requests : r.kind = kind

\* Without a link nothing is asked, and once the DISCONNECT handler has run
\* nothing is left of the session.
DownIsClean ==
    link # "up" =>
        /\ requests = {} /\ ~ccc_pending
        /\ btc # "clear" =>
              /\ g_write_handle = 0 /\ g_notify_handle = 0
              /\ ~g_has_session_key /\ ~g_smp_paired
              /\ g_service_count = 0 /\ ~tuya_listed

\* What a handler that sleeps relies on when it goes on.
BtcInv ==
    /\ btc = "clear" => link = "down"
    /\ btc \in {"seen", "found"} => link # "up"
    /\ btc = "ccc" => link = "up" /\ g_write_handle = conn
    /\ btc = "key" => /\ link = "up" /\ g_has_session_key
                      /\ g_write_handle = conn /\ ~HasRequest("pair")

\* Handles, keys and requests belong to the link that is up.
UpInv ==
    link = "up" =>
        /\ g_write_handle \in {0, conn}
        /\ g_notify_handle \in {0, conn}
        /\ g_has_session_key =>
              g_session_key = conn /\ "info" \in answered /\ g_write_handle = conn
        /\ requests # {} => g_write_handle = conn
        /\ HasRequest("pair") => g_has_session_key

\* The search, the CCC write and the first request of a link come one after
\* the other, and only then the rest of the handshake.
OrderInv ==
    /\ btc = "ccc" => ~searching /\ ~ccc_pending
    /\ ~(searching /\ ccc_pending)
    /\ link = "up" /\ (searching \/ ccc_pending \/ btc = "ccc") =>
          requests = {} /\ ~g_has_session_key

SessionInv ==
    /\ DownIsClean
    /\ BtcInv
    /\ UpInv
    /\ OrderInv
    /\ StateIsBacked
    /\ HandshakeUsesThisLink

IInv == TypeOK /\ SessionInv

-----------------------------------------------------------------------------
(* Type correctness.                                                       *)

\* Initially every global of the client has its initial value.
LEMMA InitType == Init => TypeOK
<1> SUFFICES ASSUME Init PROVE TypeOK
  OBVIOUS
<1>1. g_state \in States /\ link \in {"down", "opening", "up"}
  BY DEF Init, States
<1>2. /\ g_service_count \in 0..MaxServices /\ conn \in 0..MaxConns
      /\ g_write_handle \in 0..conn /\ g_notify_handle \in 0..conn
      /\ g_session_key \in 0..conn /\ scan_reqs \in Nat
  BY BoundsAssumption DEF Init
<1>3. app \in [Apps -> {"idle", "connect", "disconnect"}]
  BY DEF Init
<1>4. requests \subseteq Request /\ answered \subseteq {"info", "pair"}
  BY DEF Init
<1> QED
  BY <1>1, <1>2, <1>3, <1>4 DEF Init, TypeOK

\* A call made by an application task keeps the types.
LEMMA CallType ==
  ASSUME TypeOK, NEW t \in Apps, AppStep(t)
  PROVE  TypeOK'
<1> USE BoundsAssumption DEF TypeOK, States, client, gatt, keys, scan, gap, device
<1>1. CASE ConnectCheck(t)
  BY <1>1 DEF ConnectCheck
<1>2. CASE ConnectScan(t)
  BY <1>2 DEF ConnectScan
<1>3. CASE DisconnectClose(t)
  <2>1. closing' \in BOOLEAN
    BY <1>3 DEF DisconnectClose, CloseLink
  <2>2. scanning' \in BOOLEAN
    BY <1>3 DEF DisconnectClose
  <2>3. app' \in [Apps -> {"idle", "connect", "disconnect"}]
    BY <1>3 DEF DisconnectClose
  <2> QED
    BY <1>3, <2>1, <2>2, <2>3 DEF DisconnectClose
<1>4. CASE DisconnectSet(t)
  BY <1>4 DEF DisconnectSet
<1>5. CASE StopClose(t)
  <2>1. closing' \in BOOLEAN /\ g_ble_stopped' \in BOOLEAN
    BY <1>5 DEF StopClose, CloseLink
  <2>2. scanning' \in BOOLEAN
    BY <1>5 DEF StopClose
  <2>3. app' \in [Apps -> {"idle", "connect", "disconnect"}]
    BY <1>5 DEF StopClose
  <2> QED
    BY <1>5, <2>1, <2>2, <2>3 DEF StopClose
<1>6. CASE Resume(t)
  <2>1. g_ble_stopped' \in BOOLEAN
    BY <1>6 DEF Resume
  <2> QED
    BY <1>6, <2>1 DEF Resume
<1> QED
  BY <1>1, <1>2, <1>3, <1>4, <1>5, <1>6 DEF AppStep

\* A GAP event keeps the types.
LEMMA GapType ==
  ASSUME TypeOK, GapEvent
  PROVE  TypeOK'
<1> USE BoundsAssumption DEF TypeOK, States, client, gatt, keys, scan, gap, device
<1>1. CASE ScanParamsSet
  <2>1. scan_reqs' \in Nat
    BY <1>1 DEF ScanParamsSet
  <2>2. scanning' \in BOOLEAN
    BY <1>1 DEF ScanParamsSet
  <2> QED
    BY <1>1, <2>1, <2>2 DEF ScanParamsSet
<1>2. CASE ScanResult
  BY <1>2 DEF ScanResult
<1>3. CASE AnnounceFound
  BY <1>3 DEF AnnounceFound
<1>4. CASE OpenTarget
  <2>1. scanning' \in BOOLEAN /\ link' \in {"down", "opening", "up"}
    BY <1>4 DEF OpenTarget
  <2> QED
    BY <1>4, <2>1 DEF OpenTarget
<1>5. CASE AuthCmpl
  BY <1>5 DEF AuthCmpl
<1> QED
  BY <1>1, <1>2, <1>3, <1>4, <1>5 DEF GapEvent

\* A GATT event keeps the types.
LEMMA GattType ==
  ASSUME TypeOK, GattEvent
  PROVE  TypeOK'
<1> USE BoundsAssumption DEF TypeOK, States, client, gatt, keys, scan, gap, device
<1>1. CASE Connected
  <2>1. conn' \in 0..MaxConns /\ conn \in 0..conn'
    BY <1>1 DEF Connected
  <2>2. /\ g_write_handle' \in 0..conn' /\ g_notify_handle' \in 0..conn'
        /\ g_session_key' \in 0..conn'
    BY <1>1 DEF Connected
  <2>3. g_service_count' \in 0..MaxServices
    BY <1>1 DEF Connected
  <2> QED
    BY <1>1, <2>1, <2>2, <2>3 DEF Connected
<1>2. CASE Disconnected
  BY <1>2 DEF Disconnected, ReportDown
<1>3. CASE ClearSession
  <2>1. /\ g_write_handle' \in 0..conn' /\ g_notify_handle' \in 0..conn'
        /\ g_service_count' \in 0..MaxServices
    BY <1>3 DEF ClearSession, ClearHandles, ClearDiscovery
  <2> QED
    BY <1>3, <2>1 DEF ClearSession, ClearDiscovery
<1>4. ASSUME NEW tuya \in BOOLEAN, SearchRes(tuya)
      PROVE  TypeOK'
  BY <1>4 DEF SearchRes, Room
<1>5. CASE SearchCmpl
  <2>1. g_write_handle' \in 0..conn' /\ g_notify_handle' \in 0..conn'
    BY <1>5 DEF SearchCmpl
  <2>2. ccc_pending' \in BOOLEAN
    BY <1>5 DEF SearchCmpl
  <2> QED
    BY <1>5, <2>1, <2>2 DEF SearchCmpl
<1>6. CASE WriteDescr
  <2>1. ccc_pending' \in BOOLEAN /\ btc' \in {"idle", "ccc"}
    BY <1>6 DEF WriteDescr
  <2> QED
    BY <1>6, <2>1 DEF WriteDescr
<1>7. CASE SendDeviceInfo
  BY <1>7 DEF SendDeviceInfo, Request
<1>8. CASE NotifyInfo
  BY <1>8 DEF NotifyInfo, Asked, SetSessionKey
<1>9. CASE SendPair
  BY <1>9 DEF SendPair, Request
<1>10. CASE NotifyPair
  BY <1>10 DEF NotifyPair, Asked
<1>11. CASE NotifyRejected
  BY <1>11 DEF NotifyRejected, Asked
<1>12. CASE BuildFails
  BY <1>12 DEF BuildFails
<1> QED
  BY <1>1, <1>2, <1>3, <1>4, <1>5, <1>6, <1>7, <1>8, <1>9, <1>10, <1>11, <1>12
  DEF GattEvent

\* Every step keeps the types.
LEMMA NextType == TypeOK /\ [Next]_vars => TypeOK'
<1> SUFFICES ASSUME TypeOK, [Next]_vars PROVE TypeOK'
  OBVIOUS
<1>1. ASSUME NEW t \in Apps, AppStep(t) PROVE TypeOK'
  BY <1>1, CallType
<1>2. CASE GapEvent
  BY <1>2, GapType
<1>3. CASE GattEvent
  BY <1>3, GattType
<1>4. CASE UNCHANGED vars
  BY <1>4 DEF TypeOK, vars, client, gap, scan, device
<1> QED
  BY <1>1, <1>2, <1>3, <1>4 DEF Next

\* The variables of the client keep their types: in particular the discovery
\* array never holds more than MaxServices entries (tuya_ble_client.c:690).
THEOREM TypeCorrect == Spec => []TypeOK
<1> QED
  BY InitType, NextType, PTL DEF Spec
-----------------------------------------------------------------------------
(* The session: what is asked, answered and claimed belongs to the link.   *)

\* Before the first link there is no session.
LEMMA InitSession == Init => SessionInv
<1> QED
  BY DEF Init, SessionInv, DownIsClean, BtcInv, UpInv, OrderInv, StateIsBacked,
         HandshakeUsesThisLink, Handshaking, HasRequest

\* A call made by an application task keeps the session invariant: it writes
\* no state that claims a link, and it touches no handle, key or request.
LEMMA CallSession ==
  ASSUME IInv, NEW t \in Apps, AppStep(t)
  PROVE  SessionInv'
<1> USE DEF SessionInv, DownIsClean, BtcInv, UpInv, OrderInv, StateIsBacked,
            HandshakeUsesThisLink, Handshaking, HasRequest,
            client, gatt, keys, scan, gap, device
<1>1. CASE ConnectCheck(t)
  BY <1>1 DEF ConnectCheck, IInv, TypeOK
<1>2. CASE ConnectScan(t)
  BY <1>2 DEF ConnectScan, IInv, TypeOK
<1>3. CASE DisconnectClose(t)
  BY <1>3 DEF DisconnectClose, CloseLink, IInv, TypeOK
<1>4. CASE DisconnectSet(t)
  BY <1>4 DEF DisconnectSet, IInv, TypeOK
<1>5. CASE StopClose(t)
  BY <1>5 DEF StopClose, CloseLink, IInv, TypeOK
<1>6. CASE Resume(t)
  BY <1>6 DEF Resume, IInv, TypeOK
<1> QED
  BY <1>1, <1>2, <1>3, <1>4, <1>5, <1>6 DEF AppStep

\* A GAP event keeps the session invariant.
LEMMA GapSession ==
  ASSUME IInv, GapEvent
  PROVE  SessionInv'
<1> USE DEF SessionInv, DownIsClean, BtcInv, UpInv, OrderInv, StateIsBacked,
            HandshakeUsesThisLink, Handshaking, HasRequest,
            client, gatt, keys, scan, gap, device
<1>1. CASE ScanParamsSet
  BY <1>1 DEF ScanParamsSet, IInv, TypeOK
<1>2. CASE ScanResult
  BY <1>2 DEF ScanResult, IInv, TypeOK
<1>3. CASE AnnounceFound
  BY <1>3 DEF AnnounceFound, IInv, TypeOK
<1>4. CASE OpenTarget
  BY <1>4 DEF OpenTarget, IInv, TypeOK
<1>5. CASE AuthCmpl
  BY <1>5 DEF AuthCmpl, IInv, TypeOK
<1> QED
  BY <1>1, <1>2, <1>3, <1>4, <1>5 DEF GapEvent

\* A GATT event keeps the session invariant.
LEMMA GattSession ==
  ASSUME IInv, GattEvent
  PROVE  SessionInv'
<1> USE DEF SessionInv, DownIsClean, BtcInv, UpInv, OrderInv, StateIsBacked,
            HandshakeUsesThisLink, Handshaking, HasRequest,
            client, gatt, keys, scan, gap, device
<1>1. CASE Connected
  BY <1>1 DEF Connected, IInv, TypeOK
<1>2. CASE Disconnected
  BY <1>2 DEF Disconnected, ReportDown, IInv, TypeOK
<1>3. CASE ClearSession
  BY <1>3 DEF ClearSession, ClearHandles, ClearDiscovery, IInv, TypeOK
<1>4. ASSUME NEW tuya \in BOOLEAN, SearchRes(tuya)
      PROVE  SessionInv'
  BY <1>4 DEF SearchRes, Room, IInv, TypeOK
<1>5. CASE SearchCmpl
  <2>1. /\ g_write_handle' \in {g_write_handle, conn}
        /\ g_notify_handle' \in {g_notify_handle, conn}
        /\ link # "up" =>
              g_write_handle' = g_write_handle /\ g_notify_handle' = g_notify_handle
    BY <1>5 DEF SearchCmpl, MayFind
  <2>2. ccc_pending' => link = "up"
    BY <1>5 DEF SearchCmpl
  <2>3. DownIsClean' /\ BtcInv'
    BY <1>5, <2>1, <2>2 DEF SearchCmpl, IInv
  <2>4. UpInv' /\ OrderInv'
    BY <1>5, <2>1, <2>2 DEF SearchCmpl, IInv
  <2>5. StateIsBacked' /\ HandshakeUsesThisLink'
    BY <1>5, <2>1 DEF SearchCmpl, IInv
  <2> QED
    BY <2>3, <2>4, <2>5
<1>6. CASE WriteDescr
  BY <1>6 DEF WriteDescr, IInv, TypeOK
<1>7. CASE SendDeviceInfo
  BY <1>7 DEF SendDeviceInfo, IInv, TypeOK
<1>8. CASE NotifyInfo
  BY <1>8 DEF NotifyInfo, Asked, SetSessionKey, IInv, TypeOK
<1>9. CASE SendPair
  BY <1>9 DEF SendPair, IInv, TypeOK
<1>10. CASE NotifyPair
  BY <1>10 DEF NotifyPair, Asked, IInv, TypeOK
<1>11. CASE NotifyRejected
  BY <1>11 DEF NotifyRejected, Asked, IInv, TypeOK
<1>12. CASE BuildFails
  BY <1>12 DEF BuildFails, IInv, TypeOK
<1> QED
  BY <1>1, <1>2, <1>3, <1>4, <1>5, <1>6, <1>7, <1>8, <1>9, <1>10, <1>11, <1>12
  DEF GattEvent

\* The invariant is inductive.
LEMMA NextInv == IInv /\ [Next]_vars => IInv'
<1> SUFFICES ASSUME IInv, [Next]_vars PROVE IInv'
  OBVIOUS
<1>1. TypeOK'
  BY NextType DEF IInv
<1>2. ASSUME NEW t \in Apps, AppStep(t) PROVE SessionInv'
  BY <1>2, CallSession
<1>3. ASSUME GapEvent PROVE SessionInv'
  BY <1>3, GapSession
<1>4. ASSUME GattEvent PROVE SessionInv'
  BY <1>4, GattSession
<1>5. ASSUME UNCHANGED vars PROVE SessionInv'
  BY <1>5 DEF vars, client, gap, scan, device, IInv, SessionInv, DownIsClean,
              BtcInv, UpInv, OrderInv, StateIsBacked, HandshakeUsesThisLink,
              Handshaking, HasRequest
<1> QED
  BY <1>1, <1>2, <1>3, <1>4, <1>5 DEF Next, IInv

\* The inductive invariant holds in every reachable state.
THEOREM Invariance == Spec => []IInv
<1>1. Init => IInv
  BY InitType, InitSession DEF IInv
<1> QED
  BY <1>1, NextInv, PTL DEF Spec

\* A public state that claims a link or a session is backed by it (set_state and
\* the event handlers of tuya_ble_client.c).
THEOREM StateBacked == Spec => []StateIsBacked
<1>1. IInv => StateIsBacked
  BY DEF IInv, SessionInv
<1> QED
  BY <1>1, Invariance, PTL

\* Requests use the handle and the key of the link they are sent on
\* (send_device_info_request, send_pair_request).
THEOREM HandshakeOnThisLink == Spec => []HandshakeUsesThisLink
<1>1. IInv => HandshakeUsesThisLink
  BY DEF IInv, SessionInv
<1> QED
  BY <1>1, Invariance, PTL

\* Nothing of a session survives its link (the DISCONNECT handler).
THEOREM NothingLeft == Spec => []NoLeftovers
<1>1. IInv => NoLeftovers
  BY DEF IInv, SessionInv, DownIsClean, NoLeftovers
<1> QED
  BY <1>1, Invariance, PTL
-----------------------------------------------------------------------------
(* Refinement: TuyaBleClient implements BleLifecycle.                      *)

\* A call announces a scan, gives up, or changes nothing the life cycle shows.
LEMMA CallRefines ==
  ASSUME IInv, NEW t \in Apps, AppStep(t)
  PROVE  [Lifecycle!Next]_(Lifecycle!vars)
<1> USE DEF client, gatt, keys, scan, gap, device, Phase, LinkSeen, Lifecycle!vars
<1> USE DEF IInv, TypeOK, SessionInv, DownIsClean, BtcInv, UpInv, OrderInv, HasRequest
<1>1. ConnectCheck(t) => UNCHANGED Lifecycle!vars
  BY DEF ConnectCheck
<1>2. ConnectScan(t) => Lifecycle!Seek
  BY DEF ConnectScan, Lifecycle!Seek
<1>3. DisconnectClose(t) => UNCHANGED Lifecycle!vars
  BY DEF DisconnectClose
<1>4. DisconnectSet(t) => Lifecycle!GiveUp
  BY DEF DisconnectSet, Lifecycle!GiveUp
<1>5. StopClose(t) => UNCHANGED Lifecycle!vars
  BY DEF StopClose
<1>6. Resume(t) => UNCHANGED Lifecycle!vars
  BY DEF Resume
<1> QED
  BY <1>1, <1>2, <1>3, <1>4, <1>5, <1>6 DEF AppStep, Lifecycle!Next

\* GAP events: the device is met, CONNECTED is announced, its link is opened or refused.
LEMMA GapRefines ==
  ASSUME IInv, GapEvent
  PROVE  [Lifecycle!Next]_(Lifecycle!vars)
<1> USE DEF client, gatt, keys, scan, gap, device, Phase, LinkSeen, Lifecycle!vars
<1> USE DEF IInv, TypeOK, SessionInv, DownIsClean, BtcInv, UpInv, OrderInv, HasRequest
<1>1. ScanParamsSet => UNCHANGED Lifecycle!vars
  BY DEF ScanParamsSet
<1>2. ScanResult => Lifecycle!Sight
  BY DEF ScanResult, Lifecycle!Sight
<1>3. AnnounceFound => Lifecycle!Found
  BY DEF AnnounceFound, Lifecycle!Found
<1>4. OpenTarget => \/ Lifecycle!OpenTarget \/ Lifecycle!OpenRefused
                    \/ UNCHANGED Lifecycle!vars
  BY DEF OpenTarget, Lifecycle!OpenTarget, Lifecycle!OpenRefused
<1>5. AuthCmpl => UNCHANGED Lifecycle!vars
  BY DEF AuthCmpl
<1> QED
  BY <1>1, <1>2, <1>3, <1>4, <1>5 DEF GapEvent, Lifecycle!Next

\* GATT events: the link comes and goes, and on a link that is up the
\* handshake goes one step on.
LEMMA GattRefines ==
  ASSUME IInv, GattEvent
  PROVE  [Lifecycle!Next]_(Lifecycle!vars)
<1> USE DEF client, gatt, keys, scan, gap, device, Phase, LinkSeen, Lifecycle!vars
<1> USE DEF IInv, TypeOK, SessionInv, DownIsClean, BtcInv, UpInv, OrderInv, HasRequest
<1>1. Connected => Lifecycle!LinkUp
  BY DEF Connected, Lifecycle!LinkUp
<1>2. Disconnected => Lifecycle!LinkDown
  BY DEF Disconnected, Lifecycle!LinkDown, ReportDown
<1>3. ClearSession => UNCHANGED Lifecycle!vars
  BY DEF ClearSession, ClearHandles, ClearDiscovery
<1>4. ASSUME NEW tuya \in BOOLEAN, SearchRes(tuya)
      PROVE  UNCHANGED Lifecycle!vars
  BY <1>4 DEF SearchRes, Room
<1>5. SearchCmpl => UNCHANGED Lifecycle!vars
  BY DEF SearchCmpl
<1>6. WriteDescr => UNCHANGED Lifecycle!vars
  BY DEF WriteDescr
<1>7. SendDeviceInfo => Lifecycle!AskInfo
  <2> SUFFICES ASSUME SendDeviceInfo PROVE Lifecycle!AskInfo
    OBVIOUS
  <2>1. requests = {} /\ ~g_has_session_key /\ link = "up"
    BY DEF SendDeviceInfo
  <2>2. requests' = {[kind |-> "info", handle |-> g_write_handle, key |-> 0]}
    BY <2>1 DEF SendDeviceInfo
  <2>3. Phase = "none" /\ LinkSeen = "up"
    BY <2>1
  <2>4. Phase' = "info" /\ LinkSeen' = "up"
    <3>1. HasRequest("info")' /\ ~HasRequest("pair")'
      BY <2>2
    <3> QED
      BY <2>1, <3>1 DEF SendDeviceInfo
  <2> QED
    BY <2>3, <2>4 DEF SendDeviceInfo, Lifecycle!AskInfo
<1>8. NotifyInfo => Lifecycle!DeriveKey
  BY DEF NotifyInfo, Lifecycle!DeriveKey, Asked, SetSessionKey
<1>9. SendPair => Lifecycle!AskPair
  BY DEF SendPair, Lifecycle!AskPair
<1>10. NotifyPair => Lifecycle!Paired
  BY DEF NotifyPair, Lifecycle!Paired, Asked
<1>11. NotifyRejected => UNCHANGED Lifecycle!vars
  BY DEF NotifyRejected, Asked
<1>12. BuildFails => UNCHANGED Lifecycle!vars
  BY DEF BuildFails
<1> QED
  BY <1>1, <1>2, <1>3, <1>4, <1>5, <1>6, <1>7, <1>8, <1>9, <1>10, <1>11, <1>12
  DEF GattEvent, Lifecycle!Next

\* Every step of the client is a step of the life cycle or leaves it alone.
LEMMA NextRefines == IInv /\ [Next]_vars => [Lifecycle!Next]_(Lifecycle!vars)
<1> SUFFICES ASSUME IInv, [Next]_vars PROVE [Lifecycle!Next]_(Lifecycle!vars)
  OBVIOUS
<1>1. ASSUME NEW t \in Apps, AppStep(t) PROVE [Lifecycle!Next]_(Lifecycle!vars)
  BY <1>1, CallRefines
<1>2. CASE GapEvent
  BY <1>2, GapRefines
<1>3. CASE GattEvent
  BY <1>3, GattRefines
<1>4. CASE UNCHANGED vars
  BY <1>4 DEF vars, client, gap, scan, device, Phase, LinkSeen, Lifecycle!vars
<1> QED
  BY <1>1, <1>2, <1>3, <1>4 DEF Next

\* READY is reached only through the three handshake steps, in order, on the
\* link that is up, for any number of tasks, services, links and faults.
THEOREM Refinement == Spec => LifecycleSpec
<1>1. Init => Lifecycle!Init
  BY DEF Init, Lifecycle!Init, Phase, LinkSeen
<1> QED
  BY <1>1, Invariance, NextRefines, PTL DEF Spec, LifecycleSpec, Lifecycle!Spec
=============================================================================
