# Verification of hms-esp-tuya-ble

TLA+ specifications of the firmware in `src/main`: an ESP32 that bridges a
Tuya BLE circuit breaker to MQTT (Home Assistant) and a web dashboard. TLC
checks them on small instances; TLAPS proves the central results for every
value of the constants.

Line references are to `src/main/...` at the commit this directory sits beside.

## 1. The system

| Component | Source | State | Operations |
|---|---|---|---|
| BLE client, connection and handshake | `tuya_ble_client.c` | `g_state`, `g_ble_stopped`, handles, service list, session key | connect, disconnect, stop, resume; GAP events (scan parameters set, scan result, authentication); GATT events (connect, disconnect, search, CCC write, notify) |
| Notification reassembly and data points | `tuya_ble_client.c:490-517`, `:749-834` | `g_response_buffer`, `g_expected_response_len`, `g_receiving_response` | one notification; the data points of an answer, each BOOL up to topic and page |
| Command channel | `tuya_ble_client.c:273-355`, `:531-574` | `g_seq_num`, session key, write handle | `tuya_ble_send_switch_command`, the two handshake requests |
| Packets | `tuya_packet.c` | none | build, split, parse, CRC16, varint |
| Cryptography | `tuya_crypto.c` | none | MD5, AES-CBC, key derivation |
| Bridge controller | `main.c` | `g_pending_command(_on)`, `g_manual_disconnect`, `g_reconnect_delay_ms`, reconnect timer, `g_switch_state` | switch command, state callback, timer callback, web connect and disconnect |
| MQTT | `mqtt_ha.c` | `s_connected` | broker events, publish availability and state |
| Web server | `web_server.c` | log ring, last switch state | pages, buttons, log |
| UDP logger | `udp_logger.c` | socket | log hook |
| WiFi and boot | `main.c` | event group | `app_main`, event handler |

**Who calls whom, and on which task.** There is no lock anywhere; every global
is shared by plain reads and writes.

- The *web* task (httpd) and the *mqtt* task call `send_switch_command`; the web
  task also connects and disconnects. `app_main` makes the first connect, the
  *timer* task (esp_timer) the later ones. All of these call into the BLE client.
- The *btc* task of Bluedroid runs the GAP and GATT handlers one at a time. A
  handler may sleep, and then later events wait.
- `set_state` calls `tuya_state_callback` in the task that changed the state:
  btc for READY and for the end of a link, web for a disconnect by button. The
  callback publishes the availability, takes the pending command and starts
  the reconnect timer.

**What is hard.** Check-then-act on `g_state`, the pending pair, the flag
and the timer by five tasks; a DISCONNECT handler that reports first and
clears afterwards; events of a link that is gone; a link being opened that
nobody can close; callbacks of two tasks whose publications overtake each
other; a device that refuses silently; answers in fragments that a link may
cut short; requests of three tasks in fragments on one characteristic; servers
that take commands before Bluetooth is up; a log ring without a lock. `PROJECT.json` lists each hazard at its line, with the property
that covers it or why none does yet.

**What makes the components correct.** Client: the public state never claims
more than link, key and handles support; nothing of a link is used on the next
one; READY is reached only through the whole handshake; every attempt ends.
Packets: what was split and framed is what the other side reads; nothing is
written past a packet or past the array of packets. Command channel: a message is
lost only to overlapping senders, a lost link or an error of its own building or
writing. Reassembly: what is processed
is exactly one message, and users see the last value that was reported. Bridge: a
command is delivered at most once and does not stay queued; the timer is not lost
and its delay is bounded; the retained availability agrees with the link. Boot: it
ends, WiFi is tried again, and the bridge searches. Log ring: it stays within its
bounds and heals after a race.

## 2. The modules

`BleLifecycle` is the abstract specification of the client: the public state,
the link, and how far the handshake has gone. `TuyaBleClient` is the detailed one
and implements it (`LifecycleSpec`, with the mapping `LinkSeen`, `Phase`, and
`sighted` for the handler that is between lines 876 and 903).
`BridgeController` is composed with `BleLifecycle` (`Ble == INSTANCE
BleLifecycle`), so that what it is checked against is what the client was proved
to do. Its `SendWrite` is one step that may or may not reach the device;
`CommandChannel` is that step in detail, with every other sender of a request, and
`TuyaPacket` is where the fragments `CommandChannel` counts come from.
`NotifyReassembly` is the NOTIFY handler; `SwitchReports` extends it with the data
points of `process_response` and what becomes of their values. (Handshake answers
are `NotifyInfo`, `NotifyPair` and `NotifyRejected` of `TuyaBleClient`.) `Boot` is
what happens before `BridgeController` starts. `LogRing` stands by itself: nothing
else reads the ring.

### TuyaBleClient

Globals keep their names. Handles and the session key are abstracted to the number
of the link they were obtained on, which is what the properties tell apart.
`app[t]` is the call an application task is in, `btc` the handler that sleeps.
A call is split where another task can get in between:

| Code | Actions |
|---|---|
| `tuya_ble_client_connect` | `ConnectCheck` (early returns), `ConnectScan` |
| `tuya_ble_client_disconnect`, `_stop`, `_resume` | `DisconnectClose`/`StopClose`, `DisconnectSet`; `Resume` |
| `gap_event_handler` | `ScanParamsSet`, `ScanResult` (test of CONNECTING, `:876`) + `AnnounceFound` (write of CONNECTED, `:903`) + `OpenTarget`, `AuthCmpl` |
| CONNECT, DISCONNECT | `Connected`; `Disconnected` + `ClearSession` |
| SEARCH_RES, SEARCH_CMPL, WRITE_DESCR | `SearchRes`, `SearchCmpl`, `WriteDescr` + `SendDeviceInfo` or `BuildFails` |
| NOTIFY, `process_response` | `NotifyInfo` + `SendPair` or `BuildFails`, `NotifyPair`, `NotifyRejected` |

`link`, `closing`, `scanning`, `searching`, `ccc_pending`, `requests`, `answered`
are the Bluetooth stack and the device, modelled from how the handlers use
them: an event may be delivered at any moment at which what happened before
allows it. `Faults` selects what may fail. Services are listed as "the Tuya
service or another one"; the device answers each kind of request once per link.

### BridgeController

Each task has a program counter `pc[t]`; a step is what the code does between two
accesses to something shared. `send_switch_command` is `Request`, `QueueFlag`,
`QueueValue`, `Override`, then the call it makes; `tuya_state_callback` is
`PublishDown`, `MayRetry`, `Arm`, `Double`, `Cap`, or `PublishReady`,
`TakePending`, `TakeValue`, `SendCheck`, `SendWrite`. `Arm` is stop and start of
the timer together: however two tasks mix them, the timer ends up started.
`availability` is what the broker retains. `asked` and `sent` count commands for
the properties; `renewed` records that MQTT_EVENT_CONNECTED published its *offline*
(`mqtt_ha.c:99`) after the bridge became READY. Not in this module: `OpenRefused` of the life cycle (a refused
`gattc_open` wedges the client like a refused `set_scan_params`) and the
stop call, which `main.c` never makes.

### NotifyReassembly

One action per way through the NOTIFY handler (`NotifyFirst`, `NotifyMore`,
`NotifyOverflow`, `NotifyStray`), all ending in `Finish`. A byte is its message
and its place in it. The device sends one message at a time; a link keeps the order
and loses nothing until it ends, and its end leaves the handler's globals as they
are, as the DISCONNECT handler does. `MaxFrame <= BufSize`, because a notification
is shorter than the negotiated MTU of at most 517 bytes less ATT and fragment
headers, and the buffer has 512.

### SwitchReports

The Bluetooth task handles the next notification when it is done with the last
(`Notified`). A complete answer is the data points its message was sent with;
`ReadBool`, `ReadOther` and `ReadCut` are the branches of the loop at
`tuya_ble_client.c:495-515`. A BOOL goes through `tuya_switch_callback` in three
steps (`main.c:216-218`), between which the broker connection may come or go. `missed`
records that the broker was away when a value came.

### TuyaPacket

One request: `BuildRaw` (with a builder's data length), `Encrypt` or
`EncryptFails`, then one `SplitStep` per turn of the loop and `SplitEnd`. A byte of the
encrypted message is named by its place, the bytes of the headers are those the
code writes. `Parse` is the header parser of the NOTIFY handler, with which the
device's answers are read: the framing is the same in both directions, so the
property `RoundTrip` checks writer and reader against each other. The CRC and the
content of the fields are left out.

### CommandChannel

`pc[t]` is where a task is in a request, from the two checks over the load and
store of `g_seq_num` to the fragments. The link may end, be closed and be made again
between any two steps. Building may fail (`BuildFails`), and so may any write, on a
link that is up or not: `tuya_ble_send_switch_command` gives up (`WriteRefused`,
`:565-568`), the handshake loops log it and go on (`WriteLost`, `:306-308` and
`:347-349`); without a link or a handle a fragment may also be lost without an error.
The breaker puts fragments together as the client does and opens a message only with
the key of its link; that is external. `clear[t]` says that every fragment of a message
so far was written without an error on the link the message began on, and no other
sender's came in between.

### Boot

`app_main` from `wifi_init_sta` on, one action per call that matters to others; `Stop` is
every early return. The WiFi driver posts events, `wifi_event_handler` takes them
in order. Web and MQTT tasks may call `tuya_ble_client_connect` from the moment their
server was started. `early` records that one did so before the GAP callback was
registered.

### LogRing

One step per access to `g_log_ring` (a line is two halves), `g_log_head`, `g_log_count`:
`g_log_head = (g_log_head + 1) % N` is `LoadHead` and `StoreHead`; the test and
increment of the count are one load and one store, as one register serves both. The
page loads the count for each test and each comma. `tail` is what was added without
a race since the last one.

## 3. Runs

Passing runs:

| Run | Question | Bounds | States |
|---|---|---|---|
| `client_safety` | Is the state backed by the link; are handles, keys and requests of this link; is nothing left over; is `BleLifecycle` implemented? | 2 tasks, all calls, all faults, 2 services, 3 links | 178 000 |
| `client_attempts` | Does every attempt end in READY or DISCONNECTED? | 2 tasks, calls of `main.c`, failing builds, faults of device and radio, 2 links | 46 000 |
| `reassembly` | Does `process_response` get exactly the whole messages that fit; do page and state topic show the last value reported? | 3 messages of 1 to 7 bytes, buffer 4, fragments of 1-2, up to 3 data points | 101 000 |
| `bridge_safety` | Types; is a command sent at most once? | everything, 1 command | 4 130 000 |
| `bridge_online` | Is *online* retained only with a complete handshake; what leaves a READY bridge offline; is the delay within its bounds? | a broker that comes and goes, 1 command, without the disconnect button | 1 240 000 |
| `bridge_progress` | Does a bridge that may reconnect try again; is the pending slot emptied in the end? | one user task (web) | 120 000 |
| `packet` | Are fragments full, within the MTU, without gap or overlap; does the parser read them back; what is refused? | the sizes of the code (MTU 20, 10 packets, buffers 256 and 512), data of 0 to 250 bytes | 2 900 |
| `channel` | What costs a message; may a command disturb a handshake; when do numbers repeat? | 2 users and btc, 2 links, 2 commands, requests of 2-3 fragments | 4 140 000 |
| `boot` | Does boot end, WiFi recover, the bridge search? | none: the state space is finite | 1 500 |
| `log_ring` | Do head and count stay in range; does the ring heal; is the page of a full ring well formed? | 2 tasks, 5 lines, ring of 2 | 8 450 000 |

Two links are what it takes for anything to be stale; the third shows that the
second is not special. Two application tasks are enough for every check-then-act
race on the client, since a call has two steps. One command meets
the READY callback, the slot and the direct path in every order; the proof of
`SentAtMostOnce` covers any number. The delay bounds 1..3 let doubling overshoot
(1, 2, 4 > 3). A buffer of 4 bytes is met exactly, missed by one and
exceeded. `packet` needs no smaller instance: data lengths up to 250 pass the 83
from which the announced length takes two varint bytes, the 147 from which ten packets
are too few and the 243 from which `sizeof(raw_packet)` is. Two fragments are the fewest that
can be mixed, so they stand for the five of PAIR in `channel`; its two commands come
from two users, from one user and the queue, or on two links. A ring of two slots is
filled, overwritten and, after a race, filled again by five lines.

The bounds are `MaxConns`, `MaxScanReqs` (client), `MaxAsks` (bridge), `MaxMsgs`
(reassembly), `MaxLinks`, `MaxCommands` (channel) and `MaxLines` (log ring).
`CHECK_DEADLOCK FALSE` is set where the system may stop: where the messages, commands
or lines run out (`reassembly`, `channel`, `log_ring`), where a request is built
(`packet`), where boot has ended (`boot`), and in violation runs whose instance wedges or
is too small to go on.

Where a property holds only for part of the interface, the passing run says for
which. Two runs show what the code does against its own comments and documents:

| Run | Property | What the code does |
|---|---|---|
| `bridge_torn` | `SentAsAsked` | flag of one command, value of another |
| `boot_stuck` | `BootSearches` | a command before the client is initialised leaves CONNECTING without a scan, until somebody presses disconnect (a button `Boot` leaves out) |

`PROJECT.json` quotes the lines they disagree with. Further behaviours met in the
models, not kept as runs of their own:

- Bridge. A command queued just after the READY callback looked at the slot stays
  queued while the bridge is READY (`main.c:183`, against
  `docs/TECHNICAL_OVERVIEW.md:214`). After a broker reconnect a READY bridge stays
  offline (`mqtt_ha.c:99`, against `README.md:150`), and its state is not published
  again. A web disconnect between the state change and the publication of READY leaves
  *online* retained for a bridge that is down (`main.c:198`). The timer callback may
  connect just after the user's disconnect (`main.c:154`). A command of the MQTT task
  between `main.c:245` and `:246` leaves a bridge that is down, may reconnect and has no
  timer. There is no idle timer (`main.c:351`, against `docs/TECHNICAL_OVERVIEW.md:215`).
- Client. disconnect, connect and a scan result while a link is being opened lead to a
  second `gattc_open` (`tuya_ble_client.c:905`, against the comment at `:903`). A disconnect
  or stop while a scan result is handled is overwritten: DISCONNECTED becomes CONNECTED
  and the device is opened (`:903`). A refused
  `set_scan_params` leaves CONNECTING until somebody disconnects (`:1092`). A link that was being opened
  comes up after `tuya_ble_client_stop` (`:584` does not look at `g_ble_stopped`). A
  rejected answer leaves the client in the handshake as long as the device keeps the
  link, there is no timeout (`:484`). READY needs no SMP (`:601`, against
  `docs/TECHNICAL_OVERVIEW.md:298`).
- Command channel. Fragments of two senders mix, and the breaker gets neither message
  (`:553`). Two requests may carry one number (`:548`, against "increments with each
  packet", `tuya_packet.h:31`).
- Reports. Any BOOL data point is taken for the switch (`main.c:214` ignores `dp_id`).
- Log. While the ring is not full, a line logged between the test of the count and the
  comma makes a page that is no JSON array (`web_server.c:120`); lines of two tasks
  mix in a slot; a task that holds an old count makes a full ring count as less than
  full until the next line (`:50`); the skip of an ANSI sequence steps over the end of
  a line that is cut off inside one (`:32`). The UDP hook uses one `va_list` twice
  (`udp_logger.c:46-54`, against `docs/TECHNICAL_OVERVIEW.md:302`).

**Fairness.** `StackFairness`: an application task that is in a call goes on, the
handlers that sleep wake up, and the stack reports the end of what it was asked
for (Bluedroid completes or times out every scan request, open, search and write).
`DeviceInRange`: a running scan meets the device. `DeviceDropsLink`: the
breaker ends a link by itself after about 30 s (`docs/TECHNICAL_OVERVIEW.md:304`);
`client_attempts` needs it because the client has no timeout of its own.
`TaskFairness` (bridge): FreeRTOS gives every task the processor and no call waits
for another task; an armed timer fires. `DeviceFairness`: scanning, opening and
the 30 s drop as above; strong fairness on the steps of the handshake says that
trying over and over succeeds some time, without which no queued command
could be promised anything. `Boot`: weak fairness on `app_main`, the event task, a call of
connect that has begun and the completion event of the scan parameters; strong
fairness on `Associate`, because an attempt may fail any number of times but an access
point that is tried again and again takes the station some time. Nothing makes a user
give a command.

## 4. Proofs

`TuyaBleClientProofs`, for every set of tasks, calls and faults and all bounds, from
`OpsAssumption`, `FaultsAssumption`, `BoundsAssumption` only:

- `TypeCorrect`: `Spec => []TypeOK`.
- `Invariance`: the inductive invariant `IInv`. The properties are not inductive:
  that PAIRING implies a key of this link needs to know that a sleeping handler
  (`btc = "key"`) still has its link, that the search, the CCC write and the
  first request exclude each other (`OrderInv`), and that a link that is down
  has been cleared or is about to be (`DownIsClean`). Its parts are `DownIsClean`,
  `BtcInv`, `UpInv`, `OrderInv`, `StateIsBacked`, `HandshakeUsesThisLink`.
- `StateBacked`, `HandshakeOnThisLink`, `NothingLeft`: consequences of `IInv`.
- `Refinement`: `Spec => LifecycleSpec`, with one lemma per group of actions that
  names the step of the life cycle each action is. The life cycle has the two steps of
  a scan result, `Sight` and `Found`: CONNECTED may follow any state another task wrote
  in between.

`BridgeControllerProofs`, from `DelayAssumption` and `AsksAssumption`:

- `TypeCorrect`. The bound of `g_reconnect_delay` is the interesting part: web and
  btc can both be between doubling and capping. `DelayInv` says that the delay
  has been doubled once more for each task that has still to cap it, and `PcInv`
  which tasks can be there at all.
- `SentAtMostOnce`: `Spec => []AtMostOnce`. `Conserved`: commands sent, in the
  slot and in the hands of a task together never exceed the commands asked for.
  A step moves a token or drops it; lemma `Handing` says so once for all of them.
- `DelayBounded`: without the disconnect button, `Spec => []BackoffBounded`,
  because then only btc arms the timer.
- `OnlineIsLinked`: without the disconnect button, `Spec => []OnlineMeansLinked`. The
  broker may drop and come back. `LinkKnown` ties state,
  link and phase together for each place the Bluetooth task can be at; `OnlineBacked`
  says that a retained online has a complete handshake behind it, or the Bluetooth task
  on its way to say offline, and that a broker that hears nothing holds offline.
- `ReadyIsOnline`: without the disconnect button, `Spec => []OnlineWhenReady`, with a
  broker that comes and goes and whose first connection may come after READY. After
  such a connection a READY bridge does stay offline (section 3); `OnlineWhenReady`
  says that this announcement is the only cause. `ReadyTold` adds to `OnlineInv` that a
  READY nobody announced a broker connection after is told, about to be told, or about
  to be taken back. The hypothesis is needed: with the button two tasks publish at once.

`TuyaPacketProofs`, for every MTU above 4, up to 127 packets, every buffer size up to
16383 and every set of data lengths (`SizesAssumption`, `DataAssumption`):

- `TypeCorrect`, `Fits`, `Partitioned`, `Refusals`. The inductive invariant `IInv`
  adds to `TypeOK` and `FragmentsFit`: `Stage` (what each stage of the builder has
  set), `Placed` (after n full packets, `pos` is what n packets hold, the first having
  less room) and `Chain` (each packet begins where the last ended). `Placed` is what
  `RefusesOnlyTooLong` needs: a rest after `MaxPackets` packets means that the message
  exceeds their capacity, and the other way round.
- `OwnRequests`: with `MTU = 20` and `MaxPackets >= 5`, the sizes of the firmware, `Spec
  => []RequestsFit`. It needs the other bound on the number of packets, `Fewest`: no
  packet is begun while the one before it has room.
- `ReadsBack`: `Spec => []RoundTrip`, what the parser of the NOTIFY handler makes of the
  packets, for every MTU and data length. `Headed` says which header each packet has.
  The two recursive functions are eliminated by hand. `ReadExists` shows that the
  recursion of `ReadVarint` has a solution (a place where it has none would be a least
  one from the end of the value), so `ReadOne` and `ReadTwo` can say what it reads;
  `JoinedIs` gives the solution for the joined packets, the first sections of the
  message, and shows that there is no other.

`SwitchReportsProofs`, for every buffer size, fragment size and set of message
lengths (`SizesAssumption`, `LengthsAssumption`):

- `Invariant`: the inductive invariant of `NotifyReassembly`. `BufferOfMessage` says that
  in the middle of a message that fits, or does not fit yet, the buffer is exactly its
  bytes so far, and that a handler that stopped receiving has given the message up
  because it is too long. `HandedOn` and `InOrder` are about what was processed.
- `OnlyWholeMessages`, `EveryMessage`: for `SwitchReports`, whose every step is a step or
  a stutter of `NotifyReassembly` (lemma `ReportsStep`).
- `ReportsTypeCorrect`, `ShowsLast`, `RetainsLast`: from the invariant `RInv`, which adds
  to that of the reassembly what the callback in hand will still do. `ShowsLastReport`
  is about the moment the task has nothing left to do; in between, `WillShowLast` and
  `WillRetainLast` say what page and topic hold once the remaining data points are
  read, which each data point preserves. `InCallback` says where the callback is, and
  `CutWasSent` that a message cut short was begun and is not the one still coming in.

`CommandChannelProofs`, for every set of senders and any number of links, commands and
fragments per message (`FragmentsAssumption`, `TasksAssumption`, `BoundsAssumption`):

- `Invariant`: the inductive invariant. `Linked` and `KeyOfLink` tie the stage of the
  Bluetooth task, the public state and the session key to the link. `Checked` is what
  the READY check buys: a command past it, while a handshake is under way, began on an
  earlier link. `Keyed` and `Held` follow a message nothing came between: it is
  encrypted with the key of its link, and the breaker holds exactly its fragments so
  far. `Numbered` says that without a race the numbers under way are distinct, below the
  counter and not used on this link.
- `TypeCorrect`, `CarriedOut`, `Undisturbed`, `NumbersUnique`: consequences of it.

`LogRingProofs`, for every number of tasks and every ring size (`RingAssumption`):

- `TypeCorrect`. With no lock, head and count stay in range because each task stores
  what it computed from a value in range (`Adding`).
- `FullPages`: once full, the ring stays full unless a task still holds a count it
  loaded before (`StaysFull`); `Paging` says how far the page is.
- `QuietPages`: `Spec => []PageIsTheTail`. `InRing` says that the slots behind the head
  hold the last lines of the tail, whole, one slot fewer while a task writes the next;
  `Meeting` and `Alone` that a task that logs alone holds the head and count of the ring;
  `Counted` that the count never falls below the tail, and is exact if there never was a
  race; `Reading` that a page in progress agrees with the ring while nobody disturbs it.

`BootProofs`, which needs no assumption:

- `TypeCorrect` and `BitFollowsStation`: `Spec => []BitIsTheStation`. `WifiInv` lists how
  station, bit and the queue of events can be out of step; `IInv` also has `StageInv`,
  what each stage of `app_main` has done.
- `Searches`: the safety half of `SearchesUnlessEarly`. `SearchInv`: nobody searches
  before the client can, and a search that was announced was started.

Only model-checked: everything under fairness (`AttemptResolves`, `AutoReconnect`,
`QueueDrains`, `KeepsTrying`, `BootFinishes`, `SearchesUnlessEarly`), because liveness
and `ENABLED` are out of the prover's reach, and the two runs that expect a violation.
Every invariant and action property a passing run checks is also a theorem, some under
the hypothesis on `Ops` named above, where the run has the same or a narrower one.

## 5. Not modelled

MD5, AES and the CRC (pure computation: a key is named by the link of its srand), the
contents of request fields, log formatting, the HTML and status pages, the MQTT
discovery message, the UDP logger, build files. `smp_watchdog_task` and
`send_security_handshake` are not reached from any live code. Compiler reordering and
torn words are not modelled: the shared scalars are booleans, enums and aligned words.

## 6. Plan

Done: the modules above with their runs, and the proofs of section 4. Next:

1. `CommandChannel` shown to implement what `SendWrite` of `BridgeController` assumes: a
   command that was given is delivered at most once, on the link it was given for.
2. For each liveness property the safety it rests on as a theorem, as `Searches` is
   for `SearchesUnlessEarly`.
