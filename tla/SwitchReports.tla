---------------------------- MODULE SwitchReports ----------------------------
(***************************************************************************)
(* From the notifications of the breaker to what its users see: the NOTIFY *)
(* handler hands each whole answer to process_response, which goes through *)
(* its data points and, for each BOOL, calls tuya_switch_callback of        *)
(* main.c.  That stores the value, publishes it and tells the web server,   *)
(* one after the other in the Bluetooth task, while the broker connection  *)
(* comes and goes.                                                         *)
(***************************************************************************)
EXTENDS NotifyReassembly

CONSTANT Messages   \* [total, dps]: the lengths and data points the device sends

\* A data point: a BOOL of one byte, any other that is complete, or one that
\* claims more bytes than the answer holds.
DP == {"on", "off", "other", "cut"}

ASSUME MessagesAssumption ==
    /\ Messages \subseteq [total : Lengths, dps : Seq(DP)]
    /\ Lengths = {m.total : m \in Messages}

VARIABLES
    sent_dps,           \* data points of each message the device began to send
    todo,               \* those of the answer in hand that are still to be read
    step,               \* where the Bluetooth task is: "read", "publish", "web"
    g_switch_state,     \* of main.c
    web_switch_state,   \* g_switch_state of web_server.c, which the page shows
    s_connected,        \* mqtt_ha.c
    retained,           \* what the broker holds on the state topic
    missed              \* a value was not published, the broker being away

reports == <<sent_dps, todo, step, g_switch_state, web_switch_state, s_connected,
             retained, missed>>
allvars == <<vars, reports>>

State == {"on", "off"}

ReportsTypeOK ==
    /\ TypeOK
    /\ sent_dps \in Seq(Seq(DP)) /\ Len(sent_dps) = Last
    /\ todo \in Seq(DP)
    /\ step \in {"read", "publish", "web"}
    /\ g_switch_state \in State /\ web_switch_state \in State
    /\ s_connected \in BOOLEAN
    /\ retained \in State \union {"none"}
    /\ missed \in BOOLEAN

ReportsInit ==
    /\ Init
    /\ sent_dps = <<>>
    /\ todo = <<>>
    /\ step = "read"
    /\ g_switch_state = "off" /\ web_switch_state = "off"
    /\ s_connected = FALSE
    /\ retained = "none"
    /\ missed = FALSE

-----------------------------------------------------------------------------

Send(m) ==
    /\ Begin(m.total)
    /\ sent_dps' = Append(sent_dps, m.dps)
    /\ UNCHANGED <<todo, step, g_switch_state, web_switch_state, s_connected,
                   retained, missed>>

LoseLink == LinkLost /\ UNCHANGED reports

\* The Bluetooth task takes the next notification when it is done with the last.
\* The data points of an answer that became complete are in the message it began
\* with.
Notified(n) ==
    /\ todo = <<>>
    /\ NotifyFirst(n) \/ NotifyMore(n) \/ NotifyOverflow(n) \/ NotifyStray(n)
    /\ todo' = IF processed' = processed THEN <<>>
               ELSE sent_dps[processed'[Len(processed')][1][1]]
    /\ UNCHANGED <<sent_dps, step, g_switch_state, web_switch_state, s_connected,
                   retained, missed>>

\* A BOOL is handed to the callback, which stores it first.
ReadBool ==
    /\ step = "read"
    /\ todo # <<>> /\ Head(todo) \in State
    /\ g_switch_state' = Head(todo)
    /\ step' = "publish"
    /\ UNCHANGED <<vars, sent_dps, todo, web_switch_state, s_connected, retained,
                   missed>>

\* Other types are logged and skipped.
ReadOther ==
    /\ step = "read"
    /\ todo # <<>> /\ Head(todo) = "other"
    /\ todo' = Tail(todo)
    /\ UNCHANGED <<vars, sent_dps, step, g_switch_state, web_switch_state, s_connected,
                   retained, missed>>

\* What is read after a data point whose value is cut off, and reading on.
AfterCutOn == Tail(todo)
AfterCut == <<>>

ReadCut ==
    /\ step = "read"
    /\ todo # <<>> /\ Head(todo) = "cut"
    /\ todo' = AfterCut
    /\ UNCHANGED <<vars, sent_dps, step, g_switch_state, web_switch_state, s_connected,
                   retained, missed>>

\* mqtt_ha_publish_state, and one that publishes a change only.
PublishedChange ==
    IF s_connected /\ Head(todo) # web_switch_state THEN Head(todo) ELSE retained
Published == IF s_connected THEN Head(todo) ELSE retained

PublishState ==
    /\ step = "publish"
    /\ retained' = Published
    /\ missed' = ~s_connected
    /\ step' = "web"
    /\ UNCHANGED <<vars, sent_dps, todo, g_switch_state, web_switch_state, s_connected>>

SetWebState ==
    /\ step = "web"
    /\ web_switch_state' = Head(todo)
    /\ todo' = Tail(todo)
    /\ step' = "read"
    /\ UNCHANGED <<vars, sent_dps, g_switch_state, s_connected, retained, missed>>

\* Neither handler of mqtt_ha.c touches the state topic.
BrokerConnected ==
    /\ ~s_connected
    /\ s_connected' = TRUE
    /\ UNCHANGED <<vars, sent_dps, todo, step, g_switch_state, web_switch_state,
                   retained, missed>>

BrokerDisconnected ==
    /\ s_connected
    /\ s_connected' = FALSE
    /\ UNCHANGED <<vars, sent_dps, todo, step, g_switch_state, web_switch_state,
                   retained, missed>>

ReportsNext ==
    \/ \E m \in Messages : Send(m)
    \/ LoseLink
    \/ \E n \in 1..MaxFrame : Notified(n)
    \/ ReadBool \/ ReadOther \/ ReadCut
    \/ PublishState \/ SetWebState
    \/ BrokerConnected \/ BrokerDisconnected

ReportsSpec == ReportsInit /\ [][ReportsNext]_allvars

-----------------------------------------------------------------------------
(* Properties.                                                             *)

\* The BOOLs of an answer up to the first data point that is cut off.
Bools(dps) ==
    LET cuts == {i \in DOMAIN dps : dps[i] = "cut"}
        good == {i \in DOMAIN dps : dps[i] \in State /\ \A c \in cuts : i < c}
    IN  [i \in good |-> dps[i]]

LastValue(f) == f[CHOOSE i \in DOMAIN f : \A j \in DOMAIN f : j <= i]

\* The messages that came through whole and report a value.
Telling ==
    {m \in DOMAIN totals :
        /\ m \notin cut /\ totals[m] <= BufSize /\ ~(sending /\ m = Last)
        /\ Bools(sent_dps[m]) # <<>>}

Reported ==
    IF Telling = {} THEN "off"
    ELSE LastValue(Bools(sent_dps[CHOOSE m \in Telling : \A l \in Telling : l <= m]))

\* When the Bluetooth task has nothing left to do, the page shows the last value of
\* the last answer that came through whole: links that ended in the middle of an
\* answer, answers too long for the buffer and data points that are cut off in
\* between change nothing.
ShowsLastReport == todo = <<>> => web_switch_state = Reported

\* ... and unless the broker was away when that value came, its state topic holds it.
RetainsLastReport ==
    todo = <<>> /\ Telling # {} /\ ~missed => retained = Reported
=============================================================================
