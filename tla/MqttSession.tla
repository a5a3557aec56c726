----------------------------- MODULE MqttSession -----------------------------
(***************************************************************************)
(* The broker session: MqttReconnect's ladder, the logic pass that creates *)
(* and destroys the client, the two latches through which the client's own *)
(* task reports to it, and the settings the Modbus task may change at any  *)
(* point of the pass.  What is published over a session is MqttPublisher.  *)
(*                                                                         *)
(* Time is not counted: a deadline of the ladder passes when DeadlinePasses*)
(* says so, so every delay the ladder can choose is covered.               *)
(***************************************************************************)
EXTENDS Naturals

CONSTANTS
    Changes         \* bound on how often the settings and the radio change

ASSUME ChangesAssumption == Changes \in Nat

VARIABLES
    \* NetSettings and the radio
    enabled,            \* mqttEnabled() and mqttConfigured()
    rev,                \* revision(): which settings they are
    wifi,               \* wifiManager.state() is Connected
    \* the logic task
    pc,                 \* where the pass is
    wanted,             \* mqttWanted, computed at the top of the pass
    clientUp,           \* mqttClientUp
    configuredRev,      \* mqttConfiguredRevision
    draft,              \* the settings begin() is about to be given
    \* MqttReconnect
    phase,              \* phase_
    due,                \* attemptDue_
    deadline,           \* the deadline of this phase has passed
    \* the client: its own task and the transport's flag
    client,             \* none, connecting, up, or waiting to connect again
    clientRev,          \* the settings it was created with
    subscribed,         \* this session is subscribed to the command topics
    raising,            \* the event its task is in the middle of reporting
    connectedFlag,      \* connected_
    upLatched,          \* mqttConnectLatched
    downLatched,        \* mqttDisconnectLatched
    changes             \* how many changes are left

settings == <<enabled, rev>>
ladder   == <<phase, due, deadline>>
session  == <<client, clientRev, subscribed>>
events   == <<raising, connectedFlag, upLatched, downLatched>>
owned    == <<clientUp, configuredRev, draft>>
vars     == <<settings, wifi, pc, wanted, owned, ladder, session, events, changes>>

Steps == {"top", "connect", "subscribe", "disconnect", "update", "stop", "ending",
          "attempt", "begin", "wifi"}

-----------------------------------------------------------------------------
(* MqttReconnect *)

GoTo(p, asks) == phase' = p /\ due' = asks /\ deadline' = FALSE

noteConnected == GoTo("connected", FALSE)
failOnce      == GoTo("waiting", FALSE)
reset         == GoTo("cold", FALSE)
beginAttempt  == GoTo("attempting", TRUE)

noteDisconnected ==
    IF phase \in {"attempting", "connected"} THEN failOnce ELSE UNCHANGED ladder

noteAttemptFailed == IF phase = "attempting" THEN failOnce ELSE UNCHANGED ladder

update ==
    \/ phase = "cold" /\ beginAttempt
    \/ phase = "waiting" /\ deadline /\ beginAttempt
    \/ phase = "attempting" /\ deadline /\ failOnce
    \/ /\ phase # "cold" /\ ~deadline
       /\ due' = FALSE /\ UNCHANGED <<phase, deadline>>

DeadlinePasses ==
    /\ phase \in {"waiting", "attempting"} /\ ~deadline
    /\ deadline' = TRUE
    /\ UNCHANGED <<settings, wifi, pc, wanted, owned, phase, due, session, events, changes>>

-----------------------------------------------------------------------------
(* The logic pass *)

Top ==
    /\ pc = "top" /\ pc' = "connect"
    /\ wanted' = (enabled /\ wifi)
    /\ UNCHANGED <<settings, wifi, owned, ladder, session, events, changes>>

\* Mutant of TakeConnect: a ladder that knows of a session takes no notice of another.
TakeConnectOnEdge ==
    /\ pc = "connect"
    /\ upLatched' = FALSE
    /\ IF upLatched /\ phase # "connected" THEN noteConnected /\ pc' = "subscribe"
       ELSE UNCHANGED ladder /\ pc' = "disconnect"
    /\ UNCHANGED <<settings, wifi, wanted, owned, session, raising, connectedFlag,
                   downLatched, changes>>

\* The connect latch.
TakeConnect ==
    /\ pc = "connect"
    /\ IF upLatched THEN upLatched' = FALSE /\ noteConnected /\ pc' = "subscribe"
       ELSE UNCHANGED <<upLatched, ladder>> /\ pc' = "disconnect"
    /\ UNCHANGED <<settings, wifi, wanted, owned, session, raising, connectedFlag,
                   downLatched, changes>>

\* subscribe() needs a client with a session.
Subscribe ==
    /\ pc = "subscribe" /\ pc' = "disconnect"
    /\ subscribed' = (subscribed \/ client = "up")
    /\ UNCHANGED <<settings, wifi, wanted, owned, ladder, client, clientRev, events, changes>>

\* The disconnect latch.
TakeDisconnect ==
    /\ pc = "disconnect" /\ pc' = "update"
    /\ IF downLatched THEN downLatched' = FALSE /\ noteDisconnected
       ELSE UNCHANGED <<downLatched, ladder>>
    /\ UNCHANGED <<settings, wifi, wanted, owned, session, raising, connectedFlag, upLatched,
                   changes>>

Update ==
    /\ pc = "update" /\ pc' = "stop"
    /\ IF wanted THEN update ELSE UNCHANGED ladder
    /\ UNCHANGED <<settings, wifi, wanted, owned, session, events, changes>>

\* Mutant of MustEnd: a client is stopped only while it has its session.
MustEndConnected == clientUp /\ connectedFlag /\ (~wanted \/ configuredRev # rev)

\* A client nobody wants, or one of other settings, is stopped.
MustEnd == clientUp /\ (~wanted \/ configuredRev # rev)

Stop ==
    /\ pc = "stop" /\ pc' = IF MustEnd THEN "ending" ELSE "attempt"
    /\ UNCHANGED <<settings, wifi, wanted, owned, ladder, session, events, changes>>

\* Mutant of End: the transport's flag is cleared before the client is stopped, not after,
\* so what the client reports while it stops stays.
EndFlagFirst ==
    /\ pc = "ending" /\ raising = "none" /\ pc' = "attempt"
    /\ client' = "none" /\ subscribed' = FALSE
    /\ clientUp' = FALSE /\ reset
    /\ UNCHANGED <<settings, wifi, wanted, configuredRev, draft, clientRev, connectedFlag,
                   raising, upLatched, downLatched, changes>>

\* end() returns once the client's task has stopped, which it does between two events.
End ==
    /\ pc = "ending" /\ raising = "none" /\ pc' = "attempt"
    /\ client' = "none" /\ subscribed' = FALSE /\ connectedFlag' = FALSE
    /\ clientUp' = FALSE /\ reset
    /\ UNCHANGED <<settings, wifi, wanted, configuredRev, draft, clientRev, raising,
                   upLatched, downLatched, changes>>

\* An attempt that is due reads the settings for a client to be created, or finds that
\* the client it has is connected already.
Attempt ==
    /\ pc = "attempt"
    /\ IF wanted /\ ~clientUp /\ due
       THEN draft' = rev /\ pc' = "begin" /\ UNCHANGED ladder
       ELSE /\ IF wanted /\ clientUp /\ due /\ connectedFlag
               THEN noteConnected ELSE UNCHANGED ladder
            /\ pc' = "wifi" /\ UNCHANGED draft
    /\ UNCHANGED <<settings, wifi, wanted, clientUp, configuredRev, session, events, changes>>

\* begin(): the revision is recorded after the settings were read.
BeginDone ==
    /\ pc = "begin" /\ pc' = "wifi"
    /\ client' = "connecting" /\ clientRev' = draft
    /\ clientUp' = TRUE /\ configuredRev' = rev
    /\ UNCHANGED <<settings, wifi, wanted, draft, ladder, subscribed, events, changes>>

BeginRefused ==
    /\ pc = "begin" /\ pc' = "wifi"
    /\ noteAttemptFailed
    /\ UNCHANGED <<settings, wifi, wanted, owned, session, events, changes>>

Change == changes > 0 /\ changes' = changes - 1

\* wifiManager.update(), which ends the part of the pass modelled here.
WifiUpdate ==
    /\ pc = "wifi" /\ pc' = "top"
    /\ \/ UNCHANGED <<wifi, changes>>
       \/ Change /\ wifi' = ~wifi
    /\ UNCHANGED <<settings, wanted, owned, ladder, session, events>>

-----------------------------------------------------------------------------
(* The Modbus and HTTP tasks: an applied change of settings *)

SettingsChange ==
    /\ Change
    /\ rev' = rev + 1 /\ enabled' \in BOOLEAN
    /\ UNCHANGED <<wifi, pc, wanted, owned, ladder, session, events>>

-----------------------------------------------------------------------------
(* The client's task: esp-mqtt's own states, and EspMqttTransport::onEvent() *)

ClientConnects ==
    /\ raising = "none" /\ client = "connecting"
    /\ client' = "up" /\ raising' = "up"
    /\ UNCHANGED <<settings, wifi, pc, wanted, owned, ladder, clientRev, subscribed,
                   connectedFlag, upLatched, downLatched, changes>>

\* A connection that fails, or a session that is lost.
ClientFails ==
    /\ raising = "none" /\ client \in {"connecting", "up"}
    /\ client' = "waiting" /\ raising' = "down" /\ subscribed' = FALSE
    /\ UNCHANGED <<settings, wifi, pc, wanted, owned, ladder, clientRev, connectedFlag,
                   upLatched, downLatched, changes>>

\* The library's own reconnection, ten seconds on: the pass has taken the notice by then.
ClientRetries ==
    /\ raising = "none" /\ client = "waiting" /\ ~downLatched /\ pc # "ending"
    /\ client' = "connecting"
    /\ UNCHANGED <<settings, wifi, pc, wanted, owned, ladder, clientRev, subscribed, events,
                   changes>>

\* onEvent() writes its flag ...
RaiseFlag ==
    /\ raising \in {"up", "down"}
    /\ connectedFlag' = (raising = "up")
    /\ raising' = IF raising = "up" THEN "latch up" ELSE "latch down"
    /\ UNCHANGED <<settings, wifi, pc, wanted, owned, ladder, session, upLatched, downLatched,
                   changes>>

\* ... and then calls onMqttState().
RaiseLatch ==
    /\ raising \in {"latch up", "latch down"}
    /\ upLatched' = (upLatched \/ raising = "latch up")
    /\ downLatched' = (downLatched \/ raising = "latch down")
    /\ raising' = "none"
    /\ UNCHANGED <<settings, wifi, pc, wanted, owned, ladder, session, connectedFlag, changes>>

-----------------------------------------------------------------------------

Init ==
    /\ enabled \in BOOLEAN /\ rev = 0 /\ wifi = FALSE
    /\ pc = "top" /\ wanted = FALSE
    /\ clientUp = FALSE /\ configuredRev = 0 /\ draft = 0
    /\ phase = "cold" /\ due = FALSE /\ deadline = FALSE
    /\ client = "none" /\ clientRev = 0 /\ subscribed = FALSE
    /\ raising = "none" /\ connectedFlag = FALSE
    /\ upLatched = FALSE /\ downLatched = FALSE
    /\ changes = Changes

PassStep ==
    \/ Top \/ TakeConnect \/ Subscribe \/ TakeDisconnect \/ Update \/ Stop \/ End
    \/ Attempt \/ BeginDone \/ BeginRefused \/ WifiUpdate

Raise == RaiseFlag \/ RaiseLatch

Next ==
    \/ PassStep \/ DeadlinePasses \/ SettingsChange \/ Raise
    \/ ClientConnects \/ ClientFails \/ ClientRetries

\* The logic task and the client's task run, and time passes.  Whether a connection
\* succeeds, or a session lasts, is up to the network.
Fairness == WF_vars(PassStep) /\ WF_vars(Raise) /\ WF_vars(DeadlinePasses)

Spec == Init /\ [][Next]_vars /\ Fairness

-----------------------------------------------------------------------------
(* Properties *)

\* Every latch, flag and deadline has a value the session's code can give it.
TypeOK ==
    /\ enabled \in BOOLEAN /\ wifi \in BOOLEAN /\ wanted \in BOOLEAN /\ clientUp \in BOOLEAN
    /\ due \in BOOLEAN /\ deadline \in BOOLEAN /\ subscribed \in BOOLEAN
    /\ connectedFlag \in BOOLEAN /\ upLatched \in BOOLEAN /\ downLatched \in BOOLEAN
    /\ pc \in Steps
    /\ rev \in Nat /\ configuredRev \in Nat /\ draft \in Nat /\ clientRev \in Nat
    /\ changes \in Nat
    /\ phase \in {"cold", "waiting", "attempting", "connected"}
    /\ client \in {"none", "connecting", "up", "waiting"}
    /\ raising \in {"none", "up", "down", "latch up", "latch down"}
    /\ due => phase = "attempting"

\* The transport says it is connected only while the client has its session, or its task
\* is about to report that it lost it: nothing is published, no command acted on and no
\* register 561 shown as connected by a client that is gone, even when the client connects
\* while it is being stopped.
ConnectedIsReal == connectedFlag => client = "up" \/ raising = "down"

\* A session without its subscriptions has them coming: the client's task is still reporting
\* it, its latch is set, or the pass stands at the call.  And a subscription belongs to the
\* session it was made over: the next one does not pass for subscribed.
SessionNotOverlooked ==
    /\ client = "up" => \/ subscribed \/ upLatched \/ pc = "subscribe"
                         \/ raising \in {"up", "latch up"}
    /\ subscribed => client = "up"

\* Every session the client establishes is subscribed to the command topics, unless it is
\* lost first: a connection reported at any point of the pass is not overlooked.
SessionsSubscribe == client = "up" ~> (subscribed \/ client # "up")

\* Once MQTT is no longer wanted for good, the client is stopped for good.
OffMeansOff == <>[]~(enabled /\ wifi) => <>[](client = "none")

\* "The next tick attempts immediately" after a reset(), and every attempt has an end:
\* while MQTT is wanted and the settings stay, the ladder keeps asking for attempts unless
\* there is a client.
AttemptsContinue == <>[](enabled /\ wifi) => []<>(due \/ clientUp)
=============================================================================
