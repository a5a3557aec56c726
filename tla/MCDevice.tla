------------------------------- MODULE MCDevice -------------------------------
(***************************************************************************)
(* Five parts of the device that share no state with one another: the      *)
(* Wi-Fi manager, the request buffer of the configuration page, the MQTT   *)
(* commands, the menu card with the bus it shares, and the navigation of   *)
(* the panel.  Their product would show nothing that each alone does not,  *)
(* so a run takes one of them; `part` says which, and the others stay as   *)
(* they began.                                                             *)
(***************************************************************************)
EXTENDS Bindings

CONSTANTS
  Networks, Keys, NoName, Changes, Saturated, \* WifiManager
  Requests, MaxSubmit,                        \* PortalRequest
  Interval, Wrap, Horizon, Arrivals, Boots,   \* MqttCommand
  Edits, Faults,                              \* MenuCard
  Retyped                                     \* Navigation

\* Bounds are numbers, there is a passphrase to start with, a body has a size, and the interval
\* between two resets is at most half of millis()' range: 60 s against 2^32 ms.
ASSUME DeviceAssumption ==
  /\ Keys # {} /\ {Changes, Saturated, Requests, Horizon} \subseteq Nat
  /\ MaxSubmit \in Nat
  /\ Interval \in Nat /\ Wrap \in Nat \ {0} /\ Interval <= Wrap \div 2

\* The generated table as PanelTable describes one, for which the proofs about Panel hold.
Acts ==
  ("page.next" :> "next") @@ ("page.previous" :> "prev") @@ ("nav.descend" :> "descend")
    @@ ("nav.back" :> "back") @@ ("value.discard" :> "back") @@ ("value.commit" :> "commit")
    @@ ("value.increment" :> "adjust") @@ ("value.decrement" :> "adjust")
    @@ ("pack.select-menu" :> "select")

FlowOf(id, press) ==
  LET flows == ScreenOf[id].flows
      named == IF press[2] = "short" THEN press[1] ELSE IF press[1] = "enter" THEN "long" ELSE None
  IN  IF named \in DOMAIN flows /\ flows[named][1] \in DOMAIN Acts
      THEN [act |-> Acts[flows[named][1]], to |-> flows[named][2]]
      ELSE [act |-> "none", to |-> None]

Holding == {id \in Ids : "hold" \in DOMAIN ScreenOf[id].flows}

T == INSTANCE PanelTable WITH
       Screens  <- Ids, Root <- Table[1].id, RootTail <- RootTail.id, NoScreen <- None,
       Flow     <- [id \in Ids |-> [press \in {"up", "down", "enter"} \X {"short", "long"} |->
                                      FlowOf(id, press)]],
       Guard    <- [id \in Holding |-> [toast |-> ScreenOf[id].flows.hold[2]]],
       Toasts   <- {id \in Ids : "time" \in DOMAIN ScreenOf[id].flows},
       Editors  <- {id \in Ids : EditedBy(ScreenOf[id]) # None},
       SensorOf <- [id \in {SensorIds[n] : n \in Sensors} |->
                      CHOOSE n \in Sensors : SensorIds[n] = id]

\* The settings of a sensor, and what its reset asks and says.
SensorScreens ==
  LET settings == SensorService \o SensorFactor \o SensorAdjust \o SensorMaximum
  IN  {settings[i].id : i \in DOMAIN settings}
        \cup {"confirm-reset-calibration", "confirm-reset-calibration-back",
              "toast-calibration-reset"}

ASSUME GeneratedTable == T!KindsApart /\ T!FlowsLead /\ T!BelowSensor(SensorScreens)

VARIABLES
  part,
  wanted, ssid, psk, rev, noticed, step, back, state, attempts, late, radioUp, apActive, inUse,
  justConnected, link, reliable, ntp, systemTime, page,
  request, body, allocated, capacity, complete, refused, submitted, served,
  t, bootAt, clockSet, skew, online, lost, writer, message, latched, latch, reader, copy, accepted,
  lastMs, persisted, flash, last, arrivals, boots,
  owner, repaintOwed, card, pack, pointer, packTries, pc, outcome, confirmed, mounted, screen,
  asked, selecting, commit, lastScreen, idlePainted, fatal, shown, led, cleared, edits, faults,
  current, stack, sensorIndex, form, editing, prompt

W == INSTANCE WifiManager
P == INSTANCE PortalRequest
C == INSTANCE MqttCommand
K == INSTANCE MenuCard WITH attempts <- packTries
N == INSTANCE Navigation WITH Menu <- ScreenOf, Address <- Place

\* The same table as Navigation moves in it: the ring of a page, followed from it until it comes
\* round, and the level of a screen, entered from the level above.
Ring(id) ==
  LET walk[k \in 0 .. N!kMaxRing] ==
        IF k = 0 THEN id ELSE N!Splice(walk[k - 1], N!rawNextSibling(walk[k - 1]))
      n == CHOOSE n \in 1 .. N!kMaxRing : walk[n] = id /\ \A k \in 1 .. n - 1 : walk[k] # id
  IN  [i \in 0 .. n - 1 |-> walk[i]]

Rings == {Ring(id) : id \in {id \in Ids : N!Leads(id, "page.next") # {}}}

\* No flow enters the page of the dark display; it counts as one of the root level.
Level ==
  LET OnRing(id) == {id} \cup UNION {{ring[i] : i \in DOMAIN ring} : ring \in {r \in Rings : r[0] = id}}
      Entered(ids) == UNION {N!Leads(id, "nav.descend") : id \in ids}
      After(ids)   == UNION {N!Leads(id, action) : id \in ids, action \in N!Resets}
      floor[d \in 0 .. N!kMaxDepth] ==
        LET walked == UNION {OnRing(id) : id \in IF d = 0 THEN {N!root} ELSE Entered(floor[d - 1])}
        IN  walked \cup After(walked)
  IN  [id \in Ids |-> CHOOSE d \in 0 .. N!kMaxDepth :
                        id \in floor[d] \/ \A e \in 0 .. N!kMaxDepth : id \notin floor[e]]

ASSUME GeneratedMenu ==
  N!LevelsNest(Level) /\ N!RingsClose(Level, Rings) /\ N!EditorsApart /\ N!SensorMenu(SensorScreens)

wifi == <<wanted, ssid, psk, rev, noticed, step, back, state, attempts, late, radioUp, apActive,
              inUse, justConnected, link, reliable, ntp, systemTime, page>>
httpRequest == <<request, body, allocated, capacity, complete, refused, submitted, served>>
command  == <<t, bootAt, clockSet, skew, online, lost, writer, message, latched, latch, reader, copy,
              accepted, lastMs, persisted, flash, last, arrivals, boots>>
menu     == <<owner, repaintOwed, card, pack, pointer, packTries, pc, outcome, confirmed, mounted,
              screen, asked, selecting, commit, lastScreen, idlePainted, fatal, shown, led, cleared,
              edits, faults>>
position == <<current, stack, sensorIndex, form, editing, prompt>>
deviceVars == <<part, wifi, httpRequest, command, menu, position>>

Init ==
  /\ part \in {"wifi", "request", "command", "card", "navigation"}
  /\ W!Init /\ P!Init /\ C!Init /\ K!Init /\ N!Init

Wifi(A) ==
  part = "wifi" /\ A /\ UNCHANGED <<part, httpRequest, command, menu, position>>
Request(A) ==
  part = "request" /\ A /\ UNCHANGED <<part, wifi, command, menu, position>>
Command(A) ==
  part = "command" /\ A /\ UNCHANGED <<part, wifi, httpRequest, menu, position>>
Card(A) ==
  part = "card" /\ A /\ UNCHANGED <<part, wifi, httpRequest, command, position>>

Navigate(A) ==
  part = "navigation" /\ A /\ UNCHANGED <<part, wifi, httpRequest, command, menu>>

Next ==
  \/ Wifi(W!Next) \/ Request(P!Next) \/ Command(C!Next) \/ Card(K!Next) \/ Navigate(N!Next)

\* The logic task runs, time passes, and a driver that works answers: the fairness of
\* WifiManager and of MenuCard.
Fairness ==
  /\ WF_deviceVars(Wifi(W!Pass) \/ Card(K!Device))
  /\ WF_deviceVars(Wifi(W!DeadlinePasses)) /\ WF_deviceVars(Wifi(W!TimePasses))
  /\ WF_deviceVars(Wifi(reliable /\ W!Answered))

Spec == Init /\ [][Next]_deviceVars /\ Fairness

-----------------------------------------------------------------------------
(* Properties: those of the five modules, where they are stated.           *)

\* The radio's mode and the reported state agree (wifi_manager.cpp).
RadioMatchesState == W!RadioMatchesState

\* Whatever came before, the stored network is joined in the end (wifi_manager.cpp).
Associates == W!Associates

\* A body is submitted whole, and for its own request (portal_server_arduino.h).
SubmitsOwnWholeBody == P!SubmitsOwnWholeBody

\* Two resets of a kind keep their distance (mqtt_command_router.h).
ResetsSpaced == C!ResetsSpaced

\* The panel shows what the UI stands on (ui_renderer.cpp, spi_arbiter.cpp).
PanelIsCurrent == K!PanelIsCurrent

\* A menu pack cannot keep the device restarting (ui_pack_loader.cpp).
BootLoopEnds == <>[](part = "card" => K!Running)

\* Every level of the menu works as a ring (ui_navigator.cpp).
LevelsWork == part = "navigation" => N!LevelsWork

\* A page shows what it is about, for the sensor it was entered for (ui_bindings.cpp).
PageShowsItsOwn == part = "navigation" => N!PageShowsItsOwn
=============================================================================
