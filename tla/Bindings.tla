------------------------------ MODULE Bindings ------------------------------
(***************************************************************************)
(* What the panel writes for the values a screen binds: UiBindingResolver  *)
(* (ui/core/ui_bindings.cpp) and the settings catalogue it asks.           *)
(*                                                                         *)
(* An answer is the set of texts the binding can give in a situation, over *)
(* every measurement and every network state; {} is a resolver that gives  *)
(* none, so that the authored text stays.  The situation is what the       *)
(* navigation decides: `at`, a record of                                   *)
(*   screen, sensor, depth, ring : where the operator stands,              *)
(*   form                        : how that sensor is calibrated,          *)
(*   editing, prompt             : the open editor and what it asks,       *)
(*   counting                    : a hold with a visible countdown runs,   *)
(*   channel                     : "off", "unset" or "ready", for the rows *)
(*                                 of a named sensor.                      *)
(***************************************************************************)
EXTENDS Screens

Says(texts)  == {<<"text", words>> : words \in texts}
Reading(of)  == {<<"reading", of>>}

Unknown       == "-"
NotApplicable == "--"

-----------------------------------------------------------------------------
(* The settings catalogue. *)

SensorSettings ==
  {"config.sensor.connected", "config.sensor.multiplier", "config.sensor.adjust",
   "config.sensor.maxFlow", "config.sensor.calibrationType", "config.sensor.pulsesPerLiter"}

TextSettings ==
  {"config.wifi.ssid", "config.wifi.psk", "config.mqtt.host", "config.mqtt.user",
   "config.mqtt.password", "config.mqtt.baseTopic", "config.mqtt.discoveryPrefix"}

\* kSettings: what findSetting finds.
Settings ==
  SensorSettings \cup TextSettings \cup
  {"config.modbusSlaveId", "config.baudRate", "config.parity", "config.stopBits",
   "config.ledPulseVolume", "config.ledPulsePeriod", "config.flowUnit",
   "config.wifi.enabled", "config.mqtt.enabled", "config.mqtt.port",
   "config.mqtt.publishPeriod", "config.mqtt.haDiscovery", "config.mqtt.qos"}

\* The first element of a screen whose binding is a setting.
SettingOf(screen) ==
  LET found == SelectSeq(screen.shows, LAMBDA b : b[1] = 0 /\ b[2] \in Settings)
  IN  IF found = <<>> THEN None ELSE Head(found)[2]

\* settingEditedByScreen: only a screen that shows a pending value edits.
EditedBy(screen) ==
  IF \E i \in DOMAIN screen.shows : screen.shows[i] = <<0, "config.editor.pending">>
    THEN SettingOf(screen) ELSE None

\* readSetting: a sensor's setting is the value of the chosen sensor, and 0 for none.
readSetting(setting, sensor) ==
  IF setting \in SensorSettings /\ sensor = 0 THEN <<"no sensor", setting>>
                                              ELSE <<"value", setting>>

\* formatSettingRange: a text has no range.
formatSettingRange(setting) ==
  IF setting \in TextSettings THEN Says({""}) ELSE {<<"range", setting>>}

-----------------------------------------------------------------------------
(* The resolvers, in the order they are asked. *)

resolveNetworkBinding(name) ==
  CASE name \in {"net.status", "net.wifi.state", "net.mqtt.state", "net.mqtt.lastCommandResult",
                 "net.portal.remaining"}         -> Reading(name)
    [] name \in {"net.wifi.ip", "net.ap.ip"}       -> Reading(name) \cup Says({"---"})
    [] name = "net.wifi.ssid"                      -> Reading(name) \cup Says({"(not set)"})
    [] name = "net.wifi.rssi"                      -> Reading(name) \cup Says({NotApplicable})
    [] name \in {"net.ap.ssid", "net.ap.password"} -> Reading(name) \cup Says({"(inactive)"})
    [] OTHER                                       -> {}

\* A level whose members are not counted shows its depth alone.
resolvePageBinding(at, name) ==
  CASE name \in {"page.title", "telemetry.flowUnitLabel"} -> Reading(name)
    [] name = "nav.position" ->
         IF at.ring.count = 0 THEN {<<"level", at.depth>>}
                              ELSE {<<"position", at.depth, at.ring.index, at.ring.count>>}
    [] OTHER -> {}

TotalBindings ==
  {"telemetry.total", "telemetry.totalFlowLps", "telemetry.totalFlowLpm",
   "telemetry.totalVolumeLiters", "telemetry.totalVolumeM3"}

\* Without a date the row says which of the three reasons it is.
SessionStart ==
  Reading("telemetry.sessionStart") \cup Says({"AWAITING CLOCK", "CLOCK UNSET", "UNKNOWN"})

\* No channel in use, no flow yet, or the peak and its channel.
MaxFlow ==
  Says({"Max Flow: --", "Max Flow: 0.00"}) \cup {<<"peak", n>> : n \in Sensors}

\* The verdict: channels without calibration, warnings, both, or neither.
Status ==
  Says({"No channels in use", "All sensors ready"})
    \cup {<<"uncalibrated-and-warned", u, w>> : u \in Sensors, w \in Sensors}
    \cup {<<"uncalibrated", u>> : u \in Sensors} \cup {<<"warned", w>> : w \in Sensors}

resolveTelemetryBinding(name) ==
  CASE name \in TotalBindings           -> Reading(name)
    [] name = "telemetry.sessionStart" -> SessionStart
    [] name = "telemetry.maxFlowLpm"   -> MaxFlow
    [] name = "telemetry.status"       -> Status
    [] OTHER                            -> {}

Metrics ==
  {"instantFlow", "cumulativeLiters", "cumulativeM3", "sessionLiters", "sessionM3",
   "pulsesPerLitre", "maxFlowSinceReset"}

\* parseSensorBinding gives the sensor and the metric.  A channel out of service or without
\* a calibration says so whatever is asked; a metric nobody knows has no reading.
resolveSensorBinding(at, n, metric) ==
  CASE n \notin Sensors                          -> {}
    [] metric = "status" -> Says({[off |-> "--", unset |-> "SET?", ready |-> "OK"][at.channel]})
    [] metric # "status" /\ at.channel = "off"   -> Says({NotApplicable})
    [] metric # "status" /\ at.channel = "unset" -> Says({"SET?"})
    [] metric \in Metrics /\ at.channel = "ready" ->
         {<<"measured", metric, n>>}
           \cup (IF metric = "maxFlowSinceReset" THEN {<<"pinned", metric, n>>} ELSE {})
    [] OTHER -> {}

resolveLegendBinding(name) ==
  IF name \in {"legend.led", "legend.status", "legend.warning"} THEN Reading(name) ELSE {}

\* A term of the formula, where the chosen sensor has one.
FormulaTerm(at, name) ==
  IF at.sensor = 0 \/ at.form # Formula THEN Says({NotApplicable}) ELSE Reading(name)

\* What the editor asks after a refused commit.
Asked ==
  [none |-> "", failed |-> "Write refused. UP=Back",
   nyquist |-> "Sampling too slow. UP=Edit DOWN=Save anyway"]

resolveConfigBinding(at, name) ==
  CASE name = "config.title" -> Says({"Configuration", "Config Preview"})
    [] name = "config.editor.pending" ->
         IF at.editing = None THEN {} ELSE {<<"pending", at.editing>>}
    [] name = "config.editor.range" ->
         LET of == IF at.editing # None THEN at.editing ELSE SettingOf(at.screen)
         IN  IF of = None THEN Says({""}) ELSE formatSettingRange(of)
    [] name = "config.selectedSensor" ->
         IF at.sensor = 0 THEN Says({Unknown}) ELSE {<<"sensor", at.sensor>>}
    [] name = "config.uartFrameSummary" -> Reading(name)
    [] name \in {"config.sensor.adjustTerm", "config.sensor.formulaQ"} -> FormulaTerm(at, name)
    [] name = "config.sensor.undersamplingFlag" ->
         Says(IF at.sensor = 0 THEN {Unknown} ELSE {"WARN", "OK"})
    [] name = "config.sensor.nyquistWarning" -> Says({Asked[at.prompt]})
    [] name \in TextSettings -> {<<"stored", name>>} \cup Says({"(not set)", "********"})
    [] name \in Settings \ TextSettings -> {readSetting(name, at.sensor)}
    [] OTHER -> {}

resolveDiagnosticsBinding(name) ==
  CASE name = "diagnostics.pollingRateKhz" -> Reading(name)
    [] name = "diagnostics.undersampling"  -> Reading(name) \cup Says({"OK"})
    [] OTHER -> {}

resolveCountdownBinding(at, name) ==
  CASE name = "countdown.hint" -> Says({IF at.counting THEN "Release to cancel" ELSE ""})
    [] name \in {"countdown.title", "countdown.message", "countdown.value"} /\ at.counting ->
         Reading(name)
    [] OTHER -> {}

\* The first resolver that answers has the row.
FirstOf(answers) ==
  LET given == {i \in DOMAIN answers : answers[i] # {}}
  IN  IF given = {} THEN {} ELSE answers[CHOOSE i \in given : \A j \in given : i <= j]
resolveText(at, binding) ==
  LET n    == binding[1]
      name == binding[2]
  IN  IF n # 0 THEN resolveSensorBinding(at, n, name)
      ELSE FirstOf(<< resolveNetworkBinding(name), resolvePageBinding(at, name),
                      resolveTelemetryBinding(name), resolveLegendBinding(name),
                      resolveConfigBinding(at, name), resolveDiagnosticsBinding(name),
                      resolveCountdownBinding(at, name) >>)

-----------------------------------------------------------------------------
(* The bindings a screen may have. *)

\* Answered whatever the device is doing and wherever the operator stands.
Anywhere ==
  {"net.status", "net.wifi.state", "net.mqtt.state", "net.mqtt.lastCommandResult",
   "net.portal.remaining", "net.wifi.ip", "net.ap.ip", "net.wifi.ssid", "net.ap.ssid",
   "net.ap.password", "page.title", "telemetry.flowUnitLabel", "nav.position",
   "telemetry.sessionStart", "telemetry.maxFlowLpm", "telemetry.status", "legend.led",
   "legend.status", "legend.warning", "config.title", "config.editor.range",
   "config.uartFrameSummary", "config.sensor.nyquistWarning", "diagnostics.pollingRateKhz",
   "diagnostics.undersampling", "countdown.hint"}
    \cup TotalBindings \cup (Settings \ SensorSettings)

\* About the chosen sensor, and about its formula.
OfTheSensor == SensorSettings \cup {"config.selectedSensor", "config.sensor.undersamplingFlag"}
OfItsFormula == {"config.sensor.adjustTerm", "config.sensor.formulaQ"}

\* A screen binds what can be answered on it: the value of an editor on an editor, a countdown
\* where something is held, a sensor's values where one is chosen; and where only a sensor
\* with a formula brings it up, nothing that may not apply to one.
Answerable(screen, sensorChosen) ==
  \A i \in DOMAIN screen.shows :
    LET n    == screen.shows[i][1]
        name == screen.shows[i][2]
    IN  \/ n \in Sensors /\ name \in Metrics \cup {"status"} /\ screen.forms # {Formula}
        \/ n = 0 /\ name \in Anywhere
        \/ n = 0 /\ name = "net.wifi.rssi" /\ screen.forms # {Formula}
        \/ n = 0 /\ name = "config.editor.pending" /\ EditedBy(screen) # None
        \/ n = 0 /\ name \in OfTheSensor /\ sensorChosen
        \/ n = 0 /\ name \in OfItsFormula /\ (screen.forms = {Formula} => sensorChosen)
        \/ /\ n = 0 /\ name \in {"countdown.title", "countdown.message", "countdown.value"}
           /\ "hold" \in DOMAIN screen.flows
=============================================================================
