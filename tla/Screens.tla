------------------------------- MODULE Screens -------------------------------
(***************************************************************************)
(* The screens of the panel, as ui/generated/GeneratedUi.cpp lists them:   *)
(* for each its id, what the buttons do on it, the values it shows in the  *)
(* order of its elements, and the calibration form it is shown for.        *)
(*                                                                         *)
(* Captions, positions and lengths of holds are left out.  A value is a    *)
(* pair: the sensor of a `sensor.<n>.` binding and its metric, or 0 and    *)
(* the name of any other binding.                                          *)
(***************************************************************************)
EXTENDS Naturals, Sequences, TLC

None    == ""        \* nullptr
Sensors == 1 .. 8
Formula == 0         \* the values of config.sensor.calibrationType
Pulses  == 1
AnyForm == {Formula, Pulses}

Named(bindings) == [i \in DOMAIN bindings |-> <<0, bindings[i]>>]
Column(metric)  == [n \in Sensors |-> <<n, metric>>]

Screen(id, flows, shows) == [id |-> id, flows |-> flows, shows |-> shows, forms |-> AnyForm]
For(type, entry)         == [entry EXCEPT !.forms = {type}]

\* The flows the table gives its screens: what a button, a completed hold or the time on
\* the screen does, and the screen it names.
Sibling(next, previous) ==
  [down |-> <<"page.next", next>>, up |-> <<"page.previous", previous>>]
Enter(action, to) == [enter |-> <<action, to>>]
Editing(field) ==
  [up |-> <<"value.increment", None>>, down |-> <<"value.decrement", None>>,
   enter |-> <<"value.commit", field>>, long |-> <<"value.discard", field>>]

Page(id, next, previous, shows) == Screen(id, Sibling(next, previous), Named(shows))
Entry(id, next, previous, to, shows) ==
  Screen(id, Sibling(next, previous) @@ Enter("nav.descend", to), Named(shows))
Back(id, next, previous, shows) ==
  Screen(id, Sibling(next, previous) @@ Enter("nav.back", None), Named(shows))
Editor(id, field, shows) == Screen(id, Editing(field), Named(shows))
Confirm(id, other, action, toast, shows) ==
  Screen(id, Sibling(other, other) @@ [hold |-> <<action, toast>>], Named(shows))
Toast(id) == Screen(id, [time |-> <<"nav.back", None>>], <<>>)

Position == <<"nav.position">>
Pending(setting) ==
  <<"nav.position", "config.editor.pending", setting, "config.editor.range",
    "config.sensor.nyquistWarning">>
Field(setting) == <<"nav.position", setting, "config.editor.range">>
OfSensor(setting, rest) ==
  <<"nav.position", "config.selectedSensor", setting, "config.editor.range">>
    \o rest \o <<"config.sensor.nyquistWarning">>
PendingTerm(setting) ==
  <<"nav.position", "config.editor.pending", setting, "config.editor.range">>
    \o <<"config.sensor.multiplier", "config.sensor.adjustTerm", "config.sensor.formulaQ",
         "config.sensor.nyquistWarning">>
FormulaLine == <<"config.sensor.multiplier", "config.sensor.adjustTerm", "config.sensor.formulaQ">>

-----------------------------------------------------------------------------
(* The root level. *)

StatusPages == <<
  Page("info-p0-global-status", "info-p1-instant-flow", "net-mqtt-root",
       <<"telemetry.flowUnitLabel", "telemetry.totalFlowLpm", "telemetry.totalVolumeM3",
         "telemetry.maxFlowLpm", "legend.status">>),
  Screen("info-p1-instant-flow", Sibling("info-p2-cumulative-m3", "info-p0-global-status"),
         Named(<<"telemetry.flowUnitLabel">>) \o Column("instantFlow")),
  Screen("info-p2-cumulative-m3",
         Sibling("info-p3-session-m3", "info-p1-instant-flow")
           @@ Enter("nav.descend", "confirm-reset-totals"),
         Column("cumulativeM3")) >>

SessionPages == <<
  Screen("info-p3-session-m3",
         Sibling("info-p4-max-flow", "info-p2-cumulative-m3")
           @@ Enter("nav.descend", "confirm-reset-session"),
         Column("sessionM3") \o Named(<<"telemetry.sessionStart">>)),
  Screen("info-p4-max-flow",
         Sibling("info-p5-enter-config", "info-p3-session-m3")
           @@ Enter("nav.descend", "confirm-reset-max-flow"),
         Named(<<"telemetry.flowUnitLabel">>) \o Column("maxFlowSinceReset")),
  Entry("info-p5-enter-config", "info-p6-factory-reset", "info-p4-max-flow", "config-modbus", <<>>),
  \* Its flows name no action, so they do nothing; nothing leads here.
  Screen("state-idle", [b \in {"up", "down", "enter"} |-> <<None, "info-p0-global-status">>], <<>>) >>

-----------------------------------------------------------------------------
(* The configuration level and its three groups. *)

ConfigRoot == <<
  Entry("config-modbus", "config-display", "config-root-back", "config-modbus-slave-id", Position),
  Entry("config-display", "config-sensors", "config-modbus", "config-display-led-volume", Position),
  Entry("config-sensors", "config-root-back", "config-display", "config-sensor-1", Position),
  Back("config-root-back", "config-modbus", "config-sensors", Position) >>

ModbusAddress == <<
  Entry("config-modbus-slave-id", "config-modbus-baud-rate", "config-modbus-back",
        "config-modbus-slave-id-edit", Field("config.modbusSlaveId")),
  Editor("config-modbus-slave-id-edit", "config-modbus-slave-id", Pending("config.modbusSlaveId")),
  Entry("config-modbus-baud-rate", "config-modbus-parity", "config-modbus-slave-id",
        "config-modbus-baud-rate-edit", Field("config.baudRate")),
  Editor("config-modbus-baud-rate-edit", "config-modbus-baud-rate", Pending("config.baudRate")) >>

ModbusFrame == <<
  Entry("config-modbus-parity", "config-modbus-stop-bits", "config-modbus-baud-rate",
        "config-modbus-parity-edit", Field("config.parity")),
  Editor("config-modbus-parity-edit", "config-modbus-parity", Pending("config.parity")),
  Entry("config-modbus-stop-bits", "config-modbus-back", "config-modbus-parity",
        "config-modbus-stop-bits-edit", Field("config.stopBits")),
  Editor("config-modbus-stop-bits-edit", "config-modbus-stop-bits", Pending("config.stopBits")),
  Back("config-modbus-back", "config-modbus-slave-id", "config-modbus-stop-bits", Position) >>

DisplayLed == <<
  Entry("config-display-led-volume", "config-display-led-period", "config-display-back",
        "config-display-led-volume-edit", Field("config.ledPulseVolume")),
  Editor("config-display-led-volume-edit", "config-display-led-volume",
         Pending("config.ledPulseVolume")),
  Entry("config-display-led-period", "config-display-flow-unit", "config-display-led-volume",
        "config-display-led-period-edit", Field("config.ledPulsePeriod")),
  Editor("config-display-led-period-edit", "config-display-led-period",
         Pending("config.ledPulsePeriod")) >>

DisplayUnit == <<
  Entry("config-display-flow-unit", "config-display-back", "config-display-led-period",
        "config-display-flow-unit-edit", Field("config.flowUnit")),
  Editor("config-display-flow-unit-edit", "config-display-flow-unit",
         Tail(Pending("config.flowUnit"))),
  Back("config-display-back", "config-display-led-volume", "config-display-flow-unit", Position) >>

-----------------------------------------------------------------------------
(* The sensors, and the settings of one. *)

SensorIds ==
  <<"config-sensor-1", "config-sensor-2", "config-sensor-3", "config-sensor-4",
    "config-sensor-5", "config-sensor-6", "config-sensor-7", "config-sensor-8">>
SensorPage(n, next, previous) ==
  Screen(SensorIds[n], Sibling(next, previous) @@ Enter("nav.descend", "config-s1-connected"),
         Named(Position) \o <<<<n, "status">>, <<n, "instantFlow">>, <<n, "pulsesPerLitre">>>>)

LowSensors ==
  [n \in 1 .. 4 |->
     SensorPage(n, SensorIds[n + 1], IF n = 1 THEN "config-sensor-back" ELSE SensorIds[n - 1])]

HighSensors == <<
  SensorPage(5, "config-sensor-6", "config-sensor-4"),
  SensorPage(6, "config-sensor-7", "config-sensor-5"),
  SensorPage(7, "config-sensor-8", "config-sensor-6"),
  SensorPage(8, "config-sensor-back", "config-sensor-7"),
  Back("config-sensor-back", "config-sensor-1", "config-sensor-8", Position) >>

SensorService == <<
  Entry("config-s1-connected", "config-s2-calibration", "config-sensor-settings-back",
        "config-s1-connected-edit", OfSensor("config.sensor.connected", <<>>)),
  Editor("config-s1-connected-edit", "config-s1-connected", Pending("config.sensor.connected")),
  Entry("config-s2-calibration", "config-s3-pulses-per-l", "config-s1-connected",
        "config-s2-calibration-edit", OfSensor("config.sensor.calibrationType", <<>>)),
  Editor("config-s2-calibration-edit", "config-s2-calibration",
         Pending("config.sensor.calibrationType")) >>

SensorFactor == <<
  For(Pulses,
      Entry("config-s3-pulses-per-l", "config-s4-multiplier", "config-s2-calibration",
            "config-s3-pulses-per-l-edit", OfSensor("config.sensor.pulsesPerLiter", <<>>))),
  For(Pulses,
      Editor("config-s3-pulses-per-l-edit", "config-s3-pulses-per-l",
             Pending("config.sensor.pulsesPerLiter"))),
  For(Formula,
      Entry("config-s4-multiplier", "config-s5-adjust", "config-s3-pulses-per-l",
            "config-s4-multiplier-edit", OfSensor("config.sensor.multiplier", FormulaLine))),
  For(Formula,
      Editor("config-s4-multiplier-edit", "config-s4-multiplier",
             PendingTerm("config.sensor.multiplier"))) >>

SensorAdjust == <<
  For(Formula,
      Entry("config-s5-adjust", "config-s6-max-flow", "config-s4-multiplier",
            "config-s5-adjust-edit", OfSensor("config.sensor.adjust", FormulaLine))),
  For(Formula,
      Editor("config-s5-adjust-edit", "config-s5-adjust", PendingTerm("config.sensor.adjust"))) >>

SensorMaximum == <<
  Entry("config-s6-max-flow", "config-sensor-settings-reset-cal", "config-s5-adjust",
        "config-s6-max-flow-edit", OfSensor("config.sensor.maxFlow", FormulaLine)),
  Editor("config-s6-max-flow-edit", "config-s6-max-flow", PendingTerm("config.sensor.maxFlow")),
  Entry("config-sensor-settings-reset-cal", "config-sensor-settings-back", "config-s6-max-flow",
        "confirm-reset-calibration", <<"nav.position", "config.selectedSensor">>),
  Back("config-sensor-settings-back", "config-s1-connected", "config-sensor-settings-reset-cal",
       Position) >>

-----------------------------------------------------------------------------
(* The network pages. *)

NetworkRoots == <<
  Entry("net-wifi-root", "net-mqtt-root", "info-p6-factory-reset", "net-wifi-info", Position),
  Entry("net-mqtt-root", "info-p0-global-status", "net-wifi-root", "net-mqtt-info", Position) >>

WifiPages == <<
  Page("net-wifi-info", "net-wifi-info-2", "net-wifi-back",
       <<"nav.position", "net.wifi.state", "config.wifi.enabled", "config.wifi.ssid",
         "config.wifi.psk">>),
  Page("net-wifi-info-2", "net-wifi-portal-reset", "net-wifi-info",
       <<"nav.position", "net.wifi.ip", "net.wifi.rssi">>),
  Entry("net-wifi-portal-reset", "net-wifi-ap-info", "net-wifi-info-2",
        "confirm-reset-portal-login", Position),
  Back("net-wifi-back", "net-wifi-info", "net-wifi-ap-info", Position),
  Page("net-wifi-ap-info", "net-wifi-back", "net-wifi-portal-reset",
       <<"nav.position", "net.ap.ssid", "net.ap.password", "net.ap.ip", "net.portal.remaining">>) >>

MqttPages == <<
  Page("net-mqtt-info", "net-mqtt-info-2", "net-mqtt-back",
       <<"nav.position", "net.mqtt.state", "config.mqtt.enabled", "config.mqtt.host",
         "config.mqtt.port">>),
  Page("net-mqtt-info-2", "net-mqtt-info-3", "net-mqtt-info",
       <<"nav.position", "config.mqtt.user", "config.mqtt.password", "config.mqtt.baseTopic",
         "config.mqtt.discoveryPrefix">>),
  Page("net-mqtt-info-3", "net-mqtt-back", "net-mqtt-info-2",
       <<"nav.position", "config.mqtt.haDiscovery", "config.mqtt.publishPeriod",
         "config.mqtt.qos", "net.mqtt.lastCommandResult">>),
  Back("net-mqtt-back", "net-mqtt-info", "net-mqtt-info-3", Position) >>

-----------------------------------------------------------------------------
(* What is asked before it is done, and what is said after. *)

ConfirmMeasured == <<
  Entry("info-p6-factory-reset", "net-wifi-root", "info-p5-enter-config",
        "confirm-factory-reset", <<>>),
  Confirm("confirm-reset-totals", "confirm-reset-totals-back", "reset-all-measured",
          "toast-totals-reset", <<"countdown.value">>),
  Back("confirm-reset-totals-back", "confirm-reset-totals", "confirm-reset-totals", <<>>),
  Confirm("confirm-reset-session", "confirm-reset-session-back", "reset-session",
          "toast-session-reset", <<"countdown.value">>),
  Back("confirm-reset-session-back", "confirm-reset-session", "confirm-reset-session", <<>>),
  Confirm("confirm-reset-max-flow", "confirm-reset-max-flow-back", "reset-max-flow",
          "toast-max-flow-reset", <<"countdown.value">>),
  Back("confirm-reset-max-flow-back", "confirm-reset-max-flow", "confirm-reset-max-flow", <<>>) >>

ConfirmSettings == <<
  Confirm("confirm-reset-calibration", "confirm-reset-calibration-back", "reset-calibration",
          "toast-calibration-reset", <<"config.selectedSensor", "countdown.value">>),
  Back("confirm-reset-calibration-back", "confirm-reset-calibration",
       "confirm-reset-calibration", <<>>),
  Confirm("confirm-factory-reset", "confirm-factory-reset-back", "factory-reset", None,
          <<"countdown.value">>),
  Back("confirm-factory-reset-back", "confirm-factory-reset", "confirm-factory-reset", <<>>),
  Confirm("confirm-reset-portal-login", "confirm-reset-portal-login-back", "reset-portal-login",
          "toast-portal-login-reset", <<"countdown.value">>),
  Back("confirm-reset-portal-login-back", "confirm-reset-portal-login",
       "confirm-reset-portal-login", <<>>) >>

Toasts == <<
  Toast("toast-totals-reset"), Toast("toast-session-reset"), Toast("toast-max-flow-reset"),
  Toast("toast-portal-login-reset"), Toast("toast-calibration-reset") >>

-----------------------------------------------------------------------------
\* kGeneratedScreens: the table, in its order.
Table ==
  StatusPages \o SessionPages \o ConfigRoot \o ModbusAddress \o ModbusFrame \o DisplayLed
    \o DisplayUnit \o LowSensors \o HighSensors \o SensorService \o SensorFactor \o SensorAdjust
    \o SensorMaximum \o NetworkRoots \o WifiPages \o MqttPages \o ConfirmMeasured
    \o ConfirmSettings \o Toasts

\* kSelectMenuScreen: the page the firmware appends to the root level.
RootTail ==
  Screen("ui-select-menu",
         Sibling("info-p0-global-status", None) @@ Enter("pack.select-menu", None),
         Named(Position))

ScreenIds == {Table[i].id : i \in DOMAIN Table}
Ids       == ScreenIds \cup {RootTail.id}

\* Where a screen stands in the table: its address, as far as two of the table compare.
Place == [id \in ScreenIds |-> CHOOSE i \in DOMAIN Table : Table[i].id = id]

\* UiScreenRouter::findById, and the root tail, which no flow of the table names.
ScreenOf == (RootTail.id :> RootTail) @@ [id \in ScreenIds |-> Table[Place[id]]]
=============================================================================
