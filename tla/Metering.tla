------------------------------- MODULE Metering -------------------------------
(***************************************************************************)
(* The meter proper: the polling loop that counts pulses on core 0, the    *)
(* state engine that turns them into volume once a second, the calibration *)
(* and reset registers, and the once-a-minute pass that carries volumes,   *)
(* calibrations and the channels in service to flash.                      *)
(*                                                                         *)
(* The logic task runs the engine and the saving pass.  A frame's handler  *)
(* is one step of the eModbus task, which preempts the logic task between  *)
(* any two of its reads and writes; the polling loop runs on the other     *)
(* core, and measures once a second how fast it is.  The panel reaches the *)
(* same handlers from the logic task, where a frame can come between the   *)
(* check of a calibration and its store.                                   *)
(*                                                                         *)
(* A calibration is its two indispensable figures, `range' (q_max) and     *)
(* `factor' (the multiplier, or the pulses per litre); a pulse metered     *)
(* under a calibration is one unit of volume.                              *)
(***************************************************************************)
EXTENDS Integers, FiniteSets

CONSTANTS
    N,              \* kNumSensors
    Ranges, Factors, \* the values of a calibration's two registers; 0 is "not set"
    Rates,          \* pollingRate_kHz: what the polling loop can sample, as range times
                    \*   factor; 0 until it has been measured
    NaN, None,      \* not a number; no parked calibration
    Water,          \* bound: rising edges on all inputs
    Changes         \* bound on frames and commands of the panel that change something, power
                    \*   cuts and the turns of the flash between working and failing

ASSUME MeteringAssumption ==
    /\ N \in Nat \ {0} /\ Rates \subseteq Nat /\ 0 \in Rates /\ Water \in Nat /\ Changes \in Nat
    /\ Ranges \cup Factors \subseteq Nat /\ 0 \in Ranges \cap Factors /\ NaN \notin Int
    /\ None \notin [range : Ranges, factor : Factors]
    /\ None \notin [ch : 1 .. N, to : [range : Ranges, factor : Factors]]

Channels     == 1 .. N
Fields       == {"range", "factor"}
Figures(f)   == IF f = "range" THEN Ranges ELSE Factors
Calibrations == [range : Ranges, factor : Factors]
Blank        == [range |-> 0, factor |-> 0]

VARIABLES
    inService,          \* connectedSensorsBitmap, and sensors[].inUse with it
    pulses,             \* pulseCount
    session, total,     \* sessionLiters, cumulativeLiters
    config,             \* configs
    parked,             \* pendingOverrides_, None where overridePending_ is false
    exempt,             \* overrideActive_
    judged,             \* history: the rate by which a channel's override was last judged
    rate,               \* pollingRate_kHz
    shadow,             \* persistedCumulative, persistedConfigs, persistedBitmap
    nvs,                \* the flash: cml_*, cfg_* and conn_map
    storeOk,            \* whether the flash takes a write now
    fails,              \* NvsWriteHealth's consecutive failures of the three groups
    edit,               \* the panel's command in progress: its channel and candidate, or None
    torn,               \* history: channels a frame came to in the middle of such a command
    pc, ch,             \* where the logic task is, and for which channel
    local,              \* its local variables: pulses taken, volume, a sum, a value to store
    result,             \* what the saving pass has seen of each group so far
    polled,             \* the polling loop between load and store of pulseCount++
    edges, metered,     \* history: edges counted by the loop, pulses taken by the engine
    changes             \* changes left

overrides == <<parked, exempt, judged>>
meter  == <<pulses, session, total, config, overrides>>
panel  == <<edit, torn>>
stored == <<nvs, storeOk, fails>>
task   == <<pc, ch, local, result>>
core0  == <<rate, polled, edges>>
vars   == <<inService, meter, shadow, stored, panel, task, core0, metered, changes>>

Groups == {"litres", "calibration", "channels"}
Desk   == {"judge", "refuse?", "put", "forget"}
Engine == {"look", "clear", "rate", "session", "total", "store"}
Saving == {"total?", "put total", "mark total", "config?", "put range", "put factor",
           "mark config", "channels?", "put channels", "mark channels", "note"}

-----------------------------------------------------------------------------
(* Calibrations *)

Valid(k)           == k.range # 0 /\ k.factor # 0
SamplableAt(k, r)  == k.range * k.factor <= r
Samplable(k)       == SamplableAt(k, rate)

-----------------------------------------------------------------------------
(* The flash and its health *)

Alarm == 3      \* kConsecutiveFailuresBeforeAlarm; the code's count goes on to 255

\* Mutant of Noted: the count does not saturate.
NotedUnbounded(g, ok) == [fails EXCEPT ![g] = IF ok THEN 0 ELSE @ + 1]

\* Mutant of Noted: the count stops one short of the alarm.
NotedShort(g, ok) == [fails EXCEPT ![g] = IF ok THEN 0 ELSE IF @ < Alarm - 1 THEN @ + 1 ELSE @]

\* noteResult()
Noted(g, ok) == [fails EXCEPT ![g] = IF ok THEN 0 ELSE IF @ < Alarm THEN @ + 1 ELSE @]

Wiped(f, S, v) == [c \in Channels |-> IF c \in S THEN v ELSE f[c]]

\* saveCumulativeToNvs() for every channel of S, its total being zero, and one result.
SaveZeros(S) ==
    /\ nvs' = IF storeOk THEN [nvs EXCEPT !.total = Wiped(@, S, 0)] ELSE nvs
    /\ fails' = IF S = {} THEN fails ELSE Noted("litres", storeOk)

-----------------------------------------------------------------------------
(* Frames *)

Change == changes > 0 /\ changes' = changes - 1
Frame  == /\ Change /\ torn' = IF edit = None THEN torn ELSE torn \cup {edit.ch}
          /\ UNCHANGED <<shadow, storeOk, edit, task, core0, metered>>

ClearOverrides(S) ==
    parked' = Wiped(parked, S, None) /\ exempt' = exempt \ S /\ judged' = Wiped(judged, S, 0)
ClearConfigs(S)   == config' = Wiped(config, S, Blank) /\ ClearOverrides(S)
ClearMeasured(S)  == session' = Wiped(session, S, 0) /\ total' = Wiped(total, S, 0) /\ SaveZeros(S)
ClearSensors(S)   == pulses' = Wiped(pulses, S, 0) /\ ClearMeasured(S)

\* Register 10: a channel that enters or leaves service starts from nothing.
WriteBitmap(S) ==
    LET moved == (S \ inService) \cup (inService \ S)
    IN  /\ Frame /\ moved # {}
        /\ inService' = S
        /\ ClearSensors(moved) /\ ClearConfigs(moved)

\* Register 20
ResetAllSensors ==
    /\ Frame /\ inService # {}
    /\ ClearSensors(inService) /\ ClearConfigs(inService)
    /\ UNCHANGED inService

\* Register 21
ResetAllMeasured ==
    /\ Frame /\ inService # {}
    /\ ClearMeasured(inService) /\ ClearOverrides(inService)
    /\ UNCHANGED <<inService, pulses, config>>

\* Register 22
ResetAllSession ==
    /\ Frame /\ inService # {}
    /\ session' = Wiped(session, inService, 0) /\ ClearOverrides(inService)
    /\ UNCHANGED <<inService, pulses, total, config, nvs, fails>>

ResetSession(c) ==
    /\ Frame /\ c \in inService
    /\ session' = [session EXCEPT ![c] = 0]
    /\ UNCHANGED <<inService, pulses, total, config, overrides, nvs, fails>>

ResetAll(c) ==
    /\ Frame /\ c \in inService
    /\ ClearMeasured({c})
    /\ UNCHANGED <<inService, pulses, config, overrides>>

\* The same register written with anything but 1 resets nothing and saves the total as it is.
ResetAllIgnored(c) ==
    /\ Frame /\ c \in inService
    /\ nvs' = IF storeOk THEN [nvs EXCEPT !.total[c] = total[c]] ELSE nvs
    /\ fails' = Noted("litres", storeOk)
    /\ UNCHANGED <<inService, pulses, session, total, config, overrides>>

\* Mutant of ResetConfig: the override outlives the calibration it was given for.
ResetConfigKeepsOverride(c) ==
    /\ Frame /\ c \in inService
    /\ ClearSensors({c}) /\ config' = [config EXCEPT ![c] = Blank]
    /\ UNCHANGED <<inService, overrides>>

ResetConfig(c) ==
    /\ Frame /\ c \in inService
    /\ ClearSensors({c}) /\ ClearConfigs({c})
    /\ UNCHANGED inService

ResetCalibration(c) ==
    /\ Frame /\ c \in inService
    /\ ClearConfigs({c})
    /\ UNCHANGED <<inService, pulses, session, total, nvs, fails>>

\* Mutant of Accepted: an incomplete calibration is taken whatever it replaces.
AcceptedAnyway(c, k) ==
    \/ ~Valid(k) \/ Samplable(k) \/ c \in exempt \/ parked[c] = k

\* prepareConfigUpdate(): an incomplete calibration is taken on the way to a valid one, one
\* the loop can sample always, and any other once it was written twice.
Accepted(c, k) ==
    IF Valid(k) THEN Samplable(k) \/ c \in exempt \/ parked[c] = k
                ELSE ~Valid(config[c])

\* ... and the flags it leaves: one grant for a calibration written twice, which goes on for
\* any later one the loop cannot sample.
Judge(c, k) ==
    LET fast == Valid(k) /\ ~Samplable(k)
    IN  /\ parked' = [parked EXCEPT ![c] = IF fast /\ ~Accepted(c, k) THEN k
                                           ELSE IF c \in exempt /\ fast THEN @ ELSE None]
        /\ exempt' = IF fast /\ Accepted(c, k) THEN exempt \cup {c} ELSE exempt \ {c}
        /\ judged' = [judged EXCEPT ![c] = IF fast THEN rate ELSE 0]

With(c, field, value) == [config[c] EXCEPT ![field] = value]

WriteFigure(c, field, value) ==
    LET k == With(c, field, value)
    IN  /\ Frame /\ c \in inService
        /\ Judge(c, k)
        /\ config' = IF Accepted(c, k) THEN [config EXCEPT ![c] = k] ELSE config
        /\ UNCHANGED <<inService, pulses, session, total, nvs, fails>>

Frames ==
    \/ \E S \in SUBSET Channels : WriteBitmap(S)
    \/ ResetAllSensors \/ ResetAllMeasured \/ ResetAllSession
    \/ \E c \in Channels :
          \/ ResetSession(c) \/ ResetAll(c) \/ ResetAllIgnored(c)
          \/ ResetConfig(c) \/ ResetCalibration(c)
          \/ \E f \in Fields : \E v \in Figures(f) : WriteFigure(c, f, v)

-----------------------------------------------------------------------------
(* The panel, at the top of a pass: the same handlers, cut where a frame makes a difference *)

\* The local variables of a task that has none in use.
Idle == [taken |-> 0, volume |-> 0, sum |-> 0, value |-> 0, landed |-> TRUE]

Goto(p)   == pc' = p /\ UNCHANGED ch
PanelOnly == UNCHANGED <<inService, pulses, session, total, shadow, stored, local, result, core0,
                         metered>>
PanelDone == edit' = None /\ Goto("look") /\ UNCHANGED <<torn, changes>>

NoCommand ==
    /\ pc = "panel" /\ Goto("look")
    /\ UNCHANGED <<config, overrides, panel, changes>> /\ PanelOnly

\* The candidate is a copy of the calibration in force, with one figure changed.
PanelEdit(c, field, value) ==
    /\ pc = "panel" /\ c \in inService /\ Change
    /\ edit' = [ch |-> c, to |-> With(c, field, value)] /\ Goto("judge")
    /\ UNCHANGED <<config, overrides, torn>> /\ PanelOnly

PanelJudge ==
    /\ pc = "judge" /\ Judge(edit.ch, edit.to)
    /\ \/ ~Valid(edit.to) /\ Goto("refuse?") /\ UNCHANGED <<panel, changes>>
       \/ Valid(edit.to) /\ Accepted(edit.ch, edit.to) /\ Goto("put")
          /\ UNCHANGED <<panel, changes>>
       \/ Valid(edit.to) /\ ~Accepted(edit.ch, edit.to) /\ PanelDone
    /\ UNCHANGED config /\ PanelOnly

\* The flags are cleared by now; an incomplete candidate must not replace a valid calibration.
PanelRefuse ==
    /\ pc = "refuse?"
    /\ IF Valid(config[edit.ch]) THEN PanelDone ELSE Goto("put") /\ UNCHANGED <<panel, changes>>
    /\ UNCHANGED <<config, overrides>> /\ PanelOnly

\* The whole candidate, the figures it was copied with included.
PanelPut ==
    /\ pc = "put" /\ PanelDone
    /\ config' = [config EXCEPT ![edit.ch] = edit.to]
    /\ UNCHANGED overrides /\ PanelOnly

\* The reset of a calibration: the figures first, then the override that belonged to them.
PanelBlank(c) ==
    /\ pc = "panel" /\ c \in inService /\ Change
    /\ config' = [config EXCEPT ![c] = Blank]
    /\ edit' = [ch |-> c, to |-> Blank] /\ Goto("forget")
    /\ UNCHANGED <<overrides, torn>> /\ PanelOnly

PanelForget ==
    /\ pc = "forget" /\ ClearOverrides({edit.ch}) /\ PanelDone
    /\ UNCHANGED config /\ PanelOnly

PanelStep ==
    \/ NoCommand \/ PanelJudge \/ PanelRefuse \/ PanelPut \/ PanelForget
    \/ \E c \in Channels :
          \/ PanelBlank(c)
          \/ \E f \in Fields : \E v \in Figures(f) : PanelEdit(c, f, v)

-----------------------------------------------------------------------------
(* Core 0: pulseCount++ on a rising edge of a channel in use, and the rate once a second *)

PollLoad(c) ==
    /\ polled = None /\ edges < Water /\ c \in inService
    /\ polled' = [ch |-> c, count |-> pulses[c]] /\ edges' = edges + 1
    /\ UNCHANGED <<inService, meter, shadow, stored, panel, task, rate, metered, changes>>

PollStore ==
    /\ polled # None
    /\ pulses' = [pulses EXCEPT ![polled.ch] = polled.count + 1]
    /\ polled' = None
    /\ UNCHANGED <<inService, session, total, config, overrides, shadow, stored, panel, task,
                   rate, edges, metered, changes>>

\* Nothing judged by the old rate is judged again.
MeasureRate ==
    /\ rate' \in Rates \ {0, rate}
    /\ UNCHANGED <<inService, meter, shadow, stored, panel, task, polled, edges, metered,
                   changes>>

-----------------------------------------------------------------------------
(* SensorStateEngine::update(), channel by channel *)

NextChannel(first, done) ==
    IF ch < N THEN pc' = first /\ ch' = ch + 1 ELSE pc' = done /\ ch' = 1
EngineOnly == UNCHANGED <<inService, config, overrides, shadow, stored, panel, result, core0,
                          changes>>

Look ==
    /\ pc = "look"
    /\ IF ch \in inService
       THEN local' = [Idle EXCEPT !.taken = pulses[ch]] /\ Goto("clear")
       ELSE NextChannel("look", "due?") /\ UNCHANGED local
    /\ UNCHANGED <<pulses, session, total, metered>> /\ EngineOnly

\* pulseCount = 0, and the one test of the calibration.
Clear ==
    /\ pc = "clear"
    /\ pulses' = [pulses EXCEPT ![ch] = 0]
    /\ metered' = metered + local.taken
    /\ IF Valid(config[ch]) THEN Goto("rate") /\ UNCHANGED local
       ELSE NextChannel("look", "due?") /\ local' = Idle
    /\ UNCHANGED <<session, total>> /\ EngineOnly

\* The division by whatever the factor is now, and the clamp to whatever the range is.
Volume(k, taken) ==
    IF k.factor = 0 /\ taken = 0 THEN NaN
    ELSE IF k.range = 0 THEN 0 ELSE taken

Plus(a, b) == IF NaN \in {a, b} THEN NaN ELSE a + b

ComputeRate ==
    /\ pc = "rate" /\ Goto("session")
    /\ local' = [Idle EXCEPT !.volume = Volume(config[ch], local.taken)]
    /\ UNCHANGED <<pulses, session, total, metered>> /\ EngineOnly

\* sessionLiters += and cumulativeLiters += are a load, an addition and a store each.
AddSession ==
    /\ pc = "session" /\ Goto("total")
    /\ local' = [local EXCEPT !.sum = Plus(session[ch], local.volume)]
    /\ UNCHANGED <<pulses, session, total, metered>> /\ EngineOnly

AddTotal ==
    /\ pc = "total" /\ Goto("store")
    /\ session' = [session EXCEPT ![ch] = local.sum]
    /\ local' = [Idle EXCEPT !.sum = Plus(total[ch], local.volume)]
    /\ UNCHANGED <<pulses, total, metered>> /\ EngineOnly

StoreTotal ==
    /\ pc = "store" /\ NextChannel("look", "due?")
    /\ total' = [total EXCEPT ![ch] = local.sum] /\ local' = Idle
    /\ UNCHANGED <<pulses, session, metered>> /\ EngineOnly

-----------------------------------------------------------------------------
(* The saving pass, channel by channel and then the bitmap *)

SaveOnly == UNCHANGED <<inService, meter, panel, core0, metered, changes>>

\* A put: what it leaves in flash, and whether it landed.
Put(content, group) ==
    /\ nvs' = IF storeOk THEN content ELSE nvs
    /\ result' = [result EXCEPT ![group] = IF storeOk /\ @ # "failed" THEN "ok" ELSE "failed"]
    /\ UNCHANGED <<storeOk, fails>>

NotDue  == pc = "due?" /\ pc' = "panel" /\ ch' = 1
           /\ UNCHANGED <<local, result, shadow, stored>> /\ SaveOnly
SaveDue == pc = "due?" /\ pc' = "total?" /\ ch' = 1
           /\ UNCHANGED <<local, result, shadow, stored>> /\ SaveOnly

\* Channels out of service are passed by.
CompareTotal ==
    /\ pc = "total?"
    /\ IF ch \notin inService THEN NextChannel("total?", "channels?") /\ UNCHANGED local
       ELSE IF total[ch] # shadow.total[ch] \/ total[ch] = NaN
       THEN Goto("put total") /\ local' = [Idle EXCEPT !.value = total[ch]]
       ELSE Goto("config?") /\ UNCHANGED local
    /\ UNCHANGED <<shadow, stored, result>> /\ SaveOnly

PutTotal ==
    /\ pc = "put total"
    /\ Put([nvs EXCEPT !.total[ch] = local.value], "litres")
    /\ IF storeOk THEN Goto("mark total") /\ UNCHANGED local
                  ELSE Goto("config?") /\ local' = Idle
    /\ UNCHANGED shadow /\ SaveOnly

MarkTotal ==
    /\ pc = "mark total" /\ Goto("config?")
    /\ shadow' = [shadow EXCEPT !.total[ch] = total[ch]] /\ local' = Idle
    /\ UNCHANGED <<stored, result>> /\ SaveOnly

CompareConfig ==
    /\ pc = "config?"
    /\ IF config[ch] # shadow.config[ch]
       THEN Goto("put range") /\ local' = [local EXCEPT !.landed = TRUE]
       ELSE NextChannel("total?", "channels?") /\ UNCHANGED local
    /\ UNCHANGED <<shadow, stored, result>> /\ SaveOnly

\* Key by key, through a reference; every key is attempted.
PutRange ==
    /\ pc = "put range" /\ Goto("put factor")
    /\ Put([nvs EXCEPT !.config[ch].range = config[ch].range], "calibration")
    /\ local' = [local EXCEPT !.landed = storeOk]
    /\ UNCHANGED shadow /\ SaveOnly

\* Mutant of PutFactor: the shadow advances whether the writes landed or not.
PutFactorUnchecked ==
    /\ pc = "put factor"
    /\ Put([nvs EXCEPT !.config[ch].factor = config[ch].factor], "calibration")
    /\ local' = [local EXCEPT !.landed = @ /\ storeOk]
    /\ Goto("mark config")
    /\ UNCHANGED shadow /\ SaveOnly

PutFactor ==
    /\ pc = "put factor"
    /\ Put([nvs EXCEPT !.config[ch].factor = config[ch].factor], "calibration")
    /\ IF local.landed /\ storeOk THEN Goto("mark config") /\ UNCHANGED local
                                  ELSE NextChannel("total?", "channels?") /\ local' = Idle
    /\ UNCHANGED shadow /\ SaveOnly

MarkConfig ==
    /\ pc = "mark config" /\ NextChannel("total?", "channels?")
    /\ shadow' = [shadow EXCEPT !.config[ch] = config[ch]]
    /\ UNCHANGED <<stored, local, result>> /\ SaveOnly

CompareChannels ==
    /\ pc = "channels?" /\ Goto(IF inService # shadow.channels THEN "put channels" ELSE "note")
    /\ UNCHANGED <<shadow, stored, local, result>> /\ SaveOnly

PutChannels ==
    /\ pc = "put channels" /\ Goto(IF storeOk THEN "mark channels" ELSE "note")
    /\ Put([nvs EXCEPT !.channels = inService], "channels")
    /\ UNCHANGED <<shadow, local>> /\ SaveOnly

MarkChannels ==
    /\ pc = "mark channels" /\ Goto("note")
    /\ shadow' = [shadow EXCEPT !.channels = inService]
    /\ UNCHANGED <<stored, local, result>> /\ SaveOnly

Untried == [g \in Groups |-> "untried"]

\* One result for each group that was attempted.
NoteResults ==
    /\ pc = "note" /\ pc' = "panel" /\ ch' = 1
    /\ fails' = [g \in Groups |-> IF result[g] = "untried" THEN fails[g]
                                  ELSE Noted(g, result[g] = "ok")[g]]
    /\ result' = Untried
    /\ UNCHANGED <<shadow, nvs, storeOk, local>> /\ SaveOnly

-----------------------------------------------------------------------------
(* Flash and power *)

StoreTurns ==
    /\ Change /\ storeOk' = ~storeOk
    /\ UNCHANGED <<inService, meter, shadow, nvs, fails, panel, task, core0, metered>>

\* What setup() and the start of the logic task make of the flash.
Loaded ==
    /\ inService' = nvs.channels /\ total' = nvs.total /\ config' = nvs.config
    /\ session' = [c \in Channels |-> 0] /\ pulses' = [c \in Channels |-> 0]
    /\ parked' = [c \in Channels |-> None] /\ exempt' = {} /\ judged' = [c \in Channels |-> 0]
    /\ shadow' = nvs /\ fails' = [g \in Groups |-> 0]
    /\ edit' = None /\ torn' = {}
    /\ pc' = "panel" /\ ch' = 1 /\ local' = Idle /\ result' = Untried
    /\ rate' = 0 /\ polled' = None

PowerCut == Change /\ Loaded /\ UNCHANGED <<nvs, storeOk, edges, metered>>

Init ==
    /\ nvs \in [total : {[c \in Channels |-> 0]}, config : [Channels -> Calibrations],
               channels : {Channels}]
    /\ shadow = nvs
    /\ inService = nvs.channels /\ total = nvs.total /\ config = nvs.config
    /\ session = [c \in Channels |-> 0] /\ pulses = [c \in Channels |-> 0]
    /\ parked = [c \in Channels |-> None] /\ exempt = {} /\ judged = [c \in Channels |-> 0]
    /\ edit = None /\ torn = {}
    /\ storeOk = TRUE /\ fails = [g \in Groups |-> 0]
    /\ pc = "panel" /\ ch = 1 /\ local = Idle /\ result = Untried
    /\ rate = 0 /\ polled = None /\ edges = 0 /\ metered = 0 /\ changes = Changes

EngineStep == Look \/ Clear \/ ComputeRate \/ AddSession \/ AddTotal \/ StoreTotal
SavingStep ==
    \/ NotDue \/ SaveDue
    \/ CompareTotal \/ PutTotal \/ MarkTotal
    \/ CompareConfig \/ PutRange \/ PutFactor \/ MarkConfig
    \/ CompareChannels \/ PutChannels \/ MarkChannels \/ NoteResults

Next ==
    \/ Frames \/ PanelStep \/ EngineStep \/ SavingStep
    \/ PollStore \/ MeasureRate \/ \E c \in Channels : PollLoad(c)
    \/ StoreTurns \/ PowerCut

\* The logic task runs, and a minute is over again and again.
Fairness == WF_vars(PanelStep \/ EngineStep \/ SavingStep) /\ SF_vars(SaveDue)

Spec == Init /\ [][Next]_vars /\ Fairness

-----------------------------------------------------------------------------
(* Properties *)

Volumes == Nat \cup {NaN}

\* Every counter, volume, shadow copy and flash key has a value its store can hold.
TypeOK ==
    /\ inService \subseteq Channels /\ exempt \subseteq Channels
    /\ pulses \in [Channels -> Nat] /\ config \in [Channels -> Calibrations]
    /\ session \in [Channels -> Volumes] /\ total \in [Channels -> Volumes]
    /\ parked \in [Channels -> Calibrations \cup {None}] /\ judged \in [Channels -> Rates]
    /\ edit \in [ch : Channels, to : Calibrations] \cup {None} /\ torn \subseteq Channels
    /\ {nvs, shadow} \subseteq [total : [Channels -> Volumes],
                                config : [Channels -> Calibrations],
                                channels : SUBSET Channels]
    /\ storeOk \in BOOLEAN /\ fails \in [Groups -> 0 .. Alarm]
    /\ pc \in {"panel"} \cup Desk \cup Engine \cup Saving \cup {"due?"} /\ ch \in Channels
    /\ local \in [taken : Nat, volume : Volumes, sum : Volumes, value : Volumes,
                  landed : BOOLEAN]
    /\ result \in [Groups -> {"untried", "ok", "failed"}]
    /\ rate \in Rates /\ polled \in [ch : Channels, count : Nat] \cup {None}
    /\ edges \in Nat /\ metered \in Nat /\ changes \in 0 .. Changes

\* The panel is in the middle of a command for a channel, or a frame came to one.
Unsettled == torn \cup {c \in Channels : edit # None /\ edit.ch = c}

\* The override of a channel is one that calibration k was given, or waits for.
Fits(c, k) ==
    /\ c \in exempt => Valid(k) /\ ~SamplableAt(k, judged[c]) /\ parked[c] = None
    /\ parked[c] # None => Valid(parked[c]) /\ ~SamplableAt(parked[c], judged[c])

\* No reset, change of service, write of a master or edit at the panel leaves an override
\* behind the calibration it was given for: but for the channels where a frame overtook the
\* panel, one is exempt from the sampling limit only under a complete calibration, and waits
\* for a confirmation only of such a one, that was beyond the rate it was judged by.
ExemptionFits == \A c \in Channels \ Unsettled : Fits(c, config[c])

\* A channel that is validly calibrated is not demolished field by field, by a master or at
\* the panel: it stops being so only by a command or a change of service, which clear it
\* whole, by a reboot, or where a frame came between the panel's check and its store.
NotDemolished ==
    [][\A c \in Channels :
          Valid(config[c]) /\ ~Valid(config'[c])
              => \/ config'[c] = Blank \/ config' = nvs.config
                 \/ pc = "put" /\ edit.ch = c /\ c \in torn]_vars

\* (violated) "A channel that IS validly calibrated still cannot be demolished field by
\* field, because each such write would invalidate a valid configuration and is refused
\* here": whoever writes, and whatever comes in between.
NeverDemolished ==
    [][\A c \in Channels :
          Valid(config[c]) /\ ~Valid(config'[c]) => config'[c] = Blank \/ config' = nvs.config]_vars

\* (violated) "Resets automatically when the sensor passes validation": an exemption ends
\* when the loop has become fast enough for its calibration.
ExemptionStillNeeded == \A c \in exempt : ~Samplable(config[c])

Calm == changes = 0 /\ storeOk

\* A frame overtook the saving pass between a write that landed and the shadow it advances.
Overtaken ==
    /\ local.landed
    /\ \/ pc = "mark config" /\ nvs.config[ch] # config[ch]
       \/ pc = "mark channels" /\ nvs.channels # inService

\* One of a calibration's two writes landed and the other did not.
HalfLanded == pc = "put factor" /\ local.landed # storeOk

InFlash == nvs.channels = inService /\ \A c \in inService : nvs.config[c] = config[c]

\* Whatever failed and was retried, and however the power was cut, the calibrations and the
\* channels in service reach flash, provided no frame overtakes a write that lands and
\* the flash takes a calibration whole or not at all.
FlashCatchesUp == []~(Overtaken \/ HalfLanded) /\ <>[]Calm => <>[]InFlash

Dirty(g) == CASE g = "litres"      -> \E c \in inService : total[c] # shadow.total[c]
              [] g = "calibration" -> \E c \in inService : config[c] # shadow.config[c]
              [] g = "channels"    -> inService # shadow.channels

\* A flash that has stopped taking writes is not kept quiet: while there is something to
\* save, its group comes to the alarm and stays there.
AlarmTells ==
    \A g \in Groups : <>[](~storeOk /\ Dirty(g)) => <>[](fails[g] = Alarm)

\* (violated) "How EVERY config change already reaches flash", by a shadow that stays behind
\* a failed write: even where no frame overtakes the saving pass, it does once the flash
\* works again.
EveryConfigReachesFlash == []~Overtaken /\ <>[]Calm => <>[]InFlash

\* (violated) "The gross pair must stay finite".
GrossStaysFinite == \A c \in Channels : session[c] # NaN

\* (violated) "Atomically increment the pulse count": the engine never takes more pulses
\* than there were edges.
PulsesCountedOnce == metered <= edges
=============================================================================
