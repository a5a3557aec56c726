---------------------------- MODULE LinkSettings ----------------------------
(***************************************************************************)
(* The RS485 link settings: LinkSettingsManager, the Modbus handlers that  *)
(* stage, commit and confirm a change, the display's local commit, and the *)
(* part of the logic pass that saves the settings, reopens the port and    *)
(* rolls an unconfirmed change back.                                       *)
(*                                                                         *)
(* Two tasks share the manager.  The eModbus server task (priority 8)      *)
(* preempts the logic task (priority 1) on the same core, so a frame's     *)
(* handler is one step, while the logic pass is cut wherever a frame may   *)
(* be served in between.  Baud rate, parity and stop bits are one `line'.  *)
(***************************************************************************)
EXTENDS Naturals, FiniteSets

CONSTANTS
    Ids,            \* the slave IDs in play (1..247 in the code)
    Lines,          \* the UART configurations in play (baud, parity, stop bits)
    DefaultId,      \* LinkSettings{}.slaveId
    DefaultLine,    \* LinkSettings{}'s 9600 8N1
    Window,         \* kRollbackWindowMs, in ticks
    Wrap,           \* millis() is a counter modulo Wrap (2^32 in the code)
    MaxLag,         \* bound: ticks between two starts of the logic pass
    RevMod          \* the width of revision_ (2^16 in the code)

ASSUME DefaultAssumption == DefaultId \in Ids /\ DefaultLine \in Lines
ASSUME WindowAssumption  == Window \in Nat \ {0}
ASSUME WrapAssumption    == Wrap \in Nat /\ Wrap > Window + MaxLag
ASSUME LagAssumption     == MaxLag \in Nat
ASSUME RevAssumption     == RevMod \in Nat \ {0}
ASSUME LineAssumption    == "closed" \notin Lines     \* a closed port has no line

Settings == [id : Ids, line : Lines]
Default  == [id |-> DefaultId, line |-> DefaultLine]
Time     == 0 .. Wrap - 1

VARIABLES
    live, staged, previous,     \* the manager: live_, staged_, previous_
    awaiting, appliedAt,        \*   awaitingConfirm_, appliedAtMs_
    revision,                   \*   revision_
    pending,                    \* linkRestartPending_ of ModbusManager
    nvs,                        \* the four link keys of the preferences store
    uart,                       \* the line the port is open on, or Closed
    workers, bound,             \* eModbus' workerMap and registeredSlaveId
    clock, now,                 \* millis(), and the pass's copy of it
    pc, after,                  \* where the logic pass is, and where a restart returns
    restartScheduled,           \* a factory reset's reboot is coming
    age, owner                  \* history: ticks since the last commit, and who
                                \*   made live
Closed == "closed"
mgr  == <<live, staged, previous, awaiting, appliedAt, revision>>
hw   == <<uart, workers, bound>>
pass == <<pc, after>>
time == <<clock, now>>
hist == <<age, owner>>
vars == <<mgr, pending, nvs, hw, time, pass, restartScheduled, hist>>

PassPoints == {"idle", "ui", "uiApply", "consume", "clearSet", "clearUnset",
               "saveId", "saveLine", "close", "bind", "unbind", "open", "check",
               "rollback", "end"}

-----------------------------------------------------------------------------
(* LinkSettingsManager *)

\* Mutant of Begin: the factory reset leaves an armed window armed.
BeginKeepsWindow(s) ==
    /\ live' = s /\ staged' = s /\ previous' = s
    /\ UNCHANGED awaiting /\ appliedAt' = 0 /\ revision' = 0

\* begin(): the stored settings go live and nothing is staged or armed.
Begin(s) ==
    /\ live' = s /\ staged' = s /\ previous' = s
    /\ awaiting' = FALSE /\ appliedAt' = 0 /\ revision' = 0

\* stage(): the display starts from live_, the bus from staged_.
Stage(base, field, value) == staged' = [base EXCEPT ![field] = value]

\* Mutant of Apply: the window is set by a bus apply and not cleared by a display one.
ApplyOnlySets(fromBus) ==
    IF staged = live
    THEN UNCHANGED <<live, staged, previous, awaiting, appliedAt, revision, pending,
                     age, owner>>
    ELSE /\ previous' = live
         /\ live' = staged
         /\ revision' = (revision + 1) % RevMod
         /\ awaiting' = (awaiting \/ fromBus)
         /\ appliedAt' = clock /\ age' = 0
         /\ pending' = TRUE
         /\ owner' = IF fromBus THEN "bus" ELSE "trusted"
         /\ UNCHANGED staged

\* apply(): nothing to do, or the staged settings go live and the origin decides
\* whether the rollback window is armed.
Apply(fromBus) ==
    IF staged = live
    THEN /\ staged' = live
         /\ UNCHANGED <<live, previous, awaiting, appliedAt, revision, pending,
                        age, owner>>
    ELSE /\ previous' = live
         /\ live' = staged
         /\ revision' = (revision + 1) % RevMod
         /\ awaiting' = fromBus
         /\ appliedAt' = clock
         /\ pending' = TRUE
         /\ age' = 0
         /\ owner' = IF fromBus THEN "bus" ELSE "trusted"
         /\ UNCHANGED staged

\* The confirming test of noteValidFrame(), made before the request is executed.
Confirms(servedId) == servedId = live.id

RollbackDue == awaiting /\ (now - appliedAt) % Wrap >= Window

\* Mutant of Rollback: the revision wraps nowhere.
RollbackWideRevision ==
    /\ live' = previous /\ staged' = previous
    /\ revision' = revision + 1
    /\ awaiting' = FALSE
    /\ owner' = "trusted"
    /\ UNCHANGED <<previous, appliedAt>>

\* Mutant of Rollback: the revision does not tell a master the settings went back.
RollbackUncounted ==
    /\ live' = previous /\ staged' = previous
    /\ awaiting' = FALSE
    /\ owner' = "trusted"
    /\ UNCHANGED <<previous, appliedAt, revision>>

Rollback ==
    /\ live' = previous /\ staged' = previous
    /\ revision' = (revision + 1) % RevMod
    /\ awaiting' = FALSE
    /\ owner' = "trusted"
    /\ UNCHANGED <<previous, appliedAt>>

-----------------------------------------------------------------------------
(* The eModbus server task: one step per frame, on an ID it is registered for *)
(* and a line the port is open on.                                            *)

Served(id) == uart \in Lines /\ id \in workers

\* Mutant of ServeRead: any frame served, on whatever ID, restarts the window.
ServeReadRestartsWindow(id) ==
    /\ Served(id)
    /\ awaiting
    /\ IF Confirms(id) THEN awaiting' = FALSE /\ owner' = "trusted" /\ UNCHANGED appliedAt
                       ELSE appliedAt' = clock /\ UNCHANGED <<awaiting, owner>>
    /\ UNCHANGED <<live, staged, previous, revision, pending, nvs, hw,
                   time, pass, restartScheduled, age>>

\* A read, or a write that touches nothing modelled here or is refused.
ServeRead(id) ==
    /\ Served(id)
    /\ Confirms(id) /\ awaiting
    /\ awaiting' = FALSE /\ owner' = "trusted"
    /\ UNCHANGED <<live, staged, previous, appliedAt, revision, pending, nvs, hw,
                   time, pass, restartScheduled, age>>

\* A write to 40-43.
ServeStage(id, field, value) ==
    /\ Served(id)
    /\ Stage(staged, field, value)
    /\ awaiting' = (awaiting /\ ~Confirms(id))
    /\ owner' = IF Confirms(id) THEN "trusted" ELSE owner
    /\ UNCHANGED <<live, previous, appliedAt, revision, pending, nvs, hw, time,
                   pass, restartScheduled, age>>

\* 0x5AA5 to 44, where the settings differ.
ServeApply(id) ==
    /\ Served(id)
    /\ staged # live
    /\ Apply(TRUE)
    /\ UNCHANGED <<nvs, hw, time, pass, restartScheduled>>

Bus ==
    \E id \in Ids :
        \/ ServeRead(id)
        \/ \E v \in Ids : ServeStage(id, "id", v)
        \/ \E v \in Lines : ServeStage(id, "line", v)
        \/ ServeApply(id)

-----------------------------------------------------------------------------
(* The logic task: one pass is BeginPass .. idle *)

At(p) == pc = p
Goto(p) == pc' = p /\ UNCHANGED after
Quiet == UNCHANGED <<nvs, hw, time, restartScheduled>>

\* now = millis(), once per pass.
BeginPass ==
    /\ At("idle")
    /\ now' = clock
    /\ Goto("ui")
    /\ UNCHANGED <<mgr, pending, nvs, hw, clock, restartScheduled, hist>>

SkipUi ==
    /\ At("ui")
    /\ Goto("consume")
    /\ Quiet
    /\ UNCHANGED <<mgr, pending, age, owner>>

\* The operator commits one field: stage, then apply, with a preemption point between.
DisplayStage(field, value) ==
    /\ At("ui") /\ ~restartScheduled
    /\ Stage(live, field, value)
    /\ Goto("uiApply")
    /\ Quiet
    /\ UNCHANGED <<live, previous, awaiting, appliedAt, revision, pending, age, owner>>

DisplayApply ==
    /\ At("uiApply")
    /\ Apply(FALSE)
    /\ Goto("consume")
    /\ Quiet

\* performFactoryReset(): the store is cleared and the defaults go live, but the
\* port and the workers stay as they are until the reboot.
FactoryReset ==
    /\ At("ui") /\ ~restartScheduled
    /\ Begin(Default)
    /\ nvs' = Default
    /\ restartScheduled' = TRUE
    /\ owner' = "trusted"
    /\ Goto("consume")
    /\ UNCHANGED <<pending, hw, time, age>>

\* consumeLinkRestartRequest() reads the flag, then clears it.
ConsumeRead ==
    /\ At("consume")
    /\ Goto(IF pending THEN "clearSet" ELSE "clearUnset")
    /\ Quiet
    /\ UNCHANGED <<mgr, pending, age, owner>>

ConsumeClear ==
    /\ At("clearSet") \/ At("clearUnset")
    /\ pending' = FALSE
    /\ pc' = IF At("clearSet") THEN "saveId" ELSE "check"
    /\ after' = "check"
    /\ Quiet
    /\ UNCHANGED <<mgr, age, owner>>

\* saveLinkSettings() writes key by key through a reference to live_.
SaveId ==
    /\ At("saveId")
    /\ nvs' = [nvs EXCEPT !.id = live.id]
    /\ Goto("saveLine")
    /\ UNCHANGED <<mgr, pending, hw, time, restartScheduled, hist>>

SaveLine ==
    /\ At("saveLine")
    /\ nvs' = [nvs EXCEPT !.line = live.line]
    /\ Goto("close")
    /\ UNCHANGED <<mgr, pending, hw, time, restartScheduled, age, owner>>

\* restartRs485(): close, bind the new ID, unbind the old one, reopen.
ClosePort ==
    /\ At("close")
    /\ uart' = Closed
    /\ Goto(IF bound = live.id THEN "open" ELSE "bind")
    /\ UNCHANGED <<mgr, pending, nvs, workers, bound, time, restartScheduled, hist>>

BindNew ==
    /\ At("bind")
    /\ workers' = workers \cup {live.id}
    /\ Goto("unbind")
    /\ UNCHANGED <<mgr, pending, nvs, uart, bound, time, restartScheduled, hist>>

\* Mutant of UnbindOld: the old ID stays registered.
UnbindNothing ==
    /\ At("unbind")
    /\ bound' = live.id
    /\ Goto("open")
    /\ UNCHANGED <<mgr, pending, nvs, uart, workers, time, restartScheduled, hist>>

UnbindOld ==
    /\ At("unbind")
    /\ workers' = workers \ {bound}
    /\ bound' = live.id
    /\ Goto("open")
    /\ UNCHANGED <<mgr, pending, nvs, uart, time, restartScheduled, hist>>

OpenPort ==
    /\ At("open")
    /\ uart' = live.line
    /\ pc' = after /\ after' = "check"
    /\ UNCHANGED <<mgr, pending, nvs, workers, bound, time, restartScheduled, hist>>

\* The rollback test of the pass, against the pass's own copy of the time.
CheckRollback ==
    /\ At("check")
    /\ Goto(IF RollbackDue THEN "rollback" ELSE "end")
    /\ Quiet
    /\ UNCHANGED <<mgr, pending, age, owner>>

\* Mutant of DoRollback: the settings go back but the port is not restarted.
DoRollbackWithoutRestart ==
    /\ At("rollback")
    /\ IF ~awaiting \/ previous = live
       THEN /\ awaiting' = FALSE
            /\ UNCHANGED <<live, staged, previous, appliedAt, revision, owner>>
       ELSE Rollback
    /\ Goto("end")
    /\ Quiet
    /\ UNCHANGED <<pending, age>>

DoRollback ==
    /\ At("rollback")
    /\ IF ~awaiting \/ previous = live
       THEN /\ awaiting' = FALSE /\ Goto("end")
            /\ UNCHANGED <<live, staged, previous, appliedAt, revision, owner>>
       ELSE /\ Rollback
            /\ pc' = "saveId" /\ after' = "end"
    /\ Quiet
    /\ UNCHANGED <<pending, age>>

\* The reboot a factory reset scheduled is not due yet, or there is none.
EndPass ==
    /\ At("end")
    /\ Goto("idle")
    /\ Quiet
    /\ UNCHANGED <<mgr, pending, age, owner>>

PassStep ==
    \/ BeginPass \/ SkipUi \/ DisplayApply \/ FactoryReset
    \/ \E v \in Ids : DisplayStage("id", v)
    \/ \E v \in Lines : DisplayStage("line", v)
    \/ ConsumeRead \/ ConsumeClear
    \/ SaveId \/ SaveLine \/ ClosePort \/ BindNew \/ UnbindOld \/ OpenPort
    \/ CheckRollback \/ DoRollback \/ EndPass

-----------------------------------------------------------------------------
(* Boot, power and time *)

\* setup() and the start of the logic task: load, open the port, bind the workers.
Boot ==
    /\ Begin(nvs)
    /\ uart' = nvs.line /\ workers' = {nvs.id} /\ bound' = nvs.id
    /\ pending' = FALSE /\ restartScheduled' = FALSE
    /\ clock' = 0 /\ now' = 0
    /\ pc' = "idle" /\ after' = "check"
    /\ age' = Window /\ owner' = "trusted"
    /\ UNCHANGED nvs

PowerCut == Boot

ScheduledRestart == At("end") /\ restartScheduled /\ Boot

Tick ==
    /\ (clock - now) % Wrap < MaxLag
    /\ clock' = (clock + 1) % Wrap
    /\ age' = IF age < Window THEN age + 1 ELSE age
    /\ UNCHANGED <<mgr, pending, nvs, hw, now, pass, restartScheduled, owner>>

Init ==
    /\ nvs \in Settings
    /\ live = nvs /\ staged = nvs /\ previous = nvs
    /\ awaiting = FALSE /\ appliedAt = 0 /\ revision = 0
    /\ pending = FALSE /\ restartScheduled = FALSE
    /\ uart = nvs.line /\ workers = {nvs.id} /\ bound = nvs.id
    /\ clock = 0 /\ now = 0
    /\ pc = "idle" /\ after = "check"
    /\ age = Window /\ owner = "trusted"

Next == Bus \/ PassStep \/ PowerCut \/ ScheduledRestart \/ Tick

\* The logic task is never starved for good and time passes.  A scheduled reboot is
\* due at the end of every pass from some time on, so it cannot be passed by for
\* ever.  Frames, the operator and power cuts are not fair.
Fairness == WF_vars(PassStep) /\ WF_vars(Tick) /\ SF_vars(ScheduledRestart)

Spec == Init /\ [][Next]_vars /\ Fairness
-----------------------------------------------------------------------------
(* Properties *)

\* Every variable has a value its field, flag or flash key can hold.
TypeOK ==
    /\ live \in Settings /\ staged \in Settings /\ previous \in Settings
    /\ awaiting \in BOOLEAN /\ appliedAt \in Time /\ revision \in 0 .. RevMod - 1
    /\ pending \in BOOLEAN /\ nvs \in Settings
    /\ uart \in Lines \cup {Closed} /\ workers \subseteq Ids /\ bound \in Ids
    /\ clock \in Time /\ now \in Time
    /\ pc \in PassPoints /\ after \in {"check", "end"}
    /\ restartScheduled \in BOOLEAN
    /\ age \in 0 .. Window /\ owner \in {"bus", "trusted"}

\* While the rollback window is armed, previous_ still holds something else to go
\* back to: no interleaving of bus applies, display commits, factory resets and
\* rollbacks leaves an armed window whose rollback() would be the no-op of its
\* second test.
UndoExists == awaiting => previous # live

\* The settings on trial are exactly those the armed window guards: an armed window
\* is never left behind over settings that were made at the display, confirmed, rolled
\* back or reset, and bus settings nobody confirmed are never without it.
TrialIsArmed == awaiting <=> owner = "bus"

\* The ID the pass believes it registered is served, and outside the two halves of a
\* rebind it is the only one: no stale ID keeps answering.
BoundIsServed ==
    /\ bound \in workers
    /\ ~At("unbind") => workers = {bound}

\* What the manager promises: the live settings change only by a trial a frame
\* opened, by a local commit, by going back to exactly what the open trial replaced,
\* or by a reload; and every change but a reload is visible in the revision register.
Trial == INSTANCE LinkTrial WITH cur <- live, prior <- previous, by <- owner,
                                 rev <- revision
ImplementsTrial == Trial!Spec

\* An apply made over the bus does not stay unconfirmed: a frame on the new ID
\* confirms it or the pass rolls it back, unless another apply restarts the window.
UnconfirmedResolves == (awaiting /\ age > 0) ~> (~awaiting \/ age = 0)

\* Even when the restart request of an ID change is lost, the ID the workers serve
\* and the live ID come together again, unless another apply follows.
IdHeals == (bound # live.id /\ age > 0) ~> (bound = live.id \/ age = 0)

\* (violated) Project_document.md, 4.1.1 step 4: the previous settings come back only
\* if no valid frame arrives within the window of an apply.
RollbackOnlyAfterWindow ==
    [][pc = "rollback" /\ live' # live /\ pc' = "saveId" => age >= Window]_vars

\* (violated) firmware.cpp, restartRs485: both callers mean "make the hardware match
\* linkSettings.live()".  Between two passes, with no restart requested and no reboot
\* coming, it does.
HardwareMatchesLive ==
    At("idle") /\ ~pending /\ ~restartScheduled => uart = live.line /\ bound = live.id
=============================================================================
