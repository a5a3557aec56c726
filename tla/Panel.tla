-------------------------------- MODULE Panel --------------------------------
(***************************************************************************)
(* The front panel: three polled buttons (input/button_input), the         *)
(* gestures built on them (input/interaction_handler), the screen stack    *)
(* and value editor they drive (ui/core/ui_navigator, ui_controller,       *)
(* ui_actions), the firmware's Select Menu page (ui/pack/ui_pack_selector) *)
(* and the part of the logic pass in firmware.cpp that acts on the result. *)
(*                                                                         *)
(* One logic pass is the cycle of pc.  Every handler of the pass is an     *)
(* action, in the order the code calls them.  Time is counted in passes,   *)
(* and a timer is kept as the age it has reached.  The screen table is     *)
(* data (ui/generated), given by constants.                                *)
(***************************************************************************)
EXTENDS PanelTable, Integers, Sequences, FiniteSets

CONSTANTS
  LongPress, ComboMax, ChordHold, ToastTime, IdleTime, RestartDelay,
  MaxDepth,     \* capacity of the navigator's stack
  MaxValue, Packs, Active    \* entries of the Select Menu page and the one running

Order == <<"up", "down", "enter">>

ASSUME TimesAssumption ==
  /\ {LongPress, ComboMax, ChordHold, ToastTime, IdleTime, RestartDelay} \subseteq Nat \ {0}
  /\ {MaxDepth, MaxValue} \subseteq Nat /\ Packs \in Nat \ {0} /\ Active \in 0 .. Packs - 1
  /\ \A s \in DOMAIN Guard : Guard[s].time \in Nat \ {0}
  /\ \E s \in DOMAIN Guard : \A other \in DOMAIN Guard : Guard[other].time <= Guard[s].time

ASSUME TableAssumption  == KindsApart
ASSUME FlowAssumption   == FlowsLead
ASSUME SensorAssumption == \E screens \in SUBSET Screens : BelowSensor(screens)

VARIABLES
  pc,         \* the handler of the pass that runs next
  held,       \* [Buttons -> 0..LongPress+1]: 0 up, else 1 + age of the press
  events,     \* the ring of press events
  chord,      \* UP+DOWN+ENTER: 0 or 1 + age
  combo,      \* UP+DOWN: 0 or 1 + age
  ramp,       \* the held-repeat of the editor: [on, button, stepped]
  entry,      \* the timer started on entering a screen: [screen, age, spent]
  hold,       \* the countdown of a guarded action: [screen, age], NoHold when none
  cur, stack, sensor,          \* UiNavigator
  editor,     \* UiEditorState: [on, pending, prompt]
  idle, idleAge,               \* mode_ = Idle, time since the last interaction
  selector,   \* the Select Menu page: [open, cursor]
  openReq, commitReq,          \* what this pass reports to firmware.cpp
  restart,    \* 0, or 1 + age of a scheduled restart
  erased,     \* the factory reset's clear() succeeded
  reported,   \* this pass reports the scheduled restart to firmware.cpp
  fired,      \* guarded action performed in this pass
  enterAge,   \* history: how long ENTER has been down with cur unchanged
  ramped      \* history: the held button whose hold has stepped the value, or "none"

input   == <<held, events>>
timers  == <<chord, combo, ramp, entry, hold>>
nav     == <<cur, stack, sensor>>
ui      == <<editor, idle, idleAge, selector>>
result  == <<openReq, commitReq, restart, erased, reported, fired>>
history == <<enterAge, ramped>>
vars    == <<pc, input, timers, nav, ui, result, history>>

NoHold   == [screen |-> NoScreen, age |-> 0]
NoRamp   == [on |-> FALSE, button |-> "up", stepped |-> FALSE]
NoEdit   == [on |-> FALSE, pending |-> 0, prompt |-> "none"]
MaxGuard == CHOOSE n \in {Guard[s].time : s \in DOMAIN Guard} :
              \A s \in DOMAIN Guard : Guard[s].time <= n

Least(a, b) == IF a < b THEN a ELSE b
Down(b)     == held[b] > 0
Guarded(s)  == s \in DOMAIN Guard

---------------------------------------------------------------------------
(* Buttons. *)

\* One button's edge in a pass that finds the set `now` pressed: the release of a press
\* that was not long, the long press at its threshold, or a repeat of UP or DOWN after it.
Edge(b, now) ==
  LET sent(gesture) == <<[button |-> b, gesture |-> gesture]>> IN
  CASE b \notin now /\ held[b] \in 1 .. LongPress           -> sent("short")
    [] b \in now /\ held[b] = LongPress                     -> sent("long")
    [] b \in now /\ held[b] = LongPress + 1 /\ b # "enter"  -> sent("hold")
    [] OTHER                                                -> <<>>

\* ButtonInputManager::update, and the start of the pass: time moves, the result is empty.
Poll(now) ==
  /\ pc = "poll"
  /\ held' = [b \in Buttons |-> IF b \notin now THEN 0
                                ELSE IF held[b] = 0 THEN 1 ELSE Least(held[b] + 1, LongPress + 1)]
  /\ events' = Edge("up", now) \o Edge("down", now) \o Edge("enter", now)
  /\ idleAge' = Least(idleAge + 1, IdleTime)
  /\ openReq' = FALSE /\ commitReq' = FALSE /\ fired' = "none"
  /\ restart' = IF restart = 0 THEN 0 ELSE Least(restart + 1, RestartDelay + 1)
  /\ enterAge' = IF "enter" \in now /\ Down("enter") THEN Least(enterAge + 1, MaxGuard) ELSE 0
  /\ ramped' = IF ramped # "none" /\ Down(ramped) /\ now \subseteq {ramped, "enter"}
               THEN ramped ELSE "none"
  /\ pc' = "chord"
  /\ UNCHANGED <<timers, nav, editor, idle, selector, erased, reported>>

\* A mutant: nothing is discarded.
WithoutNothing(b) == events

\* ButtonInputManager::discardEvents: a pass has queued one event a button at most.
Kept(i, b) == IF i <= Len(events) /\ events[i].button # b THEN <<events[i]>> ELSE <<>>
Without(b) == Kept(1, b) \o Kept(2, b) \o Kept(3, b)

---------------------------------------------------------------------------
(* Controller and navigator operations shared by the handlers. *)

Notify == idleAge' = 0 /\ idle' = FALSE

\* UiNavigator::escape.
Escape == cur' = Root /\ stack' = <<>> /\ sensor' = 0

\* A mutant: the edit survives the display going off.
EnterIdleKeepsEdit == Escape /\ UNCHANGED editor /\ idle' = TRUE /\ idleAge' = 0

\* UiController::enterIdle, which leaves the device as it will wake.
EnterIdle == Escape /\ editor' = NoEdit /\ idle' = TRUE /\ idleAge' = 0

\* The history of ENTER's hold starts again whenever the screen changes.
Track == enterAge' = IF cur' = cur THEN enterAge ELSE 0

\* A mutant: going back always forgets the sensor.
AscendClears ==
  IF stack = <<>> THEN UNCHANGED nav
  ELSE cur' = stack[Len(stack)] /\ stack' = SubSeq(stack, 1, Len(stack) - 1) /\ sensor' = 0

\* UiNavigator::ascend and descend.
Ascend ==
  IF stack = <<>> THEN UNCHANGED nav
  ELSE /\ cur' = stack[Len(stack)]
       /\ stack' = SubSeq(stack, 1, Len(stack) - 1)
       /\ sensor' = IF Len(stack) = 1 THEN 0 ELSE sensor

Descend(s) ==
  /\ stack' = Append(stack, cur)
  /\ cur' = s
  /\ sensor' = IF cur \in DOMAIN SensorOf THEN SensorOf[cur] ELSE sensor

\* siblingAfter and siblingBefore: the tail sits between the last declared member and the root.
After(declared) ==
  IF stack # <<>> THEN declared
  ELSE IF cur = RootTail THEN Root ELSE IF declared = Root THEN RootTail ELSE declared

LastMember == CHOOSE s \in Screens : \E p \in Presses :
                s # RootTail /\ Flow[s][p] = [act |-> "next", to |-> Root]

Before(declared) ==
  IF stack # <<>> THEN declared
  ELSE IF cur = Root THEN RootTail ELSE IF cur = RootTail THEN LastMember ELSE declared

---------------------------------------------------------------------------
(* The handlers of one pass, in order. *)

\* handleSelectorCombo: the three buttons swallow every event while they are all down, and
\* open the Select Menu once, when they have been down for ChordHold.
Chord ==
  /\ pc = "chord" /\ pc' = "combo"
  /\ IF \A b \in Buttons : Down(b)
       THEN /\ chord' = IF chord = 0 THEN 1 ELSE Least(chord + 1, ChordHold + 1)
            /\ events' = <<>>
            /\ openReq' = (chord' = ChordHold + 1 /\ chord # ChordHold + 1)
       ELSE chord' = 0 /\ UNCHANGED <<events, openReq>>
  /\ UNCHANGED <<held, combo, ramp, entry, hold, nav, ui, commitReq, restart, erased,
                 reported, fired, history>>

\* handleDisplayOffCombo: UP+DOWN released early turns the display off and returns to P0.
DisplayOff ==
  /\ pc = "combo" /\ pc' = "ramp"
  /\ IF Down("up") /\ Down("down") /\ ~Down("enter")
       THEN /\ combo' = IF combo = 0 THEN 1 ELSE Least(combo + 1, ComboMax + 1)
            /\ UNCHANGED <<events, nav, editor, idle, idleAge>>
       ELSE /\ combo' = 0
            /\ IF combo > 0 /\ combo < ComboMax /\ ~Down("enter")
                 THEN EnterIdle /\ events' = <<>>
                 ELSE UNCHANGED <<events, nav, editor, idle, idleAge>>
  /\ Track
  /\ UNCHANGED <<held, chord, ramp, entry, hold, selector, result, ramped>>

\* A mutant: the step is not clamped.
SteppedUnclamped(by) == [editor EXCEPT !.prompt = "none", !.pending = @ + by]

\* UiController::adjustEdit by one step: numerics clamp, and a prompt is dropped.
Stepped(by) == [editor EXCEPT !.prompt = "none",
                  !.pending = IF @ + by < 0 THEN 0 ELSE Least(@ + by, MaxValue)]

StepOf(b) == IF b = "up" THEN 1 ELSE -1

\* handleEditorRepeat: one of UP and DOWN held over an open editor steps the value every
\* interval, and owns that button's events from its first step on.
EditorRamp ==
  LET b     == IF Down("up") THEN "up" ELSE "down"
      alone == Down("up") # Down("down")
      due   == alone /\ ramp.on /\ ramp.button = b
  IN
  /\ pc = "ramp" /\ pc' = "entry"
  /\ ramp' = IF ~editor.on \/ ~alone THEN NoRamp
             ELSE [on |-> TRUE, button |-> b,
                   stepped |-> due \/ (ramp.on /\ ramp.button = b /\ ramp.stepped)]
  /\ events' = IF ~editor.on THEN events
               ELSE IF due THEN Without(b)
               ELSE IF ~alone /\ ramp.on /\ ramp.stepped THEN Without(ramp.button)
               ELSE events
  /\ IF editor.on /\ due
       THEN editor' = Stepped(StepOf(b)) /\ Notify
       ELSE UNCHANGED <<editor, idle, idleAge>>
  /\ ramped' = IF ~editor.on THEN "none" ELSE IF due THEN b ELSE ramped
  /\ UNCHANGED <<held, chord, combo, entry, hold, nav, selector, result, enterAge>>

\* A mutant: a press starts the timer again.
ArrivedOrActive == cur # entry.screen \/ idleAge <= 1

Arrived == cur # entry.screen

\* handleEntryTimer: arriving on a screen restarts the timer; a toast's dismisses it with
\* ui.action.nav.back, once.
EntryTimer ==
  LET due == /\ ~Arrived /\ cur \in Toasts
             /\ ~entry.spent /\ entry.age + 1 >= ToastTime
  IN
  /\ pc = "entry" /\ pc' = "hold"
  /\ entry' = IF Arrived THEN [screen |-> cur, age |-> 0, spent |-> FALSE]
              ELSE IF due THEN [entry EXCEPT !.spent = TRUE, !.age = 0]
              ELSE IF cur \in Toasts /\ ~entry.spent THEN [entry EXCEPT !.age = @ + 1]
              ELSE entry
  /\ IF due THEN Ascend /\ editor' = NoEdit /\ Notify
            ELSE UNCHANGED <<nav, editor, idle, idleAge>>
  /\ Track
  /\ UNCHANGED <<input, chord, combo, ramp, hold, selector, result, ramped>>

\* A mutant: the countdown starts when ENTER went down, wherever that was.
ArmBackdated ==
  /\ hold = NoHold
  /\ hold' = IF Down("enter") /\ ~Down("up") /\ ~Down("down") /\ Guarded(cur)
               THEN [screen |-> cur, age |-> held["enter"] - 1] ELSE NoHold
  /\ UNCHANGED <<events, nav, editor, idle, idleAge, restart, erased, fired, enterAge>>

\* armHoldCountdown: ENTER alone goes down on a screen that declares a hold flow.
Arm ==
  /\ hold = NoHold
  /\ hold' = IF Down("enter") /\ ~Down("up") /\ ~Down("down") /\ Guarded(cur)
               THEN [screen |-> cur, age |-> 0] ELSE NoHold
  /\ UNCHANGED <<events, nav, editor, idle, idleAge, restart, erased, fired, enterAge>>

\* The countdown is aborted by releasing ENTER, and by nothing else.
Abort ==
  /\ hold # NoHold /\ ~Down("enter")
  /\ hold' = NoHold /\ Notify
  /\ UNCHANGED <<events, nav, editor, restart, erased, fired, enterAge>>

Count ==
  /\ hold # NoHold /\ Down("enter")
  /\ hold.age + 1 < Guard[hold.screen].time
  /\ hold' = [hold EXCEPT !.age = @ + 1] /\ Notify
  /\ UNCHANGED <<events, nav, editor, restart, erased, fired, enterAge>>

\* The hold is complete: the action is performed, the queued presses are dropped, and the
\* toast replaces the confirm screen at its depth.  The factory reset schedules the restart
\* instead of being dispatched; its erase may fail.
Complete ==
  LET flow == Guard[hold.screen] IN
  /\ hold # NoHold /\ Down("enter")
  /\ hold.age + 1 >= flow.time
  /\ hold' = NoHold /\ events' = <<>> /\ Notify
  /\ fired' = IF flow.act = "reset-calibration" /\ sensor = 0 THEN "none" ELSE flow.act
  /\ IF flow.act = "factory-reset"
       THEN restart' = 1 /\ erased' \in BOOLEAN /\ UNCHANGED nav
       ELSE /\ IF flow.toast # NoScreen THEN cur' = flow.toast /\ UNCHANGED <<stack, sensor>>
                                        ELSE Ascend
            /\ UNCHANGED <<restart, erased>>
  /\ Track
  /\ UNCHANGED editor

\* handleHoldCountdown, which a scheduled restart keeps out.
Hold ==
  /\ pc = "hold" /\ pc' = "route"
  /\ IF restart = 0 THEN Arm \/ Abort \/ Count \/ Complete
     ELSE UNCHANGED <<hold, events, nav, editor, idle, idleAge, restart, erased, fired, enterAge>>
  /\ UNCHANGED <<held, chord, combo, ramp, entry, selector, openReq, commitReq, reported,
                 ramped>>

\* A mutant: the restart waits for the buttons to be let go.
ReportsWhenFree == restart # 0 /\ ~selector.open /\ \A b \in Buttons : ~Down(b)

\* What update() reports to firmware.cpp; the Select Menu page's early return skips it.
ReportsRestart == restart # 0 /\ ~selector.open

\* Who gets the queued presses: the Select Menu page, the screen's flows, or nobody.
Route ==
  /\ pc = "route"
  /\ IF selector.open THEN pc' = "select" /\ UNCHANGED events
     ELSE IF restart = 0 /\ hold = NoHold THEN pc' = "flow" /\ UNCHANGED events
     ELSE pc' = "idle" /\ events' = <<>>
  /\ reported' = ReportsRestart
  /\ UNCHANGED <<held, timers, nav, ui, openReq, commitReq, restart, erased, fired, history>>

\* handlePackSelector, one press: UP and DOWN move the cursor, ENTER long leaves, and ENTER
\* on what is already running leaves too.
SelectorPress ==
  LET e == Head(events) IN
  /\ pc = "select" /\ events # <<>>
  /\ events' = Tail(events)
  /\ selector' = CASE e.button = "up"   -> [selector EXCEPT !.cursor = (@ + Packs - 1) % Packs]
                   [] e.button = "down" -> [selector EXCEPT !.cursor = (@ + 1) % Packs]
                   [] OTHER -> [selector EXCEPT
                                  !.open = @ /\ e.gesture = "short" /\ selector.cursor # Active]
  /\ commitReq' = (commitReq \/ (e.button = "enter" /\ e.gesture = "short"
                                  /\ selector.cursor # Active))
  /\ Notify
  /\ UNCHANGED <<pc, held, timers, nav, editor, openReq, restart, erased, reported, fired,
                 history>>

---------------------------------------------------------------------------
(* The actions a screen's flows name (ui_actions). *)

Page(target) ==
  /\ cur' = target /\ Notify
  /\ UNCHANGED <<stack, sensor, editor, openReq>>

\* handleNavDescend: a value editor opens on the value in force, anything else closes it.
Open(target) ==
  /\ Notify
  /\ IF Len(stack) >= MaxDepth THEN UNCHANGED <<nav, editor>>
     ELSE /\ Descend(target)
          /\ IF target \in Editors
               THEN \E v \in 0 .. MaxValue :
                      editor' = [on |-> TRUE, pending |-> v, prompt |-> "none"]
               ELSE editor' = NoEdit
  /\ UNCHANGED openReq

\* handleNavBack, handleValueDiscard, and a commit that was accepted.
Back == Notify /\ editor' = NoEdit /\ Ascend /\ UNCHANGED openReq

\* handleValueCommit: a refused write keeps the editor open, with the Nyquist prompt when an
\* override can resolve it and the plain failure otherwise.
Commit ==
  IF ~editor.on THEN Notify /\ UNCHANGED <<nav, editor, openReq>>
  ELSE \/ Back
       \/ /\ Notify /\ UNCHANGED <<nav, openReq>>
          /\ \E p \in {"failed"} \cup (IF sensor > 0 THEN {"nyquist"} ELSE {}) :
               editor' = [editor EXCEPT !.prompt = p]

\* handleValueIncrement and handleValueDecrement: a prompt takes UP as "edit again" and, when
\* it is the Nyquist prompt, DOWN as "save anyway".
Adjust(by) ==
  IF editor.prompt = "nyquist" /\ by < 0 THEN Back
  ELSE /\ UNCHANGED <<nav, openReq>>
       /\ IF ~editor.on THEN UNCHANGED <<editor, idle, idleAge>>
          ELSE IF editor.prompt # "none"
            THEN editor' = [editor EXCEPT !.prompt = "none"] /\ UNCHANGED <<idle, idleAge>>
            ELSE editor' = Stepped(by) /\ Notify

\* handleFlowEvent, one press: matchFlow on the current screen, then the action it names.  The
\* Select Menu request becomes openPackSelector in the same pass.
FlowPress ==
  LET e    == Head(events)
      flow == IF e.gesture = "hold" THEN Nothing ELSE Flow[cur][<<e.button, e.gesture>>]
  IN
  /\ pc = "flow" /\ events # <<>>
  /\ events' = Tail(events)
  /\ CASE flow.act = "next"    -> Page(After(flow.to))
       [] flow.act = "prev"    -> Page(Before(flow.to))
       [] flow.act = "descend" -> Open(flow.to)
       [] flow.act = "back"    -> Back
       [] flow.act = "commit"  -> Commit
       [] flow.act = "adjust"  -> Adjust(StepOf(e.button))
       [] flow.act = "select"  -> Notify /\ openReq' = TRUE /\ UNCHANGED <<nav, editor>>
       [] OTHER                -> Notify /\ UNCHANGED <<nav, editor, openReq>>
  /\ Track
  /\ UNCHANGED <<pc, held, timers, selector, commitReq, restart, erased, reported, fired,
                 ramped>>

PressesDone ==
  /\ pc \in {"select", "flow"} /\ events = <<>>
  /\ pc' = "idle"
  /\ UNCHANGED <<input, timers, nav, ui, result, history>>

---------------------------------------------------------------------------
(* The rest of the logic pass. *)

\* UiController::updateIdleState.
IdleCheck ==
  /\ pc = "idle" /\ pc' = "act"
  /\ IF ~idle /\ idleAge >= IdleTime THEN EnterIdle ELSE UNCHANGED <<nav, editor, idle, idleAge>>
  /\ UNCHANGED <<input, timers, selector, result, history>>

\* A boot: everything in RAM starts again, and a button that is down counts from now.
Start(now) ==
  /\ held' = [b \in Buttons |-> IF b \in now THEN 1 ELSE 0]
  /\ events' = <<>>
  /\ chord' = 0 /\ combo' = 0 /\ ramp' = NoRamp /\ hold' = NoHold
  /\ entry' = [screen |-> NoScreen, age |-> 0, spent |-> FALSE]
  /\ Escape /\ editor' = NoEdit /\ idle' = FALSE /\ idleAge' = 0
  /\ selector' = [open |-> FALSE, cursor |-> Active]
  /\ openReq' = FALSE /\ commitReq' = FALSE /\ restart' = 0 /\ erased' = FALSE
  /\ reported' = FALSE /\ fired' = "none" /\ enterAge' = 0 /\ ramped' = "none"
  /\ pc' = "poll"

Reboot == Start({b \in Buttons : Down(b)})

\* openPackSelector: the list is read from the card, and an open editor is discarded.
OpenSelector ==
  /\ pc = "act" /\ openReq /\ ~selector.open
  /\ selector' = [open |-> TRUE, cursor |-> Active]
  /\ editor' = NoEdit /\ openReq' = FALSE /\ Notify
  /\ UNCHANGED <<pc, input, timers, nav, commitReq, restart, erased, reported, fired, history>>

\* A committed selection restarts the device, or closes the page when the card refused it.
CommitSelection ==
  /\ pc = "act" /\ commitReq
  /\ \/ Reboot
     \/ /\ selector' = [selector EXCEPT !.open = FALSE]
        /\ commitReq' = FALSE /\ Notify
        /\ UNCHANGED <<pc, input, timers, nav, editor, openReq, restart, erased, reported, fired,
                       history>>

\* The scheduled restart is due; a factory reset that erased nothing holds it.
EndPass ==
  /\ pc = "act" /\ ~commitReq /\ (openReq => selector.open)
  /\ IF reported /\ restart > RestartDelay /\ erased THEN Reboot
     ELSE pc' = "poll" /\ UNCHANGED <<input, timers, nav, ui, result, history>>

---------------------------------------------------------------------------
Init ==
  /\ pc = "poll" /\ held = [b \in Buttons |-> 0] /\ events = <<>>
  /\ chord = 0 /\ combo = 0 /\ ramp = NoRamp /\ hold = NoHold
  /\ entry = [screen |-> NoScreen, age |-> 0, spent |-> FALSE]
  /\ cur = Root /\ stack = <<>> /\ sensor = 0
  /\ editor = NoEdit /\ idle = FALSE /\ idleAge = 0
  /\ selector = [open |-> FALSE, cursor |-> Active]
  /\ openReq = FALSE /\ commitReq = FALSE /\ restart = 0 /\ erased = FALSE
  /\ reported = FALSE /\ fired = "none" /\ enterAge = 0 /\ ramped = "none"

Pass == \E now \in SUBSET Buttons : Poll(now)

Handler ==
  \/ Chord \/ DisplayOff \/ EditorRamp \/ EntryTimer \/ Hold \/ Route
  \/ SelectorPress \/ FlowPress \/ PressesDone
  \/ IdleCheck \/ OpenSelector \/ CommitSelection \/ EndPass

Next == Pass \/ Handler

\* The logic task runs for ever.
Spec == Init /\ [][Next]_vars /\ WF_vars(Next)

---------------------------------------------------------------------------
(* Properties. *)

\* Every counter, gate and screen index of the panel's pass has a value its field can hold.
TypeOK ==
  /\ pc \in {"poll", "chord", "combo", "ramp", "entry", "hold", "route", "select", "flow",
             "idle", "act"}
  /\ held \in [Buttons -> 0 .. LongPress + 1] /\ Len(events) <= 3
  /\ chord \in 0 .. ChordHold + 1 /\ combo \in 0 .. ComboMax + 1
  /\ hold.screen \in {NoScreen} \cup DOMAIN Guard
  /\ cur \in Screens /\ stack \in Seq(Screens) /\ Len(stack) <= MaxDepth
  /\ sensor \in {0} \cup {SensorOf[s] : s \in DOMAIN SensorOf}
  /\ editor.pending \in 0 .. MaxValue /\ editor.prompt \in {"none", "nyquist", "failed"}
  /\ selector.cursor \in 0 .. Packs - 1 /\ restart \in 0 .. RestartDelay + 1

\* An open editor belongs to the screen on the panel: no way of leaving an editor screen, by a
\* press, the display-off gesture, the inactivity timeout or a toast, leaves an editor behind
\* that UP, DOWN or ENTER would then act on invisibly (ui_controller.cpp:84, ui_actions.cpp:49).
EditorOnItsScreen == editor.on => cur \in Editors

\* Standing below a sensor's list page, the sensor the panel acts on is that page's: a
\* calibration reset never reaches another channel (ui_actions.cpp:163, ui_navigator.cpp:189).
SensorFollowsStack ==
  \A i \in 1 .. Len(stack) : stack[i] \in DOMAIN SensorOf => sensor = SensorOf[stack[i]]

\* A guarded action is performed only when ENTER has been down for the whole of the guard's
\* time with no press, gesture or toast moving the panel off the confirm screen that declares
\* it (interaction_handler.cpp:504).  The inactivity timeout is the exception the history
\* allows: in the pass that arms the countdown nothing counts as interaction yet, so the
\* timeout of that very pass leaves the countdown running over P0.
FullHold ==
  [][fired' # fired /\ fired' # "none" =>
       \E s \in DOMAIN Guard : Guard[s].act = fired' /\ enterAge >= Guard[s].time]_vars

\* A hold that has stepped the value adds nothing on its release: what the editor then shows is
\* the value the ramp reached (interaction_handler.cpp:133).  The other of UP and DOWN must stay
\* up: a hand-over within one pass restarts the ramp without discarding the release.
RampOwnsItsRelease ==
  [][pc = "flow" /\ pc' = "flow" /\ editor.on /\ editor'.on /\ Head(events).button = ramped =>
       editor'.pending = editor.pending]_vars

\* A toast above a screen leaves the panel by itself (interaction_handler.cpp:331).  One that
\* replaced P0, which takes the timeout FullHold speaks of, has no screen to go back to and
\* stays while buttons are pressed.
ToastLeaves == (cur \in Toasts /\ stack # <<>>) ~> (cur \notin Toasts)

\* A factory reset that erased the store restarts the device, unless the Select Menu page,
\* whose passes do not report the restart, stays open (interaction_handler.cpp:101).
RestartHappens == (restart # 0 /\ erased) ~> (restart = 0 \/ selector.open)

\* The claim of interaction_handler.cpp:101: while the Select Menu page is open it owns the
\* buttons, so no guarded action is performed beneath it.
SelectorOwnsButtons == [][fired' # fired /\ fired' # "none" => ~selector.open]_vars

\* The claim of docs/Requirements/Gesture_Reference.md:143: the press that wakes the display
\* wakes only, and the panel is on P0.
WakesOnP0 == [][idle /\ ~idle' => cur' = Root]_vars

=============================================================================
