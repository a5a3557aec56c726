-------------------------------- MODULE MenuCard --------------------------------
(***************************************************************************)
(* The menu pack on the SD card and the bus it shares with the display:    *)
(* the boot ladder of ui/pack/ui_pack_loader with its attempt counter, the *)
(* card operations of ui/pack/ui_pack_storage_sd, the bus/spi_arbiter      *)
(* between the card and ui/core/ui_renderer, and the part of the logic     *)
(* pass of firmware.cpp that draws, confirms the pack, opens the Select    *)
(* Menu page, commits a selection and sets the card LED.                   *)
(*                                                                         *)
(* One task does all of it; what comes from outside is the operator, the   *)
(* card, writes that fail, a pack that takes the device down, and power.   *)
(***************************************************************************)
EXTENDS Naturals

CONSTANTS
  Edits,      \* bound on what the operator does with the card and the page
  Faults      \* bound on the writes that fail

VARIABLES
  owner, repaintOwed,              \* SpiArbiter: state_, fullRepaintOwed_; a frame is open only inside Render
  card, pack, pointer,             \* a card is in; what kind of pack is named on it; /ui/active
  attempts,                        \* ui_pack_try
  pc,                              \* where setup() or the pass is
  outcome, confirmed,              \* packOutcome, packRenderConfirmed
  mounted,                         \* SdPackStorage::mounted_
  screen, asked, selecting, commit, \* the UI: screen or "idle"; openPackSelector; selectorActive; the committed entry
  lastScreen, idlePainted, fatal,  \* UiRenderer: lastScreen_, idlePainted_; the first frame may take it down
  shown,                           \* what the panel displays
  led,                             \* the CardBusy override
  cleared,                         \* the guard has deleted the selection, and nothing was tried since
  edits, faults

arbiter   == <<owner, repaintOwed>>
sdcard    == <<card, pack, pointer>>
loader    == <<attempts, outcome, confirmed, mounted, cleared>>
ui        == <<screen, asked, selecting, commit>>
memory    == <<lastScreen, idlePainted, fatal>>
renderer  == <<memory, shown>>
cardVars  == <<arbiter, sdcard, loader, pc, ui, renderer, led, edits, faults>>

kMaxAttempts == 2
PackKinds    == {"good", "missing", "invalid", "wild"}   \* a wild pack validates and may take the renderer down
NoCommit     == "none"
Nothing      == "nothing"                     \* lastScreen_ = nullptr

-----------------------------------------------------------------------------
(* SpiArbiter, and takeBus and releaseBus around each card operation.      *)

mayBeginFrame == owner \in {"display", "resuming"}

\* A mutant: no repaint is owed.
releaseCardQuietly == owner' = "resuming" /\ UNCHANGED repaintOwed

releaseCard == owner' = "resuming" /\ repaintOwed' = TRUE

\* A card operation: no frame is open outside Render, so requestCard is granted at once.
\* What the panel shows afterwards is from before it.
CardOperation == releaseCard /\ shown' = "old"

\* A write that may fail.
Fails == faults < Faults /\ faults' = faults + 1
Holds == UNCHANGED faults

-----------------------------------------------------------------------------
(* PackLoader::load, in setup().                                           *)

\* Step 2.  The selection is cleared if the card can be reached.
Guard ==
  /\ pc = "boot" /\ attempts >= kMaxAttempts
  /\ pc' = "render" /\ outcome' = "guard"
  /\ \/ /\ card /\ mounted' = TRUE /\ CardOperation
        /\ \/ pointer' = FALSE /\ cleared' = TRUE /\ Holds
           \/ UNCHANGED <<pointer, cleared>> /\ Fails
     \/ ~card /\ UNCHANGED <<mounted, arbiter, shown, pointer, cleared>> /\ Holds
  /\ UNCHANGED <<card, pack, attempts, confirmed, ui, memory, led, edits>>

\* Steps 3 to 5: no card, no selection on it, or one whose name is unsafe or of no file.
NothingToLoad ==
  /\ pc = "boot" /\ attempts < kMaxAttempts
  /\ \/ ~card /\ outcome' = "noCard"
     \/ card /\ ~pointer /\ outcome' = "noPointer"
     \/ card /\ pointer /\ pack = "missing" /\ outcome' = "missing"
  /\ pc' = "render"
  /\ mounted' = card
  /\ IF card THEN CardOperation ELSE UNCHANGED <<arbiter, shown>>
  /\ UNCHANGED <<sdcard, attempts, confirmed, cleared, ui, memory, led, edits, faults>>

\* Step 6: the attempt is counted before the pack is touched.
Try ==
  /\ pc = "boot" /\ attempts < kMaxAttempts /\ card /\ pointer /\ pack # "missing"
  /\ pc' = "try" /\ mounted' = TRUE
  /\ CardOperation
  /\ \/ attempts' = attempts + 1 /\ Holds
     \/ UNCHANGED attempts /\ Fails
  /\ cleared' = FALSE
  /\ UNCHANGED <<sdcard, outcome, confirmed, ui, memory, led, edits>>

\* Steps 7 and 8: read, too large or short or refused by MenuPack::validate, or accepted.
Validate ==
  /\ pc = "try" /\ pc' = "render"
  /\ outcome' = IF pack \in {"good", "wild"} THEN "cardPack" ELSE "invalid"
  /\ fatal' = (pack = "wild")
  /\ CardOperation
  /\ UNCHANGED <<sdcard, attempts, confirmed, mounted, cleared, ui, lastScreen, idlePainted, led,
                 edits, faults>>

-----------------------------------------------------------------------------
(* The pass.                                                               *)

Wanted == IF selecting THEN "selector" ELSE IF screen = "idle" THEN "blank" ELSE screen

\* UiRenderer::update: a whole frame, or none; the throttle may let an unchanged screen wait.
Frame ==
  /\ repaintOwed' = FALSE
  /\ owner' = "display" /\ fatal' = FALSE
  /\ LET seen == IF repaintOwed THEN Nothing ELSE lastScreen IN
       \/ /\ selecting /\ shown' = "selector"
          /\ lastScreen' = Nothing /\ UNCHANGED idlePainted
       \/ /\ ~selecting /\ screen = "idle" /\ idlePainted
          /\ lastScreen' = seen /\ UNCHANGED <<shown, idlePainted>>
       \/ /\ ~selecting /\ screen = "idle" /\ ~idlePainted
          /\ idlePainted' = TRUE /\ shown' = "blank" /\ lastScreen' = Nothing
       \/ /\ ~selecting /\ screen # "idle" /\ screen = seen     \* unchanged, and not yet due
          /\ lastScreen' = seen /\ UNCHANGED <<shown, idlePainted>>
       \/ /\ ~selecting /\ screen # "idle"
          /\ shown' = screen /\ lastScreen' = screen /\ idlePainted' = FALSE

Render ==
  /\ pc = "render" /\ pc' = "confirm"
  /\ IF mayBeginFrame THEN Frame ELSE UNCHANGED <<arbiter, renderer>>
  /\ UNCHANGED <<sdcard, loader, ui, led, edits, faults>>

\* A wild pack takes the device down while it is drawn, and the watchdog restarts it.
Restart ==
  /\ pc' = "boot" /\ outcome' = "none" /\ confirmed' = FALSE /\ mounted' = FALSE
  /\ owner' = "display" /\ repaintOwed' = FALSE
  /\ screen' = "home" /\ asked' = FALSE /\ selecting' = FALSE /\ commit' = NoCommit
  /\ lastScreen' = Nothing /\ idlePainted' = FALSE /\ fatal' = FALSE /\ shown' = "old"
  /\ led' = FALSE

Crash ==
  /\ pc = "render" /\ fatal
  /\ Restart
  /\ UNCHANGED <<sdcard, attempts, cleared, edits, faults>>

\* A mutant: the counter is cleared once the pack has validated.
ConfirmableEarly == pc \in {"render", "confirm"} /\ outcome = "cardPack"

Confirmable == pc = "confirm" /\ outcome = "cardPack"

\* Step 11: the first frame of a card pack clears the counter.
Confirm ==
  /\ Confirmable /\ ~confirmed /\ mayBeginFrame
  /\ confirmed' = TRUE
  /\ \/ attempts' = 0 /\ Holds
     \/ UNCHANGED attempts /\ Fails
  /\ UNCHANGED <<arbiter, sdcard, outcome, mounted, cleared, pc, ui, renderer, led, edits>>

Confirmed ==
  /\ pc = "confirm" /\ (confirmed \/ outcome # "cardPack" \/ ~mayBeginFrame)
  /\ pc' = "menu"
  /\ UNCHANGED <<arbiter, sdcard, loader, ui, renderer, led, edits, faults>>

\* notifyInteraction.
Woken == screen' = IF screen = "idle" THEN "home" ELSE screen

\* openPackSelector: the directory and the selection are read, whatever is found.
OpenSelector ==
  /\ pc = "menu" /\ asked /\ ~selecting
  /\ asked' = FALSE /\ selecting' = TRUE /\ Woken
  /\ mounted' = (mounted \/ card)
  /\ CardOperation
  /\ UNCHANGED <<sdcard, attempts, outcome, confirmed, cleared, pc, commit, memory,
                 led, edits, faults>>

\* A selection that is not there cannot be removed: the page closes as after a failure.
Storable == commit = "pack" \/ pointer

\* writePointer keeps the bus, for the caller is to restart; deletePointer gives it back.
CommitSelection ==
  /\ pc = "menu" /\ commit # NoCommit
  /\ \/ /\ card /\ Storable /\ Holds
        /\ pointer' = (commit = "pack") /\ Restart
        /\ UNCHANGED <<card, pack, attempts, cleared>>
     \/ /\ mounted \/ card                                \* a removed card answers nothing
        /\ IF card /\ Storable THEN Fails ELSE Holds
        /\ mounted' = TRUE
        /\ IF commit = "pack" THEN owner' = "card" /\ UNCHANGED repaintOwed
                              ELSE releaseCard
        /\ commit' = NoCommit /\ selecting' = FALSE /\ Woken
        /\ shown' = "old" /\ pc' = "led"
        /\ UNCHANGED <<sdcard, attempts, outcome, confirmed, cleared, asked, memory, led>>
     \/ /\ ~mounted /\ ~card /\ Holds                     \* mount() fails
        /\ releaseCard
        /\ commit' = NoCommit /\ selecting' = FALSE /\ Woken
        /\ shown' = "old" /\ pc' = "led"
        /\ UNCHANGED <<sdcard, loader, asked, memory, led>>
  /\ UNCHANGED edits

NoMenu ==
  /\ pc = "menu" /\ (~asked \/ selecting) /\ commit = NoCommit
  /\ asked' = FALSE
  /\ pc' = "led"
  /\ UNCHANGED <<arbiter, sdcard, loader, screen, selecting, commit, renderer, led, edits, faults>>

\* setCardBusy or clearCardBusy.
Led ==
  /\ pc = "led" /\ pc' = "render"
  /\ led' = (owner = "card")
  /\ UNCHANGED <<arbiter, sdcard, loader, ui, renderer, edits, faults>>

-----------------------------------------------------------------------------
(* The operator, the card and the power.                                   *)

Running == pc \notin {"boot", "try"}
Input   == pc = "render"                          \* the buttons are read at the top of the pass
Edit    == edits < Edits /\ edits' = edits + 1

\* The card is put in or taken out, with any pack and selection.
EditCard ==
  /\ Edit
  /\ card' \in BOOLEAN /\ pack' \in PackKinds /\ pointer' \in BOOLEAN
  /\ UNCHANGED <<arbiter, loader, pc, ui, renderer, led, faults>>

AskSelector ==
  /\ Input /\ ~selecting /\ Edit /\ asked' = TRUE
  /\ UNCHANGED <<arbiter, sdcard, loader, pc, screen, selecting, commit, renderer, led, faults>>

\* ENTER on an entry of the Select Menu page, or leaving it.
Choose ==
  /\ Input /\ selecting /\ commit = NoCommit
  /\ \/ commit' \in {"pack", "builtIn"} /\ UNCHANGED <<selecting, screen>>
     \/ selecting' = FALSE /\ Woken /\ UNCHANGED commit
  /\ UNCHANGED <<arbiter, sdcard, loader, pc, asked, renderer, led, edits, faults>>

\* The screen changes or wakes, or the display goes idle, also behind the Select Menu page.
ScreenChanges ==
  /\ Input
  /\ screen' \in (IF selecting THEN {"idle"} ELSE {"home", "other", "idle"}) \ {screen}
  /\ UNCHANGED <<arbiter, sdcard, loader, pc, asked, selecting, commit, renderer, led, edits, faults>>

PowerCut ==
  /\ Edit /\ Restart
  /\ UNCHANGED <<sdcard, attempts, cleared, faults>>

Init ==
  /\ owner = "display" /\ repaintOwed = FALSE
  /\ card = TRUE /\ pack = "wild" /\ pointer = TRUE
  /\ attempts = 0 /\ pc = "boot" /\ outcome = "none" /\ confirmed = FALSE /\ mounted = FALSE
  /\ screen = "home" /\ asked = FALSE /\ selecting = FALSE /\ commit = NoCommit
  /\ lastScreen = Nothing /\ idlePainted = FALSE /\ fatal = FALSE /\ shown = "old" /\ led = FALSE
  /\ cleared = FALSE /\ edits = 0 /\ faults = 0

Device == Guard \/ NothingToLoad \/ Try \/ Validate \/ Render \/ Confirm \/ Confirmed
            \/ OpenSelector \/ CommitSelection \/ NoMenu \/ Led

Next == Device \/ Crash \/ EditCard \/ AskSelector \/ Choose \/ ScreenChanges \/ PowerCut

\* The task runs: setup() and the pass do not stop.
Fairness == WF_cardVars(Device)
Spec == Init /\ [][Next]_cardVars /\ Fairness

-----------------------------------------------------------------------------

\* The bus has one of its owners and the boot never tries a pack more often than the loader allows.
TypeOK ==
  /\ owner \in {"display", "card", "resuming"} /\ repaintOwed \in BOOLEAN
  /\ pc \in {"boot", "try", "render", "confirm", "menu", "led"}
  /\ attempts \in 0..kMaxAttempts /\ pack \in PackKinds /\ led \in BOOLEAN
  /\ shown \in {"old", "blank", "selector", "home", "other"}

\* However a pack fails, the device stops restarting: the third boot runs the built-in menu.
BootLoopEnds == <>[]Running

\* After a pass of the renderer an awake panel shows what the UI stands on, also across a
\* handover of the bus, an idle blanking and a visit to the Select Menu page.
PanelIsCurrent ==
  [][pc = "render" /\ pc' = "confirm" /\ mayBeginFrame /\ Wanted # "blank" => shown' = Wanted]_cardVars

\* Outside a card operation the bus is the display's: what the comment at writePointer relies on.
BusGivenBack == pc = "render" => owner # "card"

\* Once the guard has cleared the selection the next boot is clean: what pack_loader_test says.
GuardFiresOnce == [][pc = "boot" /\ outcome' = "guard" => ~cleared]_cardVars
=============================================================================
