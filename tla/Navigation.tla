----------------------------- MODULE Navigation -----------------------------
(***************************************************************************)
(* Where the operator stands: the navigator (ui/core/ui_navigator.cpp) and *)
(* the actions that move it (ui/core/ui_actions.cpp) over the screens of   *)
(* the table, with the channels' calibration forms that hide some of them. *)
(*                                                                         *)
(* Holds, ramps, toasts' dwell and what a press means are Panel's; here a  *)
(* press is a flow of the current screen.                                  *)
(***************************************************************************)
EXTENDS Bindings

CONSTANTS
  Menu,       \* the screens by their ids: the table, and the page the firmware appends
  Address,    \* where a screen of the table stands in it
  Retyped     \* bound: the sensors whose calibration form is ever changed, some of Sensors

kMaxDepth == 5
kMaxRing  == 16
root      == "info-p0-global-status"

VARIABLES
  current, stack, sensorIndex,   \* UiNavigator: current_, stack_ up to depth_, sensorIndex_
  form,                          \* configs[n].calibration
  editing, prompt                \* UiEditorState: setting (None: not active), what it asks

vars == <<current, stack, sensorIndex, form, editing, prompt>>

depth == Len(stack)

\* The navigator stands on a screen of the table, its stack fits kMaxDepth, and every
\* channel has one of the two forms.
TypeOK ==
  /\ current \in DOMAIN Menu /\ stack \in Seq(DOMAIN Menu) /\ depth <= kMaxDepth
  /\ sensorIndex \in {0} \cup Sensors
  /\ form \in [Sensors -> AnyForm]
  /\ editing \in Settings \cup {None}
  /\ prompt \in DOMAIN Asked

\* sensorIndexFromId: a page of the sensor list names its sensor.
sensorIndexFromId(id) ==
  IF \E n \in Sensors : SensorIds[n] = id THEN CHOOSE n \in Sensors : SensorIds[n] = id ELSE 0

-----------------------------------------------------------------------------
(* The ring of a level. *)

\* The screens that the flows of a screen name for an action.
Leads(id, action) ==
  LET flows == Menu[id].flows
  IN  {flows[b][2] : b \in {b \in DOMAIN flows : flows[b][1] = action}}

\* The actions of a hold that stays in the level.
Resets == {"reset-all-measured", "reset-session", "reset-max-flow", "reset-calibration",
           "reset-portal-login"}

\* What readSetting gives the gate: 0, a formula, where no sensor is chosen.
Calibration == IF sensorIndex = 0 THEN Formula ELSE form[sensorIndex]

screenVisible(id) == Calibration \in Menu[id].forms

\* The first DOWN flow with a target, in the table.
rawNextSibling(id) ==
  LET flows == Menu[id].flows
  IN  IF "down" \in DOMAIN flows /\ flows.down[2] \in DOMAIN Address THEN flows.down[2] ELSE None

\* The root tail stands between the last member of the root level and the root.
Splice(from, target) ==
  CASE from = RootTail.id                    -> root
    [] from # RootTail.id /\ target = root -> RootTail.id
    [] OTHER                                 -> target

ByTheTail(from, target) == IF depth = 0 THEN Splice(from, target) ELSE target

rawNextWithTail(id) == ByTheTail(id, rawNextSibling(id))

\* At most kMaxRing steps over hidden screens; None where there is nowhere to go.
nextVisibleSibling(from) ==
  LET walk[hops \in 0 .. kMaxRing] ==
        IF hops = 0 THEN rawNextWithTail(from)
        ELSE LET at == walk[hops - 1]
             IN  IF at \in {None, from} \/ screenVisible(at) THEN at ELSE rawNextWithTail(at)
      met == walk[kMaxRing]
  IN  IF met = from /\ ~screenVisible(from) THEN None ELSE met

\* The screens met going forward from one, itself first, until the level closes or
\* kMaxRing steps are made.
Forward(from) ==
  LET walk[hops \in 0 .. kMaxRing] ==
        IF hops = 0 THEN <<from>>
        ELSE LET met  == walk[hops - 1]
                 next == nextVisibleSibling(met[Len(met)])
             IN  IF Len(met) < hops \/ next \in {None, from} THEN met ELSE Append(met, next)
  IN  walk[kMaxRing]

\* The last one met before coming round; where the level never closes, whatever the
\* last step meets.
LastOf(met) == met[Len(met)]
previousVisibleSibling(from) ==
  IF nextVisibleSibling(from) = None THEN None ELSE LastOf(Forward(from))

\* The step that would close the root level lands on the tail, and the tail's closes it.
siblingAfter(from, declared) ==
  LET seen   == declared # None /\ screenVisible(declared)
      nearby == IF declared = None THEN None ELSE nextVisibleSibling(declared)
      Or(target, otherwise) == IF target = None THEN otherwise ELSE target
  IN  ByTheTail(from, IF seen THEN declared ELSE Or(nearby, nextVisibleSibling(from)))

siblingBeforeAsDeclared(from, declared) ==
  IF declared # None /\ screenVisible(declared) THEN declared ELSE previousVisibleSibling(from)

siblingBefore(from, declared) ==
  IF depth # 0 /\ declared # None /\ screenVisible(declared)
    THEN declared ELSE previousVisibleSibling(from)

\* Where a screen stands in its level, counted from the root or from the member that
\* comes first in the table.
PositionIn(met) ==
  LET count   == IF Len(met) > kMaxRing THEN kMaxRing ELSE Len(met)
      members == {met[k] : k \in 1 .. count}
      anchor  == IF depth = 0 /\ root \in members THEN root
                 ELSE CHOOSE m \in members : \A other \in members : Address[m] <= Address[other]
      at      == CHOOSE k \in 1 .. count : met[k] = anchor
  IN  [index |-> (count - (at - 1)) % count, count |-> count]
ringPosition(id) == PositionIn(Forward(id))

-----------------------------------------------------------------------------
(* The moves.  Each is the part of a handler that touches the navigator and *)
(* the editor.                                                             *)

endEdit == editing' = None /\ prompt' = "none"

ascend ==
  IF depth = 0 THEN UNCHANGED <<current, stack, sensorIndex>>
  ELSE /\ current' = stack[depth]
       /\ stack' = SubSeq(stack, 1, depth - 1)
       /\ sensorIndex' = IF depth = 1 THEN 0 ELSE sensorIndex

escape == current' = root /\ stack' = <<>> /\ sensorIndex' = 0

descendByTarget(to) ==
  /\ depth < kMaxDepth
  /\ sensorIndex' = IF sensorIndexFromId(to) # 0 THEN sensorIndexFromId(to) ELSE sensorIndex
  /\ stack' = Append(stack, current)
  /\ current' = to

\* Leaving a page of the sensor list downwards chooses its sensor.
descend(to) ==
  /\ depth < kMaxDepth
  /\ sensorIndex' =
       IF sensorIndexFromId(current) # 0 THEN sensorIndexFromId(current) ELSE sensorIndex
  /\ stack' = Append(stack, current)
  /\ current' = to

\* The screens a flow of the current screen names for an action.
Flows(action) == Leads(current, action)

goToSibling(to) ==
  current' = (IF to = None THEN current ELSE to) /\ UNCHANGED <<stack, sensorIndex>>

PageNext ==
  \E declared \in Flows("page.next") :
    goToSibling(siblingAfter(current, declared)) /\ UNCHANGED <<form, editing, prompt>>
PagePrevious ==
  \E declared \in Flows("page.previous") :
    goToSibling(siblingBefore(current, declared)) /\ UNCHANGED <<form, editing, prompt>>

\* Descending opens the editor of a screen that edits a setting other than a text.
NavDescend ==
  \E to \in Flows("nav.descend") :
    /\ descend(to)
    /\ LET setting == EditedBy(Menu[to])
       IN  editing' = IF setting \in TextSettings THEN None ELSE setting
    /\ prompt' = "none" /\ UNCHANGED form

\* ENTER on a back row, or the time of a toast.
NavBack == Flows("nav.back") # {} /\ endEdit /\ ascend /\ UNCHANGED form

\* A step of the value takes a prompt away; DOWN on the question of the sampling rate
\* is the answer "save anyway".
ValueStep(action) ==
  /\ Flows(action) # {} /\ editing # None
  /\ ~(action = "value.decrement" /\ prompt = "nyquist")
  /\ prompt' = "none" /\ UNCHANGED <<current, stack, sensorIndex, form, editing>>

Saved ==
  /\ endEdit /\ ascend
  /\ IF editing = "config.sensor.calibrationType" /\ sensorIndex \in Retyped
       THEN \E type \in AnyForm : form' = [form EXCEPT ![sensorIndex] = type]
       ELSE UNCHANGED form

SaveAnyway ==
  Flows("value.decrement") # {} /\ editing # None /\ prompt = "nyquist" /\ Saved

\* ENTER: the write is taken, or refused and the editor stays.  Only a sensor's setting
\* can be refused for the sampling rate.
ValueCommit ==
  /\ Flows("value.commit") # {} /\ editing # None
  /\ \/ Saved
     \/ /\ prompt' \in (IF sensorIndex = 0 THEN {"failed"} ELSE {"failed", "nyquist"})
        /\ UNCHANGED <<current, stack, sensorIndex, form, editing>>

ValueDiscard == Flows("value.discard") # {} /\ endEdit /\ ascend /\ UNCHANGED form

\* A completed hold does what the screen asks and leaves the toast in its place.  A
\* factory reset restarts the device instead.
HoldCompleted ==
  \E action \in Resets : \E toast \in Flows(action) :
      /\ current' = toast
      /\ form' = IF action = "reset-calibration" /\ sensorIndex \in Retyped
                   THEN [form EXCEPT ![sensorIndex] = Formula] ELSE form
      /\ UNCHANGED <<stack, sensorIndex, editing, prompt>>

\* The display goes dark, by the gesture or after the time without a press.
EnterIdle == endEdit /\ escape /\ UNCHANGED form

\* A restart, after a factory reset or not.
Restart ==
  /\ endEdit /\ escape
  /\ form' \in {form, [n \in Sensors |-> Formula]}

\* The bus changes a channel's form, whatever the panel shows.
BusRetypes ==
  /\ \E n \in Retyped, type \in AnyForm : form' = [form EXCEPT ![n] = type]
  /\ UNCHANGED <<current, stack, sensorIndex, editing, prompt>>

Init ==
  /\ current = root /\ stack = <<>> /\ sensorIndex = 0
  /\ form = [n \in Sensors |-> Formula]
  /\ editing = None /\ prompt = "none"

Next ==
  \/ PageNext \/ PagePrevious \/ NavDescend \/ NavBack
  \/ ValueStep("value.increment") \/ ValueStep("value.decrement")
  \/ ValueCommit \/ SaveAnyway \/ ValueDiscard
  \/ HoldCompleted \/ EnterIdle \/ Restart \/ BusRetypes

Spec == Init /\ [][Next]_vars

-----------------------------------------------------------------------------
(* The tables the moves are made for. *)

Beside == {"page.next", "page.previous"} \cup Resets

\* A screen has one place in the nesting of the levels: what is beside it is on its own level,
\* what it descends to one deeper, and no level is deeper than the stack.
LevelsNest(level) ==
  LET Same(id) == {to \in DOMAIN Menu : level[to] = level[id]}
      Below(id) == {to \in DOMAIN Menu : level[to] = level[id] + 1}
  IN  /\ level \in [DOMAIN Menu -> 0 .. kMaxDepth] /\ None \notin DOMAIN Menu
      /\ {root, RootTail.id} \subseteq {id \in DOMAIN Menu : level[id] = 0} /\ root # RootTail.id
      /\ \A id \in DOMAIN Menu :
           /\ rawNextSibling(id) \in Same(id) \cup {None}
           /\ \A action \in Beside : Leads(id, action) \subseteq Same(id) \cup {None}
           /\ \A action \in Resets : None \notin Leads(id, action)
           /\ Leads(id, "nav.descend") \subseteq Below(id)

\* Every page with a next one is on a ring that fits kMaxRing, with the tail in the root's; off
\* the root level its neighbours name one another.
RingsClose(level, rings) ==
  /\ \A ring \in rings : \E n \in 1 .. kMaxRing :
       /\ ring \in [0 .. n - 1 -> DOMAIN Menu]
       /\ \A i, j \in 0 .. n - 1 : level[ring[i]] = level[ring[j]] /\ (ring[i] = ring[j] => i = j)
       /\ \A i \in 0 .. n - 1 :
            LET here == ring[i]
                next == ring[(i + 1) % n]
            IN  /\ next = Splice(here, rawNextSibling(here))
                /\ Leads(here, "page.next") = {rawNextSibling(here)}
                /\ level[here] # 0 => Leads(next, "page.previous") = {here}
                /\ here # RootTail.id => Address[here] \in Nat
  /\ \A id \in DOMAIN Menu :
       Leads(id, "page.next") # {} => \E ring \in rings : \E i \in DOMAIN ring : ring[i] = id
  /\ Menu[root].forms = AnyForm /\ Menu[RootTail.id].forms = AnyForm

\* An editor is entered from the page that shows its setting, and left by the ways back only.
EditorsApart ==
  LET Editors == {id \in DOMAIN Menu : EditedBy(Menu[id]) # None}
  IN  /\ {root, RootTail.id} \cap Editors = {}
      /\ \A id \in DOMAIN Menu :
           /\ EditedBy(Menu[id]) \in {None} \cup (Settings \ TextSettings)
           /\ rawNextSibling(id) \notin Editors
           /\ \A action \in Beside : Leads(id, action) \cap Editors = {}
           /\ \A to \in Leads(id, "nav.descend") \cap Editors :
                SettingOf(Menu[id]) = EditedBy(Menu[to])
      /\ \A id \in Editors, action \in Beside \cup {"nav.descend"} : Leads(id, action) = {}

\* The menu of a sensor is entered from a sensor's page and left by the ways back only, and what
\* the screens of the table bind can be answered, in the menu and outside.
SensorMenu(below) ==
  LET Pages == {SensorIds[n] : n \in Sensors}
      Beyond(id) == Leads(id, "nav.descend")
  IN  /\ below \subseteq DOMAIN Menu \ ({root, RootTail.id} \cup Pages)
      /\ \A id \in DOMAIN Menu :
           /\ rawNextSibling(id) # None => (rawNextSibling(id) \in below <=> id \in below)
           /\ \A action \in Beside : \A to \in Leads(id, action) \ {None} :
                to \in below <=> id \in below
           /\ \A to \in Beyond(id) : to \in below <=> id \in below \cup Pages
           /\ Answerable(Menu[id], id \in below)

-----------------------------------------------------------------------------
(* Properties. *)

\* Every level works as a ring, whatever is hidden in it and with the page the firmware
\* appends to the root: DOWN and UP undo one another and reach what is shown, the position
\* moves with them, and no page names a level too deep to enter (ui_navigator.cpp).
LevelsWork ==
  LET Declared(id, action) ==
        Menu[id].flows[CHOOSE b \in DOMAIN Menu[id].flows : Menu[id].flows[b][1] = action][2]
      After(id)  == siblingAfter(id, Declared(id, "page.next"))
      Before(id) == siblingBefore(id, Declared(id, "page.previous"))
      Undone(after, before) ==
        /\ screenVisible(after) /\ screenVisible(before)
        /\ Before(after) = current /\ After(before) = current
      Moved(here, there) ==
        there.count = here.count /\ there.index = (here.index + 1) % here.count
  IN  screenVisible(current) /\ Flows("page.next") # {} =>
        /\ Undone(After(current), Before(current))
        /\ Moved(ringPosition(current), ringPosition(After(current)))
        /\ Flows("nav.descend") # {} => depth < kMaxDepth

\* What the operator sees on a screen that is shown: every value has an answer whatever the
\* channels are doing, a sensor's page is about the sensor it was entered from and its formula
\* has terms, and an open editor, its range and the page it returns to are about one setting
\* (ui_bindings.cpp, ui_actions.cpp).
PageShowsItsOwn ==
  LET here == Menu[current]
      Situation(channel, ring) ==
        [screen |-> here, sensor |-> sensorIndex, form |-> Calibration, depth |-> depth,
         ring |-> ring, editing |-> editing, prompt |-> prompt,
         counting |-> "hold" \in DOMAIN here.flows, channel |-> channel]
      Said(texts) ==
        /\ texts # {}
        /\ \A text \in texts :
             /\ text[1] # "no sensor" /\ text \notin Says({Unknown})
             /\ text[1] = "sensor" => \E k \in 1 .. depth : stack[k] = SensorIds[text[2]]
             /\ here.forms = {Formula} => text \notin Says({NotApplicable})
      OneSetting(range) ==
        /\ SettingOf(here) = editing /\ SettingOf(Menu[stack[depth]]) = editing
        /\ range = {<<"range", editing>>}
  IN  screenVisible(current) =>
        \A channel \in {"off", "unset", "ready"} :
          \A at \in {Situation(channel, ringPosition(current))} :
            /\ \A i \in DOMAIN here.shows : Said(resolveText(at, here.shows[i]))
            /\ editing # None => OneSetting(resolveConfigBinding(at, "config.editor.range"))
=============================================================================
