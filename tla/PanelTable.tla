------------------------------ MODULE PanelTable ------------------------------
(***************************************************************************)
(* The screen table as Panel sees it (ui/generated): what each press does  *)
(* on each screen, which screens hold a countdown, a toast or an editor,   *)
(* and what Panel relies on in any such table.                             *)
(***************************************************************************)

CONSTANTS
  Screens,      \* screens of the table, the firmware's root tail included
  Root, RootTail,   \* P0, and the Select Menu entry appended to the root level
  Flow,         \* [Screens -> [Presses -> [act, to]]], the button flows
  Guard,        \* [guarded screens -> [time, act, toast]], the hold flows
  Toasts,       \* screens with an unattended Timeout flow
  Editors,      \* screens that declare the pending value
  SensorOf,     \* [sensor list pages -> 1..], config-sensor-<n>
  NoScreen

Buttons  == {"up", "down", "enter"}
Gestures == {"short", "long"}
Presses  == Buttons \X Gestures
Moves    == {"next", "prev", "descend"}
Nothing  == [act |-> "none", to |-> NoScreen]

\* A screen is of one kind, and the root of none of them.
KindsApart ==
  /\ {Root, RootTail} \cup Toasts \cup Editors \subseteq Screens
  /\ DOMAIN Guard \cup DOMAIN SensorOf \subseteq Screens
  /\ DOMAIN Flow = Screens /\ NoScreen \notin Screens
  /\ Root \notin Editors \cup Toasts \cup DOMAIN Guard
  /\ DOMAIN Guard \cap (Toasts \cup Editors) = {}

\* Where the flows lead: to declared screens, never off an open editor to a sibling, and round
\* the root level; only the firmware's own entry, on the root level, names no previous page.
FlowsLead ==
  /\ \A s \in Screens \ {RootTail}, p \in Presses :
       Flow[s][p].act \in Moves => Flow[s][p].to \in Screens \ {RootTail}
  /\ \A s \in DOMAIN Guard : Guard[s].toast \in {NoScreen} \cup (Screens \ {RootTail})
  /\ \A s \in Editors, p \in Presses : Flow[s][p].act \notin {"next", "prev"}
  /\ \A p \in Presses : Flow[RootTail][p].act # "descend"
  /\ \E s \in Screens \ {RootTail}, p \in Presses : Flow[s][p] = [act |-> "next", to |-> Root]

\* The screens below a sensor's list page: no flow of theirs leads out but the ways back, and
\* none of them is a sensor's page in turn.
BelowSensor(screens) ==
  /\ screens \cap DOMAIN SensorOf = {}
  /\ \A s \in DOMAIN SensorOf, p \in Presses :
       Flow[s][p].act = "descend" => Flow[s][p].to \in screens
  /\ \A s \in screens, p \in Presses : Flow[s][p].act \in Moves => Flow[s][p].to \in screens
  /\ \A s \in screens \cap DOMAIN Guard : Guard[s].toast \in screens \cup {NoScreen}
=============================================================================
