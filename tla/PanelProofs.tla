----------------------------- MODULE PanelProofs -----------------------------
(***************************************************************************)
(* Proofs about Panel, for any table of screens that meets the assumptions *)
(* on it and any times: no editor outlives its screen, the sensor the      *)
(* panel acts on is the one its pages were entered for, a guarded action   *)
(* takes its whole hold, and a ramp owns the release that ends it.         *)
(***************************************************************************)
EXTENDS Panel, SequenceTheorems, TLAPS

\* The screens below a sensor's list page.
SensorMenu == CHOOSE screens \in SUBSET Screens : BelowSensor(screens)

Event   == [button : Buttons, gesture : Gestures \cup {"hold"}]
Members == Screens \ {RootTail}

Prompts     == {"none", "nyquist", "failed"}
EditorState == [on : BOOLEAN, pending : 0 .. MaxValue, prompt : Prompts]

\* The handlers of a pass that come before the countdown has been looked at.
BeforeHold == {"chord", "combo", "ramp", "entry", "hold"}
AfterHold  == {"route", "select", "flow", "idle", "act", "poll"}

\* The buttons and the ring of a pass.
InputTyped ==
  /\ held \in [Buttons -> 0 .. LongPress + 1]
  /\ events \in Seq(Event) /\ Len(events) <= 3

\* The firmware's own entry stands on the root level and leads nowhere below it.
PlaceTyped ==
  /\ cur \in Screens /\ (cur = RootTail => stack = <<>>)
  /\ stack \in Seq(Members) /\ Len(stack) <= MaxDepth
  /\ sensor \in {0} \cup {SensorOf[s] : s \in DOMAIN SensorOf}

\* Above a sensor's page there is only that sensor's menu.
SensorFits ==
  \A i \in 1 .. Len(stack) : stack[i] \in DOMAIN SensorOf =>
     /\ sensor = SensorOf[stack[i]]
     /\ cur \in SensorMenu
     /\ \A j \in i + 1 .. Len(stack) : stack[j] \in SensorMenu

\* An open editor was descended to.
EditorFits ==
  /\ editor \in EditorState
  /\ editor.on => cur \in Editors /\ stack # <<>>

\* A countdown belongs to the screen on the panel, or to one the inactivity timeout has left
\* for P0; no press and no scheduled restart meets it; and ENTER has been down for as long.
HoldFits ==
  /\ hold \in [screen : DOMAIN Guard \cup {NoScreen}, age : Nat]
  /\ enterAge \in 0 .. MaxGuard
  /\ hold # NoHold =>
       /\ hold.screen \in DOMAIN Guard /\ hold.age < Guard[hold.screen].time
       /\ cur = hold.screen \/ stack = <<>>
       /\ restart = 0 /\ pc # "flow"
       /\ IF pc \in BeforeHold THEN Down("enter") => hold.age < enterAge
                               ELSE Down("enter") /\ hold.age <= enterAge

\* The button whose hold has stepped the value is the one the ramp runs for, until the release
\* that ends both; from the ramp's handler on, the ring holds nothing of it.
Ramping(b) == ramp = [on |-> TRUE, button |-> b, stepped |-> TRUE]

RampFits ==
  /\ ramp \in [on : BOOLEAN, button : {"up", "down"}, stepped : BOOLEAN]
  /\ ramped \in {"none", "up", "down"}
  /\ ramped # "none" =>
       IF pc \in {"chord", "combo", "ramp"}
         THEN Ramping(ramped) /\ \A b \in {"up", "down"} \ {ramped} : ~Down(b)
         ELSE /\ Down(ramped) => Ramping(ramped)
              /\ \A i \in 1 .. Len(events) : events[i].button # ramped

RestTyped ==
  /\ pc \in BeforeHold \cup AfterHold
  /\ chord \in 0 .. ChordHold + 1 /\ combo \in 0 .. ComboMax + 1
  /\ selector \in [open : BOOLEAN, cursor : 0 .. Packs - 1]
  /\ restart \in 0 .. RestartDelay + 1

PanelInv ==
  InputTyped /\ PlaceTyped /\ SensorFits /\ EditorFits /\ HoldFits /\ RampFits /\ RestTyped

-----------------------------------------------------------------------------
(* The operators of the model. *)

\* The smaller of two numbers.
LEMMA LeastFacts ==
    ASSUME NEW a \in Int, NEW b \in Int
    PROVE  Least(a, b) \in {a, b} /\ Least(a, b) <= a /\ Least(a, b) <= b
BY DEF Least

\* A step of a counter that saturates.
LEMMA Saturates ==
    ASSUME NEW a \in Nat, NEW top \in Nat
    PROVE  Least(a + 1, top) \in 0 .. top
BY DEF Least

\* The longest of the guards' times.
LEMMA MaxGuardFacts == MaxGuard \in Nat /\ \A s \in DOMAIN Guard : Guard[s].time <= MaxGuard
<1> DEFINE Times == {Guard[s].time : s \in DOMAIN Guard}
           Longest(n) == \A s \in DOMAIN Guard : Guard[s].time <= n
<1>1. \E n \in Times : Longest(n)
  BY TimesAssumption
<1>2. MaxGuard = CHOOSE n \in Times : Longest(n)
  BY DEF MaxGuard
<1>3. MaxGuard \in Times /\ Longest(MaxGuard)
  BY <1>1, <1>2
<1> QED  BY <1>3, TimesAssumption

\* There is a set of screens below the sensors' pages, and SensorMenu is one.
LEMMA SensorMenuFacts == SensorMenu \subseteq Screens /\ BelowSensor(SensorMenu)
BY SensorAssumption DEF SensorMenu

\* The level that closes the root's circle.
LEMMA LastMemberFacts == LastMember \in Members
<1> DEFINE Last(s) == \E p \in Presses : s # RootTail /\ Flow[s][p] = [act |-> "next", to |-> Root]
<1>1. \E s \in Screens : Last(s)
  BY FlowAssumption DEF FlowsLead
<1>2. LastMember = CHOOSE s \in Screens : Last(s)
  BY DEF LastMember
<1>3. LastMember \in Screens /\ Last(LastMember)
  BY <1>1, <1>2
<1> QED  BY <1>3 DEF Members

\* A button queues one event in a pass at most.
LEMMA EdgeFacts ==
    ASSUME NEW b \in Buttons, NEW now
    PROVE  Edge(b, now) \in Seq(Event) /\ Len(Edge(b, now)) <= 1
<1>1. \A g \in Gestures \cup {"hold"} :
        <<[button |-> b, gesture |-> g]>> \in Seq(Event) /\ Len(<<[button |-> b, gesture |-> g]>>) = 1
  BY DEF Event
<1>2. <<>> \in Seq(Event) /\ Len(<<>>) = 0
  OBVIOUS
<1>3. Edge(b, now) \in {<<>>} \cup {<<[button |-> b, gesture |-> g]>> : g \in Gestures \cup {"hold"}}
  BY DEF Edge, Gestures
<1>4. CASE Edge(b, now) = <<>>
  BY <1>2, <1>4
<1>5. ASSUME NEW g \in Gestures \cup {"hold"}, Edge(b, now) = <<[button |-> b, gesture |-> g]>>
      PROVE  Edge(b, now) \in Seq(Event) /\ Len(Edge(b, now)) <= 1
  BY <1>1, <1>5
<1> QED  BY <1>3, <1>4, <1>5

\* Three rings of at most one event make a ring of at most three, with nothing new in it.
LEMMA JoinFacts ==
    ASSUME NEW s1 \in Seq(Event), NEW s2 \in Seq(Event), NEW s3 \in Seq(Event),
           Len(s1) <= 1, Len(s2) <= 1, Len(s3) <= 1
    PROVE  LET s == s1 \o s2 \o s3 IN
           /\ s \in Seq(Event) /\ Len(s) <= 3
           /\ \A i \in 1 .. Len(s) : \E r \in {s1, s2, s3} : r # <<>> /\ s[i] = r[1]
<1> DEFINE t == s1 \o s2
<1>1. t \in Seq(Event) /\ Len(t) = Len(s1) + Len(s2)
  OBVIOUS
<1>2. \A i \in 1 .. Len(t) : \E r \in {s1, s2} : r # <<>> /\ t[i] = r[1]
  <2> TAKE i \in 1 .. Len(t)
  <2>1. CASE i <= Len(s1)
    BY <2>1
  <2>2. CASE i > Len(s1)
    BY <2>2
  <2> QED  BY <2>1, <2>2
<1> HIDE DEF t
<1>3. t \o s3 \in Seq(Event) /\ Len(t \o s3) = Len(t) + Len(s3)
  BY <1>1
<1>4. \A i \in 1 .. Len(t \o s3) : \E r \in {s1, s2, s3} : r # <<>> /\ (t \o s3)[i] = r[1]
  <2> TAKE i \in 1 .. Len(t \o s3)
  <2>1. CASE i <= Len(t)
    BY <1>1, <1>2, <2>1
  <2>2. CASE i > Len(t)
    BY <1>1, <1>3, <2>2
  <2> QED  BY <1>1, <1>3, <2>1, <2>2
<1> QED  BY <1>1, <1>3, <1>4 DEF t

\* What discarding a button's events leaves of the ring.
LEMMA WithoutFacts ==
    ASSUME InputTyped, NEW b
    PROVE  /\ Without(b) \in Seq(Event) /\ Len(Without(b)) <= 3
           /\ \A i \in 1 .. Len(Without(b)) : Without(b)[i].button # b
<1>1. ASSUME NEW i \in Nat \ {0}
      PROVE  /\ Kept(i, b) \in Seq(Event) /\ Len(Kept(i, b)) <= 1
             /\ Kept(i, b) # <<>> => Kept(i, b)[1].button # b
  BY DEF Kept, InputTyped
<1>2. /\ Kept(1, b) \in Seq(Event) /\ Len(Kept(1, b)) <= 1
      /\ Kept(2, b) \in Seq(Event) /\ Len(Kept(2, b)) <= 1
      /\ Kept(3, b) \in Seq(Event) /\ Len(Kept(3, b)) <= 1
  BY <1>1
<1>3. /\ Without(b) \in Seq(Event) /\ Len(Without(b)) <= 3
      /\ \A i \in 1 .. Len(Without(b)) :
           \E r \in {Kept(1, b), Kept(2, b), Kept(3, b)} : r # <<>> /\ Without(b)[i] = r[1]
  BY <1>2, JoinFacts, Zenon DEF Without
<1>4. \A r \in {Kept(1, b), Kept(2, b), Kept(3, b)} : r # <<>> => r[1].button # b
  BY <1>1
<1> QED  BY <1>3, <1>4

\* Taking an event from the ring.
LEMMA TailFacts ==
    ASSUME InputTyped, events # <<>>
    PROVE  /\ Head(events) \in Event
           /\ Tail(events) \in Seq(Event) /\ Len(Tail(events)) <= 3
           /\ \A i \in 1 .. Len(Tail(events)) :
                i + 1 \in 1 .. Len(events) /\ Tail(events)[i] = events[i + 1]
BY DEF InputTyped
-----------------------------------------------------------------------------
(* The buttons and their ring. *)

\* The times are numbers.
LEMMA Times ==
    /\ LongPress \in Nat \ {0} /\ ComboMax \in Nat \ {0} /\ ChordHold \in Nat \ {0}
    /\ RestartDelay \in Nat \ {0} /\ MaxDepth \in Nat /\ MaxValue \in Nat
    /\ Packs \in Nat \ {0} /\ Active \in 0 .. Packs - 1
BY TimesAssumption

\* A press is counted up to the long press and stays there; each pass fills the ring anew, and
\* every handler only takes from it.
LEMMA InputKeeps == ASSUME InputTyped, [Next]_vars PROVE InputTyped'
<1> USE DEF InputTyped
<1>1. ASSUME NEW now \in SUBSET Buttons, Poll(now) PROVE InputTyped'
  <2>1. held' \in [Buttons -> 0 .. LongPress + 1]
    <3>1. \A b \in Buttons : held[b] \in Nat /\ Least(held[b] + 1, LongPress + 1) \in 0 .. LongPress + 1
      BY Times, Saturates
    <3>2. held' = [b \in Buttons |-> IF b \notin now THEN 0
                                     ELSE IF held[b] = 0 THEN 1
                                     ELSE Least(held[b] + 1, LongPress + 1)]
      BY <1>1 DEF Poll
    <3> QED  BY <3>1, <3>2, Times
  <2>2. events' \in Seq(Event) /\ Len(events') <= 3
    BY <1>1, EdgeFacts, JoinFacts DEF Poll, Buttons
  <2> QED  BY <2>1, <2>2
<1>2. CASE Chord \/ DisplayOff \/ EntryTimer \/ Hold \/ Route \/ PressesDone \/ IdleCheck \/ OpenSelector
  <2>1. held' = held /\ events' \in {events, <<>>}
    BY <1>2 DEF Chord, DisplayOff, EntryTimer, Hold, Arm, Abort, Count, Complete, Route,
                PressesDone, IdleCheck, OpenSelector, input
  <2>2. CASE events' = events
    BY <2>1, <2>2
  <2>3. CASE events' = <<>>
    BY <2>1, <2>3
  <2> QED  BY <2>1, <2>2, <2>3
<1>3. CASE EditorRamp
  <2>1. held' = held /\ events' \in {events} \cup {Without(b) : b \in {"up", "down", ramp.button}}
    BY <1>3 DEF EditorRamp
  <2> QED  BY <2>1, WithoutFacts
<1>4. CASE SelectorPress \/ FlowPress
  <2>1. held' = held /\ events # <<>> /\ events' = Tail(events)
    BY <1>4 DEF SelectorPress, FlowPress
  <2> QED  BY <2>1, TailFacts
<1>5. CASE CommitSelection \/ EndPass
  <2>1. CASE Reboot
    BY <2>1, Times DEF Reboot, Start
  <2>2. CASE UNCHANGED input
    BY <2>2 DEF input
  <2> QED  BY <1>5, <2>1, <2>2 DEF CommitSelection, EndPass
<1>6. CASE UNCHANGED vars
  BY <1>6 DEF vars, input
<1> QED  BY <1>1, <1>2, <1>3, <1>4, <1>5, <1>6 DEF Next, Pass, Handler

-----------------------------------------------------------------------------
(* The screen, the stack and the sensor. *)

Nav == PlaceTyped /\ SensorFits

\* UiNavigator::escape leaves the root level with nothing below it.
LEMMA EscapeKeeps == ASSUME Escape PROVE Nav'
BY TableAssumption, Times DEF KindsApart, Escape, Nav, PlaceTyped, SensorFits

\* UiNavigator::ascend takes the top of the stack; what is left has the sensor it had.
LEMMA AscendKeeps == ASSUME Nav, Ascend PROVE Nav'
<1> USE DEF Nav, PlaceTyped
<1>1. CASE stack = <<>>
  BY <1>1 DEF Ascend, SensorFits, nav
<1>2. CASE stack # <<>>
  <2> DEFINE n == Len(stack)
  <2>1. n \in Nat \ {0} /\ cur' = stack[n] /\ stack' = SubSeq(stack, 1, n - 1)
        /\ sensor' = IF n = 1 THEN 0 ELSE sensor
    BY <1>2 DEF Ascend
  <2>2. stack[n] \in Members
    BY <2>1
  <2>3. /\ stack' \in Seq(Members) /\ Len(stack') = n - 1
        /\ \A i \in 1 .. n - 1 : stack'[i] = stack[i]
    <3>1. \A i \in 1 .. n - 1 : stack[i] \in Members
      OBVIOUS
    <3> HIDE DEF n
    <3>2. /\ SubSeq(stack, 1, n - 1) \in Seq(Members)
          /\ Len(SubSeq(stack, 1, n - 1)) = IF 1 <= n - 1 THEN (n - 1) - 1 + 1 ELSE 0
          /\ \A i \in 1 .. (n - 1) - 1 + 1 : SubSeq(stack, 1, n - 1)[i] = stack[1 + i - 1]
      BY <2>1, <3>1, SubSeqProperties
    <3> QED  BY <2>1, <3>2
  <2>4. PlaceTyped'
    BY <2>1, <2>2, <2>3, Times DEF Members
  <2>5. SensorFits'
    <3> SUFFICES ASSUME NEW i \in 1 .. n - 1, stack'[i] \in DOMAIN SensorOf
                 PROVE  /\ sensor' = SensorOf[stack'[i]] /\ cur' \in SensorMenu
                        /\ \A j \in i + 1 .. n - 1 : stack'[j] \in SensorMenu
      BY <2>3 DEF SensorFits
    <3>1. i \in 1 .. n /\ stack[i] \in DOMAIN SensorOf /\ stack'[i] = stack[i] /\ n # 1
      BY <2>1, <2>3
    <3>2. sensor = SensorOf[stack[i]] /\ \A j \in i + 1 .. n : stack[j] \in SensorMenu
      BY <3>1 DEF SensorFits
    <3>3. n \in i + 1 .. n /\ \A j \in i + 1 .. n - 1 : j \in i + 1 .. n /\ stack'[j] = stack[j]
      BY <2>1, <2>3
    <3> QED  BY <2>1, <3>1, <3>2, <3>3
  <2> QED  BY <2>4, <2>5
<1> QED  BY <1>1, <1>2

\* UiNavigator::descend pushes the screen it leaves; a sensor's page chooses the sensor.
LEMMA DescendKeeps ==
    ASSUME Nav, NEW s \in Members, Len(stack) < MaxDepth, cur # RootTail, Descend(s),
           cur \in SensorMenu \cup DOMAIN SensorOf => s \in SensorMenu
    PROVE  Nav'
<1> USE DEF Nav, PlaceTyped
<1> DEFINE n == Len(stack)
<1>1. /\ n \in Nat /\ cur \in Members /\ stack' = Append(stack, cur) /\ cur' = s
      /\ sensor' = IF cur \in DOMAIN SensorOf THEN SensorOf[cur] ELSE sensor
  BY DEF Descend, Members
<1>2. /\ stack' \in Seq(Members) /\ Len(stack') = n + 1 /\ stack'[n + 1] = cur
      /\ \A i \in 1 .. n : stack'[i] = stack[i]
  BY <1>1
<1>3. PlaceTyped'
  BY <1>1, <1>2, Times DEF Members
<1>4. cur \in SensorMenu => cur \notin DOMAIN SensorOf
  BY SensorMenuFacts DEF BelowSensor
<1>5. SensorFits'
  <2> SUFFICES ASSUME NEW i \in 1 .. n + 1, stack'[i] \in DOMAIN SensorOf
               PROVE  /\ sensor' = SensorOf[stack'[i]] /\ cur' \in SensorMenu
                      /\ \A j \in i + 1 .. n + 1 : stack'[j] \in SensorMenu
    BY <1>2 DEF SensorFits
  <2>1. CASE i = n + 1
    BY <1>1, <1>2, <2>1
  <2>2. CASE i \in 1 .. n
    <3>1. /\ sensor = SensorOf[stack[i]] /\ cur \in SensorMenu
          /\ \A j \in i + 1 .. n : stack[j] \in SensorMenu
      BY <1>2, <2>2 DEF SensorFits
    <3>2. \A j \in i + 1 .. n + 1 : stack'[j] \in SensorMenu
      BY <1>1, <1>2, <3>1
    <3> QED  BY <1>1, <1>2, <1>4, <2>2, <3>1, <3>2
  <2> QED  BY <1>1, <2>1, <2>2
<1> QED  BY <1>3, <1>5

\* Another screen takes the place of the one on the panel, at its depth.
LEMMA ReplaceKeeps ==
    ASSUME Nav, NEW s \in Screens, cur' = s, UNCHANGED <<stack, sensor>>,
           s = RootTail => stack = <<>>,
           stack # <<>> /\ cur \in SensorMenu => s \in SensorMenu
    PROVE  Nav'
<1>1. PlaceTyped'
  BY DEF Nav, PlaceTyped
<1>2. SensorFits'
  <2> SUFFICES ASSUME NEW i \in 1 .. Len(stack), stack[i] \in DOMAIN SensorOf
               PROVE  /\ sensor = SensorOf[stack[i]] /\ s \in SensorMenu
                      /\ \A j \in i + 1 .. Len(stack) : stack[j] \in SensorMenu
    BY DEF SensorFits
  <2>1. /\ sensor = SensorOf[stack[i]] /\ cur \in SensorMenu
        /\ \A j \in i + 1 .. Len(stack) : stack[j] \in SensorMenu
    BY DEF Nav, SensorFits
  <2>2. stack # <<>>
    BY DEF Nav, PlaceTyped
  <2> QED  BY <2>1, <2>2
<1> QED  BY <1>1, <1>2 DEF Nav

\* A handler that leaves the position alone.
LEMMA NavStays == ASSUME Nav, UNCHANGED nav PROVE Nav'
BY DEF Nav, nav, PlaceTyped, SensorFits

\* The screen on the panel has a flow that does this.
FlowOf(act, to) == \E p \in Presses : Flow[cur][p].act = act /\ Flow[cur][p].to = to

\* What a press does on the screen it meets: a flow of that screen's, or nothing.
LEMMA FlowCases ==
    ASSUME PanelInv, FlowPress
    PROVE  \/ \E to : FlowOf("next", to) /\ Page(After(to))
           \/ \E to : FlowOf("prev", to) /\ Page(Before(to))
           \/ \E to : FlowOf("descend", to) /\ Open(to)
           \/ Back \/ Commit \/ \E by \in {1, -1} : Adjust(by)
           \/ Notify /\ UNCHANGED <<nav, editor>>
<1> DEFINE e    == Head(events)
           flow == IF e.gesture = "hold" THEN Nothing ELSE Flow[cur][<<e.button, e.gesture>>]
<1>1. e \in Event
  BY TailFacts DEF PanelInv, FlowPress
<1>2. e.gesture # "hold" => <<e.button, e.gesture>> \in Presses
  BY <1>1 DEF Event, Presses
<1>3. CASE flow.act \in Moves
  <2>1. FlowOf(flow.act, flow.to)
    BY <1>2, <1>3 DEF FlowOf, Nothing, Moves
  <2>2. \/ flow.act = "next" /\ Page(After(flow.to))
        \/ flow.act = "prev" /\ Page(Before(flow.to))
        \/ flow.act = "descend" /\ Open(flow.to)
    BY <1>3, Zenon DEF FlowPress, Moves
  <2> QED  BY <2>1, <2>2
<1>4. CASE flow.act \notin Moves
  <2>1. \/ Back \/ Commit \/ Adjust(StepOf(e.button))
        \/ Notify /\ UNCHANGED <<nav, editor>>
    BY <1>4 DEF FlowPress, Moves
  <2> QED  BY <2>1 DEF StepOf
<1> QED  BY <1>3, <1>4

\* Every handler moves the panel to a place the table has, and below a sensor's page never out
\* of that sensor's menu.
LEMMA NextNav == ASSUME PanelInv, [Next]_vars PROVE Nav'
<1>0. Nav
  BY DEF PanelInv, Nav
<1>1. ASSUME NEW now, Poll(now) PROVE Nav'
  BY <1>0, <1>1, NavStays DEF Poll
<1>2. CASE Chord \/ EditorRamp \/ Route \/ SelectorPress \/ PressesDone \/ OpenSelector
  BY <1>0, <1>2, NavStays
     DEF Chord, EditorRamp, Route, SelectorPress, PressesDone, OpenSelector, ui
<1>3. CASE DisplayOff \/ IdleCheck
  <2>1. Escape \/ UNCHANGED nav
    BY <1>3 DEF DisplayOff, IdleCheck, EnterIdle
  <2> QED  BY <1>0, <2>1, EscapeKeeps, NavStays
<1>4. CASE EntryTimer
  <2>1. Ascend \/ UNCHANGED nav
    BY <1>4 DEF EntryTimer
  <2> QED  BY <1>0, <2>1, AscendKeeps, NavStays
<1>5. CASE Hold
  <2>1. CASE Complete
    <3> DEFINE toast == Guard[hold.screen].toast
    <3>1. UNCHANGED nav \/ Ascend \/ (toast # NoScreen /\ cur' = toast /\ UNCHANGED <<stack, sensor>>)
      BY <2>1 DEF Complete
    <3>2. hold.screen \in DOMAIN Guard /\ (cur = hold.screen \/ stack = <<>>)
      BY <2>1 DEF Complete, PanelInv, HoldFits
    <3>3. toast # NoScreen => toast \in Members
      BY <3>2, FlowAssumption DEF FlowsLead, Members
    <3>4. toast # NoScreen /\ stack # <<>> /\ cur \in SensorMenu => toast \in SensorMenu
      BY <3>2, SensorMenuFacts DEF BelowSensor
    <3>5. CASE toast # NoScreen /\ cur' = toast /\ UNCHANGED <<stack, sensor>>
      BY <1>0, <3>3, <3>4, <3>5, ReplaceKeeps DEF Members
    <3> QED  BY <1>0, <3>1, <3>5, AscendKeeps, NavStays
  <2>2. UNCHANGED nav \/ Complete
    BY <1>5 DEF Hold, Arm, Abort, Count
  <2> QED  BY <1>0, <2>1, <2>2, NavStays
<1>6. CASE FlowPress
  <2>1. ASSUME NEW to, FlowOf("next", to), Page(After(to)) PROVE Nav'
    <3>1. /\ cur # RootTail => to \in Members
          /\ cur \in SensorMenu => to \in SensorMenu
      BY <1>0, <2>1, FlowAssumption, SensorMenuFacts
         DEF FlowsLead, FlowOf, Moves, Members, BelowSensor, Nav, PlaceTyped
    <3>2. CASE stack # <<>>
      BY <1>0, <2>1, <3>1, <3>2, ReplaceKeeps DEF Page, After, Nav, PlaceTyped, Members
    <3>3. CASE stack = <<>>
      <4>1. After(to) \in Screens
        BY <3>1, <3>3, TableAssumption DEF KindsApart, After, Members
      <4> QED  BY <1>0, <2>1, <3>3, <4>1, ReplaceKeeps DEF Page
    <3> QED  BY <3>2, <3>3
  <2>2. ASSUME NEW to, FlowOf("prev", to), Page(Before(to)) PROVE Nav'
    <3>1. /\ cur # RootTail => to \in Members
          /\ cur \in SensorMenu => to \in SensorMenu
      BY <1>0, <2>2, FlowAssumption, SensorMenuFacts
         DEF FlowsLead, FlowOf, Moves, Members, BelowSensor, Nav, PlaceTyped
    <3>2. CASE stack # <<>>
      BY <1>0, <2>2, <3>1, <3>2, ReplaceKeeps DEF Page, Before, Nav, PlaceTyped, Members
    <3>3. CASE stack = <<>>
      <4>1. Before(to) \in Screens
        BY <3>1, <3>3, TableAssumption, LastMemberFacts DEF KindsApart, Before, Members
      <4> QED  BY <1>0, <2>2, <3>3, <4>1, ReplaceKeeps DEF Page
    <3> QED  BY <3>2, <3>3
  <2>3. ASSUME NEW to, FlowOf("descend", to), Open(to) PROVE Nav'
    <3>1. /\ cur # RootTail /\ to \in Members
          /\ cur \in SensorMenu \cup DOMAIN SensorOf => to \in SensorMenu
      BY <1>0, <2>3, FlowAssumption, SensorMenuFacts
         DEF FlowsLead, FlowOf, Moves, Members, BelowSensor, Nav, PlaceTyped
    <3>2. UNCHANGED nav \/ (Len(stack) < MaxDepth /\ Descend(to))
      BY <1>0, <2>3, Times DEF Open, Nav, PlaceTyped
    <3> QED  BY <1>0, <3>1, <3>2, DescendKeeps, NavStays
  <2>4. CASE \/ Back \/ Commit \/ \E by \in {1, -1} : Adjust(by)
             \/ Notify /\ UNCHANGED <<nav, editor>>
    <3>1. Ascend \/ UNCHANGED nav
      BY <2>4 DEF Back, Commit, Adjust
    <3> QED  BY <1>0, <3>1, AscendKeeps, NavStays
  <2> QED  BY <1>6, <2>1, <2>2, <2>3, <2>4, FlowCases
<1>7. CASE CommitSelection \/ EndPass
  <2>1. Escape \/ UNCHANGED nav
    BY <1>7 DEF CommitSelection, EndPass, Reboot, Start
  <2> QED  BY <1>0, <2>1, EscapeKeeps, NavStays
<1>8. CASE UNCHANGED vars
  BY <1>0, <1>8, NavStays DEF vars
<1> QED  BY <1>1, <1>2, <1>3, <1>4, <1>5, <1>6, <1>7, <1>8 DEF Next, Pass, Handler

-----------------------------------------------------------------------------
(* The editor. *)

EditorTyped == editor \in EditorState

\* An editor that is closed, or that a step or a prompt changes where it is.
LEMMA EditorMoves ==
    ASSUME EditorTyped
    PROVE  /\ NoEdit \in EditorState /\ ~NoEdit.on
           /\ \A by \in {1, -1} : Stepped(by) \in EditorState /\ Stepped(by).on = editor.on
           /\ \A p \in Prompts :
                [editor EXCEPT !.prompt = p] \in EditorState /\ [editor EXCEPT !.prompt = p].on = editor.on
<1> USE DEF EditorTyped, EditorState, Prompts
<1>1. NoEdit \in EditorState /\ ~NoEdit.on
  BY Times DEF NoEdit
<1>2. ASSUME NEW by \in {1, -1} PROVE Stepped(by) \in EditorState /\ Stepped(by).on = editor.on
  <2> DEFINE v == IF editor.pending + by < 0 THEN 0 ELSE Least(editor.pending + by, MaxValue)
  <2>1. v \in 0 .. MaxValue
    <3>1. editor.pending \in 0 .. MaxValue
      OBVIOUS
    <3> QED  BY <3>1, Times DEF Least
  <2>2. Stepped(by) = [editor EXCEPT !.prompt = "none", !.pending = v]
    BY DEF Stepped
  <2> HIDE DEF v
  <2> QED  BY <2>1, <2>2
<1> QED  BY <1>1, <1>2

\* No way off an editor's screen leaves the editor open.
LEMMA NextEditor == ASSUME PanelInv, [Next]_vars PROVE EditorFits'
<1>0. EditorTyped /\ (editor.on => cur \in Editors /\ stack # <<>>)
  BY DEF PanelInv, EditorFits, EditorTyped
<1>a. ASSUME editor' = NoEdit PROVE EditorFits'
  BY <1>0, <1>a, EditorMoves DEF EditorFits
<1>b. ASSUME UNCHANGED nav,
             \/ editor' = editor
             \/ \E by \in {1, -1} : editor' = Stepped(by)
             \/ \E p \in Prompts : editor' = [editor EXCEPT !.prompt = p]
      PROVE  EditorFits'
  BY <1>0, <1>b, EditorMoves DEF EditorFits, EditorTyped, nav
<1>1. ASSUME NEW now, Poll(now) PROVE EditorFits'
  BY <1>1, <1>b DEF Poll
<1>2. CASE Chord \/ Route \/ SelectorPress \/ PressesDone
  BY <1>2, <1>b DEF Chord, Route, SelectorPress, PressesDone, ui
<1>3. CASE DisplayOff \/ IdleCheck \/ EntryTimer \/ OpenSelector
  <2>1. editor' = NoEdit \/ UNCHANGED <<nav, editor>>
    BY <1>3 DEF DisplayOff, IdleCheck, EnterIdle, EntryTimer, OpenSelector
  <2> QED  BY <2>1, <1>a, <1>b
<1>4. CASE EditorRamp
  <2>1. UNCHANGED nav /\ (editor' = editor \/ \E by \in {1, -1} : editor' = Stepped(by))
    BY <1>4 DEF EditorRamp, StepOf
  <2> QED  BY <2>1, <1>b
<1>5. CASE Hold
  <2>1. CASE Complete
    <3>1. ~editor.on
      <4>1. hold.screen \in DOMAIN Guard /\ (cur = hold.screen \/ stack = <<>>)
        BY <2>1 DEF Complete, PanelInv, HoldFits
      <4> QED  BY <1>0, <4>1, TableAssumption DEF KindsApart
    <3> QED  BY <1>0, <2>1, <3>1 DEF Complete, EditorFits, EditorTyped
  <2>2. CASE UNCHANGED <<nav, editor>>
    BY <2>2, <1>b
  <2> QED  BY <1>5, <2>1, <2>2 DEF Hold, Arm, Abort, Count
<1>6. CASE FlowPress
  <2>1. ASSUME NEW to, FlowOf("next", to), Page(After(to)) PROVE EditorFits'
    <3>1. cur \notin Editors
      BY <2>1, FlowAssumption DEF FlowsLead, FlowOf
    <3> QED  BY <1>0, <2>1, <3>1 DEF Page, EditorFits, EditorTyped
  <2>2. ASSUME NEW to, FlowOf("prev", to), Page(Before(to)) PROVE EditorFits'
    <3>1. cur \notin Editors
      BY <2>2, FlowAssumption DEF FlowsLead, FlowOf
    <3> QED  BY <1>0, <2>2, <3>1 DEF Page, EditorFits, EditorTyped
  <2>3. ASSUME NEW to, FlowOf("descend", to), Open(to) PROVE EditorFits'
    <3>1. CASE UNCHANGED <<nav, editor>>
      BY <3>1, <1>b
    <3>2. CASE /\ Descend(to) /\ to \in Editors
               /\ \E v \in 0 .. MaxValue : editor' = [on |-> TRUE, pending |-> v, prompt |-> "none"]
      <4>1. cur' \in Editors /\ stack' # <<>>
        BY <3>2 DEF Descend, PanelInv, PlaceTyped
      <4>2. editor' \in EditorState
        BY <3>2 DEF EditorState, Prompts
      <4> QED  BY <4>1, <4>2 DEF EditorFits
    <3> QED  BY <2>3, <3>1, <3>2, <1>a DEF Open
  <2>4. CASE \/ Back \/ Commit \/ \E by \in {1, -1} : Adjust(by)
             \/ Notify /\ UNCHANGED <<nav, editor>>
    <3>1. \/ editor' = NoEdit
          \/ UNCHANGED nav /\ \/ editor' = editor
                              \/ \E by \in {1, -1} : editor' = Stepped(by)
                              \/ \E p \in Prompts :
                                   editor' = [editor EXCEPT !.prompt = p]
      BY <2>4 DEF Back, Commit, Adjust, Prompts
    <3> QED  BY <3>1, <1>a, <1>b
  <2> QED  BY <1>6, <2>1, <2>2, <2>3, <2>4, FlowCases
<1>7. CASE CommitSelection \/ EndPass
  <2>1. editor' = NoEdit \/ UNCHANGED <<nav, editor>>
    BY <1>7 DEF CommitSelection, EndPass, Reboot, Start, ui
  <2> QED  BY <2>1, <1>a, <1>b
<1>8. CASE UNCHANGED vars
  BY <1>8, <1>b DEF vars, ui
<1> QED  BY <1>1, <1>2, <1>3, <1>4, <1>5, <1>6, <1>7, <1>8 DEF Next, Pass, Handler

-----------------------------------------------------------------------------
(* The countdown of a guarded action. *)

\* No countdown, no claim.
LEMMA HoldGone == ASSUME hold' = NoHold, enterAge' \in 0 .. MaxGuard PROVE HoldFits'
BY DEF HoldFits, NoHold

\* A handler that leaves the countdown and ENTER alone, and does not move the panel off the
\* guarded screen but to P0.
LEMMA HoldStays ==
    ASSUME HoldFits, UNCHANGED <<hold, held, restart>>, enterAge' \in {0, enterAge},
           pc' \in BeforeHold <=> pc \in BeforeHold,
           hold # NoHold =>
             /\ UNCHANGED <<cur, stack>> \/ stack' = <<>>
             /\ enterAge' = enterAge \/ (pc \in BeforeHold /\ ~Down("enter"))
             /\ pc' # "flow"
    PROVE  HoldFits'
<1>1. enterAge' \in 0 .. MaxGuard
  BY MaxGuardFacts DEF HoldFits
<1>2. CASE hold = NoHold
  BY <1>1, <1>2, HoldGone
<1>3. CASE hold # NoHold
  <2>1. hold' # NoHold
    BY <1>3 DEF NoHold
  <2>2. cur' = hold'.screen \/ stack' = <<>>
    BY <1>3 DEF HoldFits
  <2>3. IF pc' \in BeforeHold THEN Down("enter")' => hold'.age < enterAge'
                              ELSE Down("enter")' /\ hold'.age <= enterAge'
    BY <1>3 DEF HoldFits, Down
  <2> QED  BY <1>1, <1>3, <2>1, <2>2, <2>3 DEF HoldFits
<1> QED  BY <1>2, <1>3

\* A countdown lives as long as ENTER stays down and the panel stays on its screen.
LEMMA NextHold == ASSUME PanelInv, [Next]_vars PROVE HoldFits'
<1>0. HoldFits /\ InputTyped /\ PlaceTyped
  BY DEF PanelInv
<1>a. enterAge \in 0 .. MaxGuard /\ 0 \in 0 .. MaxGuard
  BY <1>0, MaxGuardFacts DEF HoldFits
<1> USE DEF BeforeHold
<1>1. ASSUME NEW now \in SUBSET Buttons, Poll(now) PROVE HoldFits'
  <2> DEFINE older == Least(enterAge + 1, MaxGuard)
  <2>1. /\ pc = "poll" /\ pc' = "chord" /\ hold' = hold /\ UNCHANGED <<cur, stack>>
        /\ restart = 0 => restart' = 0
        /\ enterAge' = IF "enter" \in now /\ Down("enter") THEN older ELSE 0
        /\ "enter" \notin now => held'["enter"] = 0
    BY <1>1 DEF Poll, timers, nav, Buttons
  <2>2. older \in 0 .. MaxGuard
    BY <1>a, MaxGuardFacts, Saturates
  <2>3. enterAge' \in 0 .. MaxGuard
    BY <1>a, <2>1, <2>2
  <2>4. CASE hold = NoHold
    BY <2>1, <2>3, <2>4, HoldGone
  <2>5. CASE hold # NoHold
    <3>1. /\ hold.screen \in DOMAIN Guard /\ hold.age < Guard[hold.screen].time
          /\ hold.age \in Nat /\ hold.age <= enterAge /\ Down("enter") /\ restart = 0
          /\ cur = hold.screen \/ stack = <<>>
      BY <1>0, <2>1, <2>5 DEF HoldFits
    <3>2. Guard[hold.screen].time \in Nat /\ Guard[hold.screen].time <= MaxGuard /\ MaxGuard \in Nat
      BY <3>1, MaxGuardFacts, TimesAssumption
    <3>3. hold.age < older
      BY <1>a, <3>1, <3>2 DEF Least
    <3>4. Down("enter")' => hold'.age < enterAge'
      <4>1. Down("enter")' => "enter" \in now
        BY <2>1 DEF Down
      <4> QED  BY <2>1, <3>1, <3>3, <4>1
    <3>5. hold' \in [screen : DOMAIN Guard \cup {NoScreen}, age : Nat]
      BY <1>0, <2>1 DEF HoldFits
    <3> HIDE DEF older
    <3> QED  BY <2>1, <2>3, <3>1, <3>4, <3>5 DEF HoldFits
  <2> QED  BY <2>4, <2>5
<1>2. CASE Chord \/ EditorRamp
  BY <1>0, <1>2, HoldStays DEF Chord, EditorRamp, nav, history, result
<1>3. CASE DisplayOff
  <2>1. /\ UNCHANGED <<hold, held, restart>> /\ pc = "combo" /\ pc' = "ramp" /\ Track
        /\ UNCHANGED nav \/ (Escape /\ ~Down("enter"))
    BY <1>3 DEF DisplayOff, EnterIdle, result
  <2> QED  BY <1>0, <2>1, HoldStays DEF Track, nav, Escape
<1>4. CASE EntryTimer
  <2>1. /\ UNCHANGED <<hold, held, restart>> /\ pc = "entry" /\ pc' = "hold" /\ Track
        /\ UNCHANGED nav \/ (Ascend /\ cur \in Toasts)
    BY <1>4 DEF EntryTimer, input, result
  <2>2. hold # NoHold /\ cur \in Toasts => stack = <<>>
    BY <1>0, TableAssumption DEF KindsApart, HoldFits
  <2>3. hold # NoHold => UNCHANGED nav
    BY <2>1, <2>2 DEF Ascend
  <2> QED  BY <1>0, <2>1, <2>3, HoldStays DEF Track, nav
<1>5. CASE Hold
  <2>1. pc = "hold" /\ pc' = "route" /\ held' = held
    BY <1>5 DEF Hold
  <2>2. CASE restart # 0
    <3>1. hold' = NoHold /\ enterAge' = enterAge
      BY <1>0, <1>5, <2>2 DEF Hold, HoldFits
    <3> QED  BY <1>a, <3>1, HoldGone
  <2>3. CASE restart = 0 /\ Arm
    <3>1. CASE hold' = NoHold
      BY <1>a, <2>3, <3>1, HoldGone DEF Arm
    <3>2. CASE hold' # NoHold
      <4>1. /\ hold' = [screen |-> cur, age |-> 0] /\ cur \in DOMAIN Guard /\ Down("enter")
            /\ UNCHANGED <<cur, stack, restart, enterAge>>
        BY <2>3, <3>2 DEF Arm, Guarded, nav
      <4>2. Guard[cur].time \in Nat \ {0}
        BY <4>1, TimesAssumption
      <4>3. Down("enter")' /\ hold'.screen = cur /\ hold'.age = 0
        BY <2>1, <4>1 DEF Down
      <4> QED  BY <1>a, <2>1, <2>3, <4>1, <4>2, <4>3 DEF HoldFits
    <3> QED  BY <3>1, <3>2
  <2>4. CASE restart = 0 /\ Abort
    BY <1>a, <2>4, HoldGone DEF Abort
  <2>5. CASE restart = 0 /\ Count
    <3>1. /\ hold # NoHold /\ Down("enter") /\ hold.age + 1 < Guard[hold.screen].time
          /\ hold' = [hold EXCEPT !.age = @ + 1] /\ UNCHANGED <<cur, stack, restart, enterAge>>
      BY <2>5 DEF Count, nav
    <3>2. /\ hold \in [screen : DOMAIN Guard \cup {NoScreen}, age : Nat]
          /\ hold.screen \in DOMAIN Guard /\ hold.age < enterAge
          /\ cur = hold.screen \/ stack = <<>>
      BY <1>0, <2>1, <3>1 DEF HoldFits
    <3>3. /\ hold' \in [screen : DOMAIN Guard \cup {NoScreen}, age : Nat]
          /\ hold'.screen = hold.screen /\ hold'.age = hold.age + 1
      BY <3>1, <3>2
    <3>4. Down("enter")' /\ hold'.age <= enterAge
      BY <1>a, <2>1, <3>1, <3>2, <3>3 DEF Down
    <3> QED  BY <1>a, <2>1, <2>5, <3>1, <3>2, <3>3, <3>4 DEF HoldFits
  <2>6. CASE restart = 0 /\ Complete
    BY <1>a, <2>6, HoldGone DEF Complete, Track
  <2> QED  BY <1>5, <2>2, <2>3, <2>4, <2>5, <2>6 DEF Hold
<1>6. CASE FlowPress
  <2>1. hold' = NoHold /\ Track
    BY <1>0, <1>6 DEF FlowPress, timers, HoldFits
  <2> QED  BY <1>a, <2>1, HoldGone DEF Track
<1>7. CASE Route \/ SelectorPress \/ PressesDone \/ OpenSelector
  <2>1. /\ UNCHANGED <<hold, held, restart, enterAge, nav>>
        /\ pc \notin BeforeHold /\ pc' \notin BeforeHold
        /\ hold # NoHold => pc' # "flow"
    BY <1>0, <1>7 DEF Route, SelectorPress, PressesDone, OpenSelector, timers, input, result,
                      history, HoldFits
  <2> QED  BY <1>0, <2>1, HoldStays DEF nav
<1>8. CASE IdleCheck
  <2>1. /\ UNCHANGED <<hold, held, restart, enterAge>> /\ pc = "idle" /\ pc' = "act"
        /\ UNCHANGED nav \/ Escape
    BY <1>8 DEF IdleCheck, EnterIdle, timers, input, result, history
  <2> QED  BY <1>0, <2>1, HoldStays DEF nav, Escape
<1>9. CASE CommitSelection \/ EndPass
  <2>1. CASE Reboot
    BY <1>a, <2>1, HoldGone DEF Reboot, Start
  <2>2. CASE ~Reboot
    <3>1. /\ UNCHANGED <<hold, held, restart, enterAge, nav>>
          /\ pc = "act" /\ pc' \in {"act", "poll"}
      BY <1>9, <2>2 DEF CommitSelection, EndPass, timers, input, result, history
    <3> QED  BY <1>0, <3>1, HoldStays DEF nav
  <2> QED  BY <2>1, <2>2
<1>10. CASE UNCHANGED vars
  <2>1. UNCHANGED <<hold, held, restart, enterAge, nav, pc>>
    BY <1>10 DEF vars, timers, input, result, history
  <2> QED  BY <1>0, <2>1, HoldStays DEF nav, HoldFits
<1> QED  BY <1>1, <1>2, <1>3, <1>4, <1>5, <1>6, <1>7, <1>8, <1>9, <1>10 DEF Next, Pass, Handler

-----------------------------------------------------------------------------
(* The held repeat of the editor. *)

BeforeRamp == {"chord", "combo", "ramp"}

\* A handler that takes from the ring, and leaves the repeat and the buttons alone.
LEMMA RampStays ==
    ASSUME RampFits, UNCHANGED <<ramp, ramped, held>>,
           pc' \in BeforeRamp <=> pc \in BeforeRamp,
           \A i \in 1 .. Len(events') : \E j \in 1 .. Len(events) : events'[i] = events[j]
    PROVE  RampFits'
<1>1. CASE ramped = "none"
  BY <1>1 DEF RampFits
<1>2. CASE ramped # "none"
  <2>1. CASE pc \in BeforeRamp
    BY <1>2, <2>1 DEF RampFits, BeforeRamp, Ramping, Down
  <2>2. CASE pc \notin BeforeRamp
    <3>1. Down(ramped)' => Ramping(ramped)'
      BY <1>2, <2>2 DEF RampFits, BeforeRamp, Ramping, Down
    <3>2. \A i \in 1 .. Len(events') : events'[i].button # ramped'
      BY <1>2, <2>2 DEF RampFits, BeforeRamp
    <3> QED  BY <1>2, <2>2, <3>1, <3>2 DEF RampFits, BeforeRamp
  <2> QED  BY <2>1, <2>2
<1> QED  BY <1>1, <1>2

\* What a button's hold has stepped, its release leaves alone.
LEMMA NextRamp == ASSUME PanelInv, [Next]_vars PROVE RampFits'
<1>0. RampFits /\ InputTyped
  BY DEF PanelInv
<1>1. ASSUME NEW now \in SUBSET Buttons, Poll(now) PROVE RampFits'
  <2>1. /\ pc = "poll" /\ pc' = "chord" /\ ramp' = ramp
        /\ \A b \in Buttons \ now : held'[b] = 0
        /\ ramped' = IF ramped # "none" /\ Down(ramped) /\ now \subseteq {ramped, "enter"}
                     THEN ramped ELSE "none"
    BY <1>1 DEF Poll, timers
  <2>2. CASE ramped' = "none"
    BY <1>0, <2>1, <2>2 DEF RampFits
  <2>3. CASE ramped' # "none"
    <3>1. ramped' = ramped /\ ramped \in {"up", "down"} /\ Ramping(ramped)
          /\ now \subseteq {ramped, "enter"}
      BY <1>0, <2>1, <2>3 DEF RampFits
    <3>2. \A b \in {"up", "down"} \ {ramped} : ~Down(b)'
      BY <2>1, <3>1 DEF Down, Buttons
    <3> QED  BY <1>0, <2>1, <3>1, <3>2 DEF RampFits, Ramping
  <2> QED  BY <2>2, <2>3
<1>2. CASE Chord \/ DisplayOff
  <2>1. /\ UNCHANGED <<ramp, ramped, held>> /\ pc \in BeforeRamp /\ pc' \in BeforeRamp
        /\ events' = events \/ events' = <<>>
    BY <1>2 DEF Chord, DisplayOff, history, BeforeRamp
  <2> QED  BY <1>0, <2>1, RampStays
<1>3. CASE EditorRamp
  <2> DEFINE b     == IF Down("up") THEN "up" ELSE "down"
             alone == Down("up") # Down("down")
             due   == alone /\ ramp.on /\ ramp.button = b
  <2>1. /\ pc = "ramp" /\ pc' = "entry" /\ held' = held
        /\ ramp' = IF ~editor.on \/ ~alone THEN NoRamp
                   ELSE [on |-> TRUE, button |-> b,
                         stepped |-> due \/ (ramp.on /\ ramp.button = b /\ ramp.stepped)]
        /\ ramped' = IF ~editor.on THEN "none" ELSE IF due THEN b ELSE ramped
        /\ editor.on => events' = IF due THEN Without(b)
                                  ELSE IF ~alone /\ ramp.on /\ ramp.stepped THEN Without(ramp.button)
                                  ELSE events
    BY <1>3 DEF EditorRamp
  <2>2. ramp' \in [on : BOOLEAN, button : {"up", "down"}, stepped : BOOLEAN]
    <3>1. ramp.stepped \in BOOLEAN /\ ramp.on \in BOOLEAN /\ due \in BOOLEAN /\ b \in {"up", "down"}
      BY <1>0 DEF RampFits
    <3>2. (due \/ (ramp.on /\ ramp.button = b /\ ramp.stepped)) \in BOOLEAN
      OBVIOUS
    <3> HIDE DEF b, due
    <3> QED  BY <2>1, <3>1, <3>2 DEF NoRamp
  <2>3. CASE ~editor.on
    BY <2>1, <2>2, <2>3 DEF RampFits
  <2>4. CASE editor.on /\ due
    <3>1. ramped' = b /\ events' = Without(b) /\ ramp' = [on |-> TRUE, button |-> b, stepped |-> TRUE]
      BY <2>1, <2>4
    <3>2. \A i \in 1 .. Len(events') : events'[i].button # ramped'
      BY <1>0, <3>1, WithoutFacts
    <3>3. b \in {"up", "down"} /\ Ramping(ramped)'
      BY <3>1 DEF Ramping
    <3> HIDE DEF b
    <3> QED  BY <2>1, <2>2, <3>1, <3>2, <3>3 DEF RampFits
  <2>5. CASE editor.on /\ ~due
    <3>1. ramped' = ramped
      BY <2>1, <2>5
    <3>2. CASE ramped = "none"
      BY <2>2, <3>1, <3>2 DEF RampFits
    <3>3. CASE ramped # "none"
      <4>1. /\ ramped \in {"up", "down"} /\ Ramping(ramped)
            /\ \A c \in {"up", "down"} \ {ramped} : ~Down(c)
        BY <1>0, <2>1, <3>3 DEF RampFits
      <4>2. ramp.on /\ ramp.stepped /\ ramp.button = ramped
        BY <4>1 DEF Ramping
      <4>3. ~Down(ramped)
        <5>1. ASSUME Down(ramped) PROVE due
          BY <4>1, <4>2, <5>1
        <5> QED  BY <2>5, <5>1
      <4>4. ~alone
        BY <4>1, <4>3 DEF Down
      <4>5. events' = Without(ramped)
        BY <2>1, <2>5, <4>2, <4>4
      <4>6. \A i \in 1 .. Len(events') : events'[i].button # ramped'
        BY <1>0, <3>1, <4>5, WithoutFacts
      <4>7. ~Down(ramped)'
        BY <2>1, <3>1, <4>3 DEF Down
      <4> QED  BY <2>1, <2>2, <3>1, <4>1, <4>6, <4>7 DEF RampFits
    <3> QED  BY <3>2, <3>3
  <2> QED  BY <2>3, <2>4, <2>5
<1>4. CASE EntryTimer \/ Hold \/ Route \/ PressesDone \/ IdleCheck \/ OpenSelector
  <2>1. UNCHANGED <<ramp, ramped, held>> /\ (events' = events \/ events' = <<>>)
    BY <1>4 DEF EntryTimer, Hold, Arm, Abort, Count, Complete, Route, PressesDone, IdleCheck,
                OpenSelector, timers, input, history
  <2>2. pc \notin BeforeRamp /\ pc' \notin BeforeRamp
    BY <1>4 DEF EntryTimer, Hold, Route, PressesDone, IdleCheck, OpenSelector, BeforeRamp
  <2> QED  BY <1>0, <2>1, <2>2, RampStays
<1>5. CASE SelectorPress \/ FlowPress
  <2>1. /\ UNCHANGED <<ramp, ramped, held>> /\ events # <<>> /\ events' = Tail(events)
        /\ pc \in {"select", "flow"} /\ pc' = pc
    BY <1>5 DEF SelectorPress, FlowPress, timers, history
  <2> QED  BY <1>0, <2>1, TailFacts, RampStays DEF BeforeRamp
<1>6. CASE CommitSelection \/ EndPass
  <2>1. CASE Reboot
    BY <2>1 DEF Reboot, Start, RampFits, NoRamp
  <2>2. CASE ~Reboot
    <3>1. UNCHANGED <<ramp, ramped, held, events>> /\ pc = "act" /\ pc' \in {"act", "poll"}
      BY <1>6, <2>2 DEF CommitSelection, EndPass, timers, input, history
    <3> QED  BY <1>0, <3>1, RampStays DEF BeforeRamp
  <2> QED  BY <2>1, <2>2
<1>7. CASE UNCHANGED vars
  <2>1. UNCHANGED <<ramp, ramped, held, events, pc>>
    BY <1>7 DEF vars, timers, input, history
  <2> QED  BY <1>0, <2>1, RampStays
<1> QED  BY <1>1, <1>2, <1>3, <1>4, <1>5, <1>6, <1>7 DEF Next, Pass, Handler

-----------------------------------------------------------------------------
(* The rest of the state. *)

\* A cursor that wraps stays on the page.
LEMMA WrapsAround ==
    ASSUME NEW n \in Nat \ {0}, NEW k \in Nat
    PROVE  k % n \in 0 .. n - 1
<1>1. k % n \in Int /\ 0 <= k % n /\ k % n < n
  OBVIOUS
<1> QED  BY <1>1

\* The gestures' timers saturate, the cursor wraps, and the restart is counted to its delay.
LEMMA NextRest == ASSUME PanelInv, [Next]_vars PROVE RestTyped'
<1>0. RestTyped
  BY DEF PanelInv
<1> USE Times DEF BeforeHold, AfterHold
<1>1. pc' \in BeforeHold \cup AfterHold
  BY <1>0 DEF RestTyped, Next, Pass, Handler, Poll, Chord, DisplayOff, EditorRamp, EntryTimer, Hold,
              Route, SelectorPress, FlowPress, PressesDone, IdleCheck, OpenSelector,
              CommitSelection, EndPass, Reboot, Start, vars
<1>2. chord' \in 0 .. ChordHold + 1
  <2>1. CASE Chord
    <3>1. chord' \in {0, 1, Least(chord + 1, ChordHold + 1)}
      BY <2>1 DEF Chord
    <3> QED  BY <1>0, <3>1, Saturates DEF RestTyped
  <2>2. chord' \in {chord, 0} \/ Chord
    BY DEF Next, Pass, Handler, Poll, DisplayOff, EditorRamp, EntryTimer, Hold,
              Route, SelectorPress, FlowPress, PressesDone, IdleCheck, OpenSelector,
              CommitSelection, EndPass, Reboot, Start, vars, timers
  <2> QED  BY <1>0, <2>1, <2>2 DEF RestTyped
<1>3. combo' \in 0 .. ComboMax + 1
  <2>1. CASE DisplayOff
    <3>1. combo' \in {0, 1, Least(combo + 1, ComboMax + 1)}
      BY <2>1 DEF DisplayOff
    <3> QED  BY <1>0, <3>1, Saturates DEF RestTyped
  <2>2. combo' \in {combo, 0} \/ DisplayOff
    BY DEF Next, Pass, Handler, Poll, Chord, EditorRamp, EntryTimer, Hold,
              Route, SelectorPress, FlowPress, PressesDone, IdleCheck, OpenSelector,
              CommitSelection, EndPass, Reboot, Start, vars, timers
  <2> QED  BY <1>0, <2>1, <2>2 DEF RestTyped
<1>4. restart' \in 0 .. RestartDelay + 1
  <2>1. ASSUME NEW now \in SUBSET Buttons, Poll(now) PROVE restart' \in 0 .. RestartDelay + 1
    <3>1. restart' \in {0, Least(restart + 1, RestartDelay + 1)}
      BY <2>1 DEF Poll
    <3> QED  BY <1>0, <3>1, Saturates DEF RestTyped
  <2>2. restart' \in {restart, 0, 1} \/ Pass
    BY DEF Next, Handler, Chord, DisplayOff, EditorRamp, EntryTimer, Hold, Arm, Abort, Count,
              Complete, Route, SelectorPress, FlowPress, PressesDone, IdleCheck, OpenSelector,
              CommitSelection, EndPass, Reboot, Start, vars, result
  <2> QED  BY <1>0, <2>1, <2>2 DEF RestTyped, Pass
<1>5. selector' \in [open : BOOLEAN, cursor : 0 .. Packs - 1]
  <2>0. selector \in [open : BOOLEAN, cursor : 0 .. Packs - 1]
    BY <1>0 DEF RestTyped
  <2>1. CASE SelectorPress
    <3> DEFINE e == Head(events)
    <3>1. \/ selector' = [selector EXCEPT !.cursor = (@ + Packs - 1) % Packs]
          \/ selector' = [selector EXCEPT !.cursor = (@ + 1) % Packs]
          \/ selector' = [selector EXCEPT
                            !.open = @ /\ e.gesture = "short" /\ selector.cursor # Active]
      BY <2>1 DEF SelectorPress
    <3>2. /\ (selector.cursor + Packs - 1) % Packs \in 0 .. Packs - 1
          /\ (selector.cursor + 1) % Packs \in 0 .. Packs - 1
      <4>1. selector.cursor + Packs - 1 \in Nat /\ selector.cursor + 1 \in Nat /\ Packs \in Nat \ {0}
        BY <2>0
      <4> QED  BY <4>1, WrapsAround
    <3>3. (selector.open /\ e.gesture = "short" /\ selector.cursor # Active) \in BOOLEAN
      OBVIOUS
    <3> QED  BY <2>0, <3>1, <3>2, <3>3
  <2>2. CASE CommitSelection
    <3>1. selector' = [open |-> FALSE, cursor |-> Active] \/ selector' = [selector EXCEPT !.open = FALSE]
      BY <2>2 DEF CommitSelection, Reboot, Start
    <3>2. [selector EXCEPT !.open = FALSE] \in [open : BOOLEAN, cursor : 0 .. Packs - 1]
      BY <2>0
    <3>3. [open |-> FALSE, cursor |-> Active] \in [open : BOOLEAN, cursor : 0 .. Packs - 1]
      OBVIOUS
    <3> QED  BY <3>1, <3>2, <3>3
  <2>3. \/ selector' = selector \/ SelectorPress \/ CommitSelection
        \/ \E open \in BOOLEAN : selector' = [open |-> open, cursor |-> Active]
    BY DEF Next, Pass, Handler, Poll, Chord, DisplayOff, EditorRamp, EntryTimer, Hold,
              Route, FlowPress, PressesDone, IdleCheck, OpenSelector,
              EndPass, Reboot, Start, vars, ui
  <2> QED  BY <2>0, <2>1, <2>2, <2>3
<1> QED  BY <1>1, <1>2, <1>3, <1>4, <1>5 DEF RestTyped

-----------------------------------------------------------------------------
(* The invariant. *)

\* A boot is a state of the invariant.
LEMMA InitPanel == Init => PanelInv
<1> SUFFICES ASSUME Init PROVE PanelInv
  OBVIOUS
<1> USE Times DEF Init
<1>1. InputTyped
  BY DEF InputTyped
<1>2. PlaceTyped /\ SensorFits
  BY TableAssumption DEF KindsApart, PlaceTyped, SensorFits
<1>3. EditorFits
  BY DEF EditorFits, EditorState, Prompts, NoEdit
<1>4. HoldFits
  BY MaxGuardFacts DEF HoldFits, NoHold
<1>5. RampFits
  BY DEF RampFits, NoRamp
<1>6. RestTyped
  BY DEF RestTyped, BeforeHold, AfterHold
<1> QED  BY <1>1, <1>2, <1>3, <1>4, <1>5, <1>6 DEF PanelInv

\* Every handler of a pass keeps it.
LEMMA NextPanel == ASSUME PanelInv, [Next]_vars PROVE PanelInv'
BY InputKeeps, NextNav, NextEditor, NextHold, NextRamp, NextRest DEF PanelInv, Nav

\* It holds in every pass.
LEMMA PanelAlways == Spec => []PanelInv
BY InitPanel, NextPanel, PTL DEF Spec

\* Every counter, gate and screen index of the pass has a value its field can hold: the ring
\* never overflows and the stack is never deeper than its array (TypeOK), for every table and
\* every timing.
THEOREM TypesAlwaysHold == Spec => []TypeOK
<1>1. ASSUME PanelInv PROVE TypeOK
  <2>1. stack \in Seq(Screens)
    BY <1>1 DEF PanelInv, PlaceTyped, Members
  <2>2. hold.screen \in {NoScreen} \cup DOMAIN Guard
    BY <1>1 DEF PanelInv, HoldFits
  <2>3. editor.pending \in 0 .. MaxValue /\ editor.prompt \in {"none", "nyquist", "failed"}
    BY <1>1 DEF PanelInv, EditorFits, EditorState, Prompts
  <2>4. selector.cursor \in 0 .. Packs - 1 /\ restart \in 0 .. RestartDelay + 1
        /\ chord \in 0 .. ChordHold + 1 /\ combo \in 0 .. ComboMax + 1
    BY <1>1 DEF PanelInv, RestTyped
  <2> QED  BY <1>1, <2>1, <2>2, <2>3, <2>4
           DEF TypeOK, PanelInv, InputTyped, PlaceTyped, RestTyped, BeforeHold, AfterHold
<1> QED  BY <1>1, PanelAlways, PTL

\* No way off an editor's screen, by a press, the display-off gesture, the inactivity timeout, a
\* toast or the Select Menu page, leaves the editor open behind it (EditorOnItsScreen).
THEOREM EditorStaysOnItsScreen == Spec => []EditorOnItsScreen
<1>1. PanelInv => EditorOnItsScreen
  BY DEF PanelInv, EditorFits, EditorOnItsScreen
<1> QED  BY <1>1, PanelAlways, PTL

\* However deep below a sensor's page the operator stands, the sensor the panel acts on is that
\* page's (SensorFollowsStack).
THEOREM SensorAlwaysFollows == Spec => []SensorFollowsStack
<1>1. PanelInv => SensorFollowsStack
  BY DEF PanelInv, SensorFits, SensorFollowsStack
<1> QED  BY <1>1, PanelAlways, PTL

\* A guarded action is performed only by the step that ends its countdown, and then ENTER has
\* been down on its screen for the guard's whole time (FullHold).
THEOREM HoldsAreWhole == Spec => FullHold
<1>1. ASSUME PanelInv, [Next]_vars, fired' # fired, fired' # "none"
      PROVE  \E s \in DOMAIN Guard : Guard[s].act = fired' /\ enterAge >= Guard[s].time
  <2>1. pc = "hold" /\ Complete
    <3>1. CASE Hold
      BY <1>1, <3>1 DEF Hold, Arm, Abort, Count
    <3>2. CASE ~Hold
      <4>1. fired' = fired \/ fired' = "none"
        BY <1>1, <3>2 DEF Next, Pass, Handler, Poll, Chord, DisplayOff, EditorRamp, EntryTimer,
             Route, SelectorPress, FlowPress, PressesDone, IdleCheck, OpenSelector,
             CommitSelection, EndPass, Reboot, Start, vars, result
      <4> QED  BY <1>1, <4>1
    <3> QED  BY <3>1, <3>2
  <2>2. /\ hold # NoHold /\ Down("enter") /\ hold.age + 1 >= Guard[hold.screen].time
        /\ fired' = Guard[hold.screen].act
    BY <1>1, <2>1 DEF Complete
  <2>3. /\ hold.screen \in DOMAIN Guard /\ hold.age < enterAge
        /\ hold.age \in Nat /\ enterAge \in 0 .. MaxGuard
    BY <1>1, <2>1, <2>2 DEF PanelInv, HoldFits, BeforeHold
  <2>4. Guard[hold.screen].time \in Nat /\ MaxGuard \in Nat
    BY <2>3, TimesAssumption, MaxGuardFacts
  <2>5. enterAge >= Guard[hold.screen].time
    BY <2>2, <2>3, <2>4
  <2> QED  BY <2>2, <2>3, <2>5
<1>2. PanelInv /\ [Next]_vars =>
        [fired' # fired /\ fired' # "none" =>
           \E s \in DOMAIN Guard : Guard[s].act = fired' /\ enterAge >= Guard[s].time]_vars
  BY <1>1
<1> QED  BY <1>2, PanelAlways, PTL DEF Spec, FullHold

\* Where a hold has stepped the value, the ring the editor's screen reads holds no press of that
\* button: its release adds nothing (RampOwnsItsRelease).
THEOREM RampsOwnTheirRelease == Spec => RampOwnsItsRelease
<1>1. ASSUME PanelInv, [Next]_vars, pc = "flow", pc' = "flow", editor.on, editor'.on,
             Head(events).button = ramped
      PROVE  editor'.pending = editor.pending
  <2>1. CASE FlowPress
    <3>1. events # <<>> /\ Head(events) = events[1] /\ 1 \in 1 .. Len(events)
          /\ events[1].button \in Buttons
      <4>1. events \in Seq(Event) /\ events # <<>>
        BY <1>1, <2>1 DEF FlowPress, PanelInv, InputTyped
      <4>2. Head(events) = events[1] /\ 1 \in 1 .. Len(events) /\ events[1] \in Event
        BY <4>1
      <4> QED  BY <4>1, <4>2 DEF Event
    <3>2. ramped # "none" => events[1].button # ramped
      BY <1>1, <3>1 DEF PanelInv, RampFits
    <3> QED  BY <1>1, <3>1, <3>2 DEF Buttons
  <2>2. CASE ~FlowPress
    BY <1>1, <2>2 DEF Next, Pass, Handler, Poll, Chord, DisplayOff, EditorRamp, EntryTimer, Hold,
         Route, SelectorPress, PressesDone, IdleCheck, OpenSelector,
         CommitSelection, EndPass, Reboot, Start, vars, ui
  <2> QED  BY <2>1, <2>2
<1>2. PanelInv /\ [Next]_vars =>
        [pc = "flow" /\ pc' = "flow" /\ editor.on /\ editor'.on /\ Head(events).button = ramped =>
           editor'.pending = editor.pending]_vars
  BY <1>1
<1> QED  BY <1>2, PanelAlways, PTL DEF Spec, RampOwnsItsRelease
=============================================================================
