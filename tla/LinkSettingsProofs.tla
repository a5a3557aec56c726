------------------------- MODULE LinkSettingsProofs -------------------------
(***************************************************************************)
(* Proofs about LinkSettings: its types, that an armed rollback window     *)
(* always has something to go back to, that no stale slave ID answers, and *)
(* that the two tasks implement the trial protocol of LinkTrial.           *)
(***************************************************************************)
EXTENDS LinkSettings, TLAPS

Safe == TypeOK /\ UndoExists /\ TrialIsArmed

USE DefaultAssumption, WindowAssumption, WrapAssumption, LagAssumption, RevAssumption

\* Time is closed under counting modulo Wrap, and the revision under RevMod.
LEMMA Counting ==
    /\ \A t \in Time : (t + 1) % Wrap \in Time
    /\ \A r \in 0 .. RevMod - 1 : (r + 1) % RevMod \in 0 .. RevMod - 1
    /\ 0 \in Time /\ 0 \in 0 .. RevMod - 1
  BY DEF Time

\* Replacing one field of a settings record by a value of its kind gives settings.
LEMMA SettingsUpdate ==
    ASSUME NEW s \in Settings
    PROVE  /\ \A v \in Ids : [s EXCEPT !["id"] = v] \in Settings
           /\ \A v \in Lines : [s EXCEPT !["line"] = v] \in Settings
           /\ s.id \in Ids /\ s.line \in Lines
  BY DEF Settings

\* A device boots in a state of the right types with nothing armed.
LEMMA InitSafe == Init => Safe
<1> SUFFICES ASSUME Init PROVE Safe
  OBVIOUS
<1>1. nvs.id \in Ids /\ nvs.line \in Lines
  BY SettingsUpdate DEF Init
<1>2. Window \in 0 .. Window
  OBVIOUS
<1> QED
  BY <1>1, <1>2, Counting DEF Init, Safe, TypeOK, UndoExists, TrialIsArmed, PassPoints

\* No frame handler, pass step, power cut or tick disturbs the types or the two facts
\* about the window.
LEMMA NextSafe == Safe /\ [Next]_vars => Safe'
<1> SUFFICES ASSUME Safe, [Next]_vars PROVE Safe'
  OBVIOUS
<1> USE DEF Safe
<1>0. Default \in Settings
  BY DEF Default, Settings
<1>1. ASSUME NEW id \in Ids, ServeRead(id) PROVE Safe'
  BY <1>1 DEF ServeRead, Served, Confirms, TypeOK, UndoExists, TrialIsArmed, hw, time, pass
<1>2. ASSUME NEW id \in Ids, NEW f, NEW v, ServeStage(id, f, v),
             [staged EXCEPT ![f] = v] \in Settings
      PROVE Safe'
  BY <1>2 DEF ServeStage, Stage, Served, Confirms, TypeOK, UndoExists, TrialIsArmed,
              hw, time, pass
<1>3. ASSUME NEW id \in Ids, ServeApply(id) PROVE Safe'
  BY <1>3, Counting DEF ServeApply, Apply, Served, TypeOK, UndoExists, TrialIsArmed,
              hw, time, pass
<1>4. CASE BeginPass
  BY <1>4 DEF BeginPass, Goto, At, TypeOK, UndoExists, TrialIsArmed, mgr, hw, hist, PassPoints
<1>5. CASE SkipUi
  BY <1>5 DEF SkipUi, Goto, Quiet, At, TypeOK, UndoExists, TrialIsArmed, mgr, hw, time, PassPoints
<1>6. CASE DisplayApply
  <2>1. CASE staged = live
    BY <1>6, <2>1 DEF DisplayApply, Apply, Goto, Quiet, At, TypeOK, UndoExists,
              TrialIsArmed, hw, time, PassPoints
  <2>2. CASE staged # live
    <3>1. /\ live' = staged /\ previous' = live /\ staged' = staged
          /\ awaiting' = FALSE /\ owner' = "trusted" /\ pending' = TRUE
          /\ revision' = (revision + 1) % RevMod /\ appliedAt' = clock /\ age' = 0
          /\ pc' = "consume"
          /\ UNCHANGED <<after, nvs, uart, workers, bound, clock, now,
                         restartScheduled>>
      BY <1>6, <2>2 DEF DisplayApply, Apply, Goto, Quiet, hw, time
    <3>2. revision' \in 0 .. RevMod - 1 /\ age' \in 0 .. Window
      BY <3>1, Counting DEF TypeOK
    <3>3. TypeOK'
      BY <3>1, <3>2 DEF TypeOK, PassPoints
    <3> QED
      BY <3>1, <3>3 DEF UndoExists, TrialIsArmed
  <2> QED
    BY <2>1, <2>2
<1>7. CASE FactoryReset
  <2>a. /\ live' = Default /\ staged' = Default /\ previous' = Default /\ nvs' = Default
        /\ awaiting' = FALSE /\ appliedAt' = 0 /\ revision' = 0 /\ owner' = "trusted"
        /\ restartScheduled' = TRUE /\ pc' = "consume"
        /\ UNCHANGED <<after, pending, uart, workers, bound, clock, now, age>>
    BY <1>7 DEF FactoryReset, Begin, Goto, hw, time
  <2>b. 0 \in Time /\ 0 \in 0 .. RevMod - 1
    BY Counting
  <2>1. TypeOK'
    BY <2>a, <2>b, <1>0 DEF TypeOK, PassPoints
  <2> QED
    BY <1>7, <2>1 DEF FactoryReset, Begin, UndoExists, TrialIsArmed
<1>8. ASSUME NEW f, NEW v, DisplayStage(f, v), [live EXCEPT ![f] = v] \in Settings
      PROVE Safe'
  BY <1>8 DEF DisplayStage, Stage, Goto, Quiet, At, TypeOK, UndoExists, TrialIsArmed, hw, time,
              PassPoints
<1>9. CASE ConsumeRead
  BY <1>9 DEF ConsumeRead, Goto, Quiet, At, TypeOK, UndoExists, TrialIsArmed, mgr, hw, time,
              PassPoints
<1>10. CASE ConsumeClear
  BY <1>10 DEF ConsumeClear, Quiet, At, TypeOK, UndoExists, TrialIsArmed, mgr, hw, time,
              PassPoints
<1>11. CASE SaveId
  BY <1>11 DEF SaveId, Goto, At, TypeOK, UndoExists, TrialIsArmed, mgr, hw, time, hist,
              PassPoints, Settings
<1>12. CASE SaveLine
  BY <1>12 DEF SaveLine, Goto, At, TypeOK, UndoExists, TrialIsArmed, mgr, hw, time, hist,
              PassPoints, Settings
<1>13. CASE ClosePort
  BY <1>13 DEF ClosePort, Goto, At, TypeOK, UndoExists, TrialIsArmed, mgr, time, hist, PassPoints
<1>14. CASE BindNew
  BY <1>14, SettingsUpdate DEF BindNew, Goto, At, TypeOK, UndoExists, TrialIsArmed, mgr, time,
              hist, PassPoints
<1>15. CASE UnbindOld
  BY <1>15, SettingsUpdate DEF UnbindOld, Goto, At, TypeOK, UndoExists, TrialIsArmed, mgr, time,
              hist, PassPoints
<1>16. CASE OpenPort
  BY <1>16, SettingsUpdate DEF OpenPort, At, TypeOK, UndoExists, TrialIsArmed, mgr, time,
              hist, PassPoints
<1>17. CASE CheckRollback
  BY <1>17 DEF CheckRollback, Goto, Quiet, At, TypeOK, UndoExists, TrialIsArmed, mgr, hw, time,
              PassPoints
<1>18. CASE DoRollback
  <2>1. CASE ~awaiting \/ previous = live
    BY <1>18, <2>1 DEF DoRollback, Goto, Quiet, At, TypeOK, UndoExists, TrialIsArmed, hw, time,
              PassPoints
  <2>2. CASE ~(~awaiting \/ previous = live)
    BY <1>18, <2>2, Counting DEF DoRollback, Rollback, Quiet, At, TypeOK, UndoExists,
              TrialIsArmed, hw, time, PassPoints
  <2> QED
    BY <2>1, <2>2
<1>19. CASE EndPass
  BY <1>19 DEF EndPass, Goto, Quiet, At, TypeOK, UndoExists, TrialIsArmed, mgr, hw, time,
              PassPoints
<1>20. CASE Boot
  <2>1. nvs.id \in Ids /\ nvs.line \in Lines
    BY SettingsUpdate DEF TypeOK
  <2>2. Window \in 0 .. Window
    OBVIOUS
  <2> QED
    BY <1>20, <2>1, <2>2, Counting DEF Boot, Begin, TypeOK, UndoExists,
              TrialIsArmed, PassPoints
<1>21. CASE Tick
  BY <1>21, Counting DEF Tick, TypeOK, UndoExists, TrialIsArmed, mgr, hw, pass
<1>22. CASE UNCHANGED vars
  BY <1>22 DEF vars, mgr, hw, time, pass, hist, TypeOK, UndoExists, TrialIsArmed
<1>23. CASE Bus
  <2>1. staged \in Settings
    BY DEF TypeOK
  <2>2. ASSUME NEW id \in Ids, NEW v \in Ids, ServeStage(id, "id", v) PROVE Safe'
    BY <1>2, <2>1, <2>2, SettingsUpdate
  <2>3. ASSUME NEW id \in Ids, NEW v \in Lines, ServeStage(id, "line", v) PROVE Safe'
    BY <1>2, <2>1, <2>3, SettingsUpdate
  <2> QED
    BY <1>23, <1>1, <1>3, <2>2, <2>3 DEF Bus
<1>24. CASE PassStep
  <2>1. live \in Settings
    BY DEF TypeOK
  <2>2. ASSUME NEW v \in Ids, DisplayStage("id", v) PROVE Safe'
    BY <1>8, <2>1, <2>2, SettingsUpdate
  <2>3. ASSUME NEW v \in Lines, DisplayStage("line", v) PROVE Safe'
    BY <1>8, <2>1, <2>3, SettingsUpdate
  <2> QED
    BY <1>24, <1>4, <1>5, <1>6, <1>7, <1>9, <1>10, <1>11, <1>12, <1>13, <1>14, <1>15,
       <1>16, <1>17, <1>18, <1>19, <2>2, <2>3 DEF PassStep
<1> QED
  BY <1>20, <1>21, <1>22, <1>23, <1>24 DEF Next, PowerCut, ScheduledRestart

\* Every reachable state is well typed, and the rollback window is armed exactly over
\* bus settings nobody confirmed, with the settings to go back to still held.
THEOREM WindowGuardsTrial == Spec => [](TypeOK /\ UndoExists /\ TrialIsArmed)
<1>1. Spec => []Safe
  BY InitSafe, NextSafe, PTL DEF Spec
<1> QED
  BY <1>1, PTL DEF Safe

\* Every field, flag, counter and flash key of the link settings keeps to its kind, across
\* the wrap of the clock and of the revision.
THEOREM TypesAlwaysHold == Spec => []TypeOK
<1> QED
  BY WindowGuardsTrial, PTL

\* An armed window never guards settings that rollback() would replace by themselves.
THEOREM UndoAlwaysExists == Spec => []UndoExists
<1> QED
  BY WindowGuardsTrial, PTL

-----------------------------------------------------------------------------
(* The workers *)

\* Where a rebind stands: it is only made while the port is closed, so that no frame moves
\* the live ID under it, and only its two halves register two IDs.
RebindFits ==
    /\ pc \in {"bind", "unbind", "open"} => uart = Closed
    /\ pc \in {"bind", "unbind"} => live.id # bound
    /\ workers = IF pc = "unbind" THEN {bound, live.id} ELSE {bound}

\* A device boots with its own ID registered and no other.
LEMMA InitRebind == Init => RebindFits
  BY DEF Init, RebindFits

\* A frame moves neither the workers nor, during a rebind, the live ID, because the port it
\* would come through is closed; the pass moves them in the order of restartRs485().
LEMMA NextRebind == Safe /\ RebindFits /\ [Next]_vars => RebindFits'
<1> SUFFICES ASSUME Safe, RebindFits, [Next]_vars PROVE RebindFits'
  OBVIOUS
<1> USE DEF RebindFits, Closed
<1>1. CASE Bus
  <2>1. /\ uart \in Lines
        /\ UNCHANGED <<pc, uart, workers, bound>>
    BY <1>1 DEF Bus, ServeRead, ServeStage, ServeApply, Served, hw, pass
  <2>2. pc \notin {"bind", "unbind", "open"}
    BY <2>1, LineAssumption
  <2> QED
    BY <2>1, <2>2
<1>2. CASE PassStep
  <2>1. CASE \/ BeginPass \/ SkipUi \/ ConsumeRead \/ ConsumeClear \/ SaveId \/ SaveLine
             \/ CheckRollback \/ EndPass
    BY <2>1 DEF BeginPass, SkipUi, ConsumeRead, ConsumeClear, SaveId, SaveLine, CheckRollback,
                EndPass, At, Goto, Quiet, hw
  <2>2. CASE DisplayApply \/ FactoryReset
    BY <2>2 DEF DisplayApply, FactoryReset, At, Goto, Quiet, hw
  <2>3. ASSUME NEW f, NEW v, DisplayStage(f, v) PROVE RebindFits'
    BY <2>3 DEF DisplayStage, At, Goto, Quiet, hw
  <2>4. CASE ClosePort
    BY <2>4 DEF ClosePort, At, Goto, mgr
  <2>5. CASE BindNew
    BY <2>5 DEF BindNew, At, Goto, mgr
  <2>6. CASE UnbindOld
    BY <2>6 DEF UnbindOld, At, Goto, mgr
  <2>7. CASE OpenPort
    <3>1. after \in {"check", "end"}
      BY DEF Safe, TypeOK
    <3> QED
      BY <2>7, <3>1 DEF OpenPort, At
  <2>8. CASE DoRollback
    BY <2>8 DEF DoRollback, At, Goto, Quiet, hw
  <2> QED
    BY <1>2, <2>1, <2>2, <2>3, <2>4, <2>5, <2>6, <2>7, <2>8 DEF PassStep
<1>3. CASE Boot
  BY <1>3 DEF Boot
<1>4. CASE Tick \/ UNCHANGED vars
  BY <1>4 DEF Tick, vars, mgr, hw, pass
<1> QED
  BY <1>1, <1>2, <1>3, <1>4 DEF Next, PowerCut, ScheduledRestart

\* Whatever frames, commits, resets, rollbacks and power cuts come between, eModbus always
\* answers on the ID the pass registered last, and outside the two halves of a rebind on no
\* other.
THEOREM BoundAlwaysServed == Spec => []BoundIsServed
<1>1. RebindFits => BoundIsServed
  BY DEF RebindFits, BoundIsServed, At
<1> QED
  BY InitSafe, NextSafe, InitRebind, NextRebind, <1>1, PTL DEF Spec

-----------------------------------------------------------------------------
(* The refinement *)

\* One step of the two tasks is at most one step of the trial protocol.
LEMMA StepRefines == Safe /\ [Next]_vars => [Trial!Next]_Trial!vars
<1> SUFFICES ASSUME Safe, [Next]_vars PROVE [Trial!Next]_Trial!vars
  OBVIOUS
<1> USE DEF Safe, UndoExists, TrialIsArmed
<1>0. live \in Settings /\ staged \in Settings /\ nvs \in Settings /\ Default \in Settings
  BY DEF TypeOK, Default, Settings
<1>a. Settings = Trial!Choices
  BY DEF Settings, Trial!Choices
<1>b. owner \in {"bus", "trusted"}
  BY DEF TypeOK
<1>1. ASSUME NEW id \in Ids, ServeRead(id) PROVE Trial!Accept
  BY <1>1 DEF ServeRead, Trial!Accept
<1>2. ASSUME NEW id \in Ids, NEW f, NEW v, ServeStage(id, f, v)
      PROVE  [Trial!Next]_Trial!vars
  <2>1. CASE awaiting /\ Confirms(id)
    BY <1>2, <2>1 DEF ServeStage, Trial!Accept, Trial!Next
  <2>2. CASE ~(awaiting /\ Confirms(id))
    BY <1>2, <1>b, <2>2 DEF ServeStage, Trial!vars
  <2> QED
    BY <2>1, <2>2
<1>3. ASSUME NEW id \in Ids, ServeApply(id) PROVE Trial!Try(staged)
  BY <1>3 DEF ServeApply, Apply, Trial!Try, Trial!Counted
<1>4. CASE DisplayApply
  <2>1. CASE staged = live
    BY <1>4, <2>1 DEF DisplayApply, Apply, Trial!vars
  <2>2. CASE staged # live
    <3>1. Trial!Local(staged)
      BY <1>4, <2>2 DEF DisplayApply, Apply, Trial!Local, Trial!Counted
    <3> QED
      BY <3>1, <1>0, <1>a DEF Trial!Next
  <2> QED
    BY <2>1, <2>2
<1>5. CASE FactoryReset
  <2>1. Trial!Reload(Default)
    BY <1>5 DEF FactoryReset, Begin, Trial!Reload
  <2> QED
    BY <2>1, <1>0, <1>a DEF Trial!Next
<1>6. CASE DoRollback
  <2>1. CASE ~awaiting
    BY <1>6, <2>1 DEF DoRollback, Trial!vars
  <2>2. CASE awaiting
    <3>1. Trial!Revert
      BY <1>6, <2>2 DEF DoRollback, Rollback, Trial!Revert, Trial!Counted
    <3> QED
      BY <3>1 DEF Trial!Next
  <2> QED
    BY <2>1, <2>2
<1>7. CASE Boot
  <2>1. Trial!Reload(nvs)
    BY <1>7 DEF Boot, Begin, Trial!Reload
  <2> QED
    BY <2>1, <1>0, <1>a DEF Trial!Next
<1>8. CASE Bus
  BY <1>8, <1>1, <1>2, <1>3, <1>0, <1>a DEF Bus, Trial!Next
<1>9. ASSUME UNCHANGED <<live, previous, owner, revision>> PROVE [Trial!Next]_Trial!vars
  BY <1>9 DEF Trial!vars
<1>10. ASSUME NEW f, NEW v, DisplayStage(f, v) PROVE [Trial!Next]_Trial!vars
  BY <1>10, <1>9 DEF DisplayStage
<1>11. CASE PassStep
  BY <1>11, <1>4, <1>5, <1>6, <1>9, <1>10
     DEF PassStep, BeginPass, SkipUi, ConsumeRead, ConsumeClear, SaveId, SaveLine,
         ClosePort, BindNew, UnbindOld, OpenPort, CheckRollback, EndPass, mgr, hist
<1>12. CASE Tick
  BY <1>12, <1>9 DEF Tick, mgr
<1>13. CASE UNCHANGED vars
  BY <1>13, <1>9 DEF vars, mgr, hist
<1> QED
  BY <1>7, <1>8, <1>11, <1>12, <1>13 DEF Next, PowerCut, ScheduledRestart

\* Whatever the interleaving of frames, pass steps, power cuts and ticks, the live
\* settings follow the trial protocol: they change only by a trial, a local commit, a
\* return to what the open trial replaced, or a reload.
THEOREM SettingsFollowTrial == Spec => ImplementsTrial
<1>1. Init => Trial!Init
  BY DEF Init, Trial!Init, Settings, Trial!Choices
<1>2. Spec => []Safe
  BY InitSafe, NextSafe, PTL DEF Spec
<1> QED
  BY <1>1, <1>2, StepRefines, PTL DEF Spec, ImplementsTrial, Trial!Spec
=============================================================================
