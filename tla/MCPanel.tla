------------------------------- MODULE MCPanel -------------------------------
(***************************************************************************)
(* An excerpt of the generated screen table: one page of each kind, with   *)
(* the flows ui/generated/GeneratedUi.cpp declares for it.                 *)
(***************************************************************************)
EXTENDS Panel

MCScreens == {"p0", "p3", "p5", "p6", "select", "askSession", "askBack", "sessionReset",
              "sensor1", "sensor2", "s1", "s1Edit", "calibration", "askCal", "calReset",
              "askFactory"}

F(act, to) == [act |-> act, to |-> to]

Ring(down, up, enter) ==
  [p \in Presses |-> CASE p = <<"down", "short">>  -> F("next", down)
                       [] p = <<"up", "short">>    -> F("prev", up)
                       [] p = <<"enter", "short">> -> enter
                       [] OTHER                    -> Nothing]

MCFlow ==
  [s \in MCScreens |->
     CASE s = "p0"          -> Ring("p3", "p6", Nothing)
       [] s = "p3"          -> Ring("p5", "p0", F("descend", "askSession"))
       [] s = "p5"          -> Ring("p6", "p3", F("descend", "sensor1"))
       [] s = "p6"          -> Ring("p0", "p5", F("descend", "askFactory"))
       [] s = "select"      -> Ring("p0", NoScreen, F("select", NoScreen))
       [] s = "askSession"  -> Ring("askBack", "askBack", Nothing)
       [] s = "askBack"     -> Ring("askSession", "askSession", F("back", NoScreen))
       [] s = "sensor1"     -> Ring("sensor2", "sensor2", F("descend", "s1"))
       [] s = "sensor2"     -> Ring("sensor1", "sensor1", F("descend", "s1"))
       [] s = "s1"          -> Ring("calibration", "calibration", F("descend", "s1Edit"))
       [] s = "calibration" -> Ring("s1", "s1", F("descend", "askCal"))
       [] s = "s1Edit"      -> [p \in Presses |->
                                  CASE p[1] # "enter" /\ p[2] = "short" -> F("adjust", NoScreen)
                                    [] p = <<"enter", "short">>         -> F("commit", "s1")
                                    [] p = <<"enter", "long">>          -> F("back", "s1")
                                    [] OTHER                            -> Nothing]
       [] OTHER             -> [p \in Presses |-> Nothing]]

MCGuard ==
  [s \in {"askSession", "askCal", "askFactory"} |->
     CASE s = "askSession" -> [time |-> 3, act |-> "reset-session", toast |-> "sessionReset"]
       [] s = "askCal"     -> [time |-> 3, act |-> "reset-calibration", toast |-> "calReset"]
       [] OTHER            -> [time |-> 2, act |-> "factory-reset", toast |-> NoScreen]]

MCToasts   == {"sessionReset", "calReset"}
MCEditors  == {"s1Edit"}
MCSensorOf == [s \in {"sensor1", "sensor2"} |-> IF s = "sensor1" THEN 1 ELSE 2]
=============================================================================
