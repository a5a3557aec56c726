---------------------------- MODULE MeteringProofs ----------------------------
(***************************************************************************)
(* The calibration registers for every number of channels, every range of  *)
(* figures and every bound: the override that fits its calibration, and    *)
(* the calibration that is not demolished field by field.                  *)
(***************************************************************************)
EXTENDS Metering, TLAPS

\* What the two results need of the types: the calibrations, live and stored, the overrides,
\* and the panel's command, which is there exactly while the panel is at one.
CalibrationTypes ==
    /\ inService \subseteq Channels /\ exempt \subseteq Channels /\ torn \subseteq Channels
    /\ config \in [Channels -> Calibrations]
    /\ parked \in [Channels -> Calibrations \cup {None}]
    /\ judged \in [Channels -> Rates] /\ rate \in Rates
    /\ DOMAIN nvs = {"total", "config", "channels"}
    /\ nvs.config \in [Channels -> Calibrations] /\ nvs.channels \subseteq Channels
    /\ ch \in Channels
    /\ IF pc \in Desk THEN edit \in [ch : Channels, to : Calibrations] ELSE edit = None

\* What the panel has found out about its candidate, unless a frame came in between: the
\* override is the candidate's by the time it is stored, and it demolishes nothing.
EditFits ==
    edit # None /\ edit.ch \notin torn =>
        /\ pc = "judge" => Fits(edit.ch, config[edit.ch])
        /\ pc = "refuse?" => ~Valid(edit.to) /\ Fits(edit.ch, edit.to)
        /\ pc = "put" => Fits(edit.ch, edit.to) /\ (Valid(config[edit.ch]) => Valid(edit.to))

Fitting == CalibrationTypes /\ ExemptionFits /\ EditFits

-----------------------------------------------------------------------------
(* What the operators do *)

\* Nothing is set in a blank calibration, and "none" is neither a calibration nor a command.
LEMMA BlankFacts ==
    /\ Blank \in Calibrations /\ ~Valid(Blank) /\ None \notin Calibrations
    /\ None \notin [ch : Channels, to : Calibrations]
BY MeteringAssumption DEF Blank, Calibrations, Channels, Valid

\* Wiping a function on some channels keeps its range, and what it was elsewhere.
LEMMA WipedFacts ==
    ASSUME NEW R, NEW f \in [Channels -> R], NEW S, NEW v \in R
    PROVE  /\ Wiped(f, S, v) \in [Channels -> R]
           /\ \A c \in Channels : Wiped(f, S, v)[c] = IF c \in S THEN v ELSE f[c]
BY DEF Wiped

\* Zeros saved for some channels leave the stored calibrations and bitmap alone.
LEMMA SaveZerosKeeps ==
    ASSUME CalibrationTypes, NEW S, SaveZeros(S)
    PROVE  /\ DOMAIN nvs' = {"total", "config", "channels"}
           /\ nvs'.config = nvs.config /\ nvs'.channels = nvs.channels
BY DEF CalibrationTypes, SaveZeros

\* A step that leaves a channel's figures and override as they were, or takes its override
\* away, leaves the overrides of all channels fitting that it does not settle.
LEMMA Carried ==
    ASSUME ExemptionFits, Unsettled \subseteq Unsettled',
           \A c \in Channels \ Unsettled' :
              \/ c \notin exempt' /\ parked'[c] = None
              \/ /\ c \in exempt' => c \in exempt
                 /\ config'[c] = config[c] /\ parked'[c] = parked[c] /\ judged'[c] = judged[c]
    PROVE  ExemptionFits'
<1> SUFFICES ASSUME NEW c \in Channels \ Unsettled' PROVE Fits(c, config[c])'
  BY DEF ExemptionFits
<1>1. Fits(c, config[c])
  BY DEF ExemptionFits
<1> QED  BY <1>1 DEF Fits, Valid, SamplableAt

\* Clearing the overrides of some channels leaves those of the others as they were.
LEMMA OverridesCleared ==
    ASSUME CalibrationTypes, NEW S \in SUBSET Channels, ClearOverrides(S)
    PROVE  /\ parked' \in [Channels -> Calibrations \cup {None}]
           /\ judged' \in [Channels -> Rates] /\ exempt' \subseteq Channels
           /\ \A c \in Channels :
                 IF c \in S THEN c \notin exempt' /\ parked'[c] = None
                 ELSE /\ c \in exempt' <=> c \in exempt
                      /\ parked'[c] = parked[c] /\ judged'[c] = judged[c]
<1>1. parked' \in [Channels -> Calibrations \cup {None}] /\ judged' \in [Channels -> Rates]
  BY WipedFacts, MeteringAssumption DEF CalibrationTypes, ClearOverrides
<1>2. \A c \in Channels : /\ parked'[c] = IF c \in S THEN None ELSE parked[c]
                          /\ judged'[c] = IF c \in S THEN 0 ELSE judged[c]
  BY DEF ClearOverrides, Wiped
<1>3. exempt' = exempt \ S
  BY DEF ClearOverrides
<1> QED  BY <1>1, <1>2, <1>3 DEF CalibrationTypes

\* So does clearing their calibrations.
LEMMA ConfigsCleared ==
    ASSUME CalibrationTypes, NEW S \in SUBSET Channels, config' = Wiped(config, S, Blank)
    PROVE  /\ config' \in [Channels -> Calibrations]
           /\ \A c \in Channels : config'[c] = IF c \in S THEN Blank ELSE config[c]
BY WipedFacts, BlankFacts DEF CalibrationTypes

\* prepareConfigUpdate(): where the override fitted the calibration in force, it fits the
\* candidate when that is taken, and anything when it is not.
LEMMA Judged ==
    ASSUME CalibrationTypes, NEW c \in Channels, NEW k \in Calibrations, Judge(c, k)
    PROVE  /\ parked' \in [Channels -> Calibrations \cup {None}]
           /\ judged' \in [Channels -> Rates] /\ exempt' \subseteq Channels
           /\ \A d \in Channels \ {c} : /\ d \in exempt' <=> d \in exempt
                                        /\ parked'[d] = parked[d] /\ judged'[d] = judged[d]
           /\ Fits(c, config[c]) =>
                 /\ Fits(c, k)'
                 /\ ~Valid(k) \/ ~Accepted(c, k) => c \notin exempt'
<1> DEFINE fast == Valid(k) /\ ~Samplable(k)
<1>1. parked' = [parked EXCEPT ![c] = IF fast /\ ~Accepted(c, k) THEN k
                                      ELSE IF c \in exempt /\ fast THEN @ ELSE None]
  BY DEF Judge
<1>2. exempt' = IF fast /\ Accepted(c, k) THEN exempt \cup {c} ELSE exempt \ {c}
  BY DEF Judge
<1>3. judged' = [judged EXCEPT ![c] = IF fast THEN rate ELSE 0]
  BY DEF Judge
<1>4. /\ parked' \in [Channels -> Calibrations \cup {None}] /\ exempt' \subseteq Channels
      /\ judged' \in [Channels -> Rates]
  BY <1>1, <1>2, <1>3, MeteringAssumption DEF CalibrationTypes
<1>5. \A d \in Channels \ {c} : /\ d \in exempt' <=> d \in exempt
                                /\ parked'[d] = parked[d] /\ judged'[d] = judged[d]
  BY <1>1, <1>2, <1>3 DEF CalibrationTypes
<1>6. /\ parked'[c] = IF fast /\ ~Accepted(c, k) THEN k
                      ELSE IF c \in exempt /\ fast THEN parked[c] ELSE None
      /\ c \in exempt' <=> fast /\ Accepted(c, k)
      /\ judged'[c] = IF fast THEN rate ELSE 0
  BY <1>1, <1>2, <1>3 DEF CalibrationTypes
<1>7. Valid(k) /\ ~Accepted(c, k) => fast
  BY DEF Accepted
<1>8. ASSUME Fits(c, config[c]) PROVE Fits(c, k)' /\ (~Valid(k) \/ ~Accepted(c, k) => c \notin exempt')
  <2>1. c \in exempt => parked[c] = None
    BY <1>8 DEF Fits
  <2>2. c \in exempt' => Valid(k) /\ ~SamplableAt(k, judged'[c]) /\ parked'[c] = None
    BY <1>6, <2>1 DEF Samplable
  <2>3. parked'[c] # None => Valid(parked'[c]) /\ ~SamplableAt(parked'[c], judged'[c])
    BY <1>6, <2>1 DEF Samplable
  <2>4. Fits(c, k)'
    BY <2>2, <2>3 DEF Fits, Valid, SamplableAt
  <2> QED  BY <1>6, <2>4
<1> QED  BY <1>4, <1>5, <1>8

\* A candidate is a calibration, and an accepted one is complete if what it replaces is.
LEMMA CandidateFacts ==
    ASSUME CalibrationTypes, NEW c \in Channels, NEW f \in Fields,
           NEW v \in Figures(f)
    PROVE  /\ With(c, f, v) \in Calibrations
           /\ \A k : Accepted(c, k) /\ Valid(config[c]) => Valid(k)
BY DEF CalibrationTypes, Calibrations, Fields, Figures, With, Accepted

-----------------------------------------------------------------------------
(* Steps *)

\* A device boots from a blank or a saved flash with no override in force.
LEMMA InitFits == Init => Fitting
BY MeteringAssumption, BlankFacts
   DEF Init, Fitting, CalibrationTypes, ExemptionFits, EditFits, Fits, Channels, Desk

\* What a frame does to calibrations: it keeps everything fitting, and takes the validity
\* of a calibration only by blanking it.
LEMMA FramesFit ==
    ASSUME Fitting, Frames
    PROVE  /\ Fitting'
           /\ \A c \in Channels : Valid(config[c]) /\ ~Valid(config'[c]) => config'[c] = Blank
<1> DEFINE Kept == DOMAIN nvs' = {"total", "config", "channels"}
                   /\ nvs'.config = nvs.config /\ nvs'.channels = nvs.channels
           Moved == /\ config' \in [Channels -> Calibrations]
                    /\ parked' \in [Channels -> Calibrations \cup {None}]
                    /\ judged' \in [Channels -> Rates] /\ exempt' \subseteq Channels
           Blanks == \A c \in Channels :
                        Valid(config[c]) /\ ~Valid(config'[c]) => config'[c] = Blank
           Served == inService' \subseteq Channels
<1>0. inService \subseteq Channels /\ CalibrationTypes
  BY DEF Fitting, CalibrationTypes
<1>1. /\ UNCHANGED <<edit, pc, ch, rate>>
      /\ torn' = IF edit = None THEN torn ELSE torn \cup {edit.ch}
  BY DEF Frames, Frame, WriteBitmap, ResetAllSensors, ResetAllMeasured, ResetAllSession,
         ResetSession, ResetAll, ResetAllIgnored, ResetConfig, ResetCalibration, WriteFigure,
         task, core0
<1>2. EditFits' /\ Unsettled \subseteq Unsettled' /\ torn' \subseteq Channels
  BY <1>0, <1>1 DEF EditFits, Unsettled, CalibrationTypes
<1>3. ASSUME NEW S \in SUBSET Channels, ClearConfigs(S)
      PROVE  Moved /\ ExemptionFits' /\ Blanks
  <2>1. Moved
    BY <1>0, <1>3, ConfigsCleared, OverridesCleared DEF ClearConfigs
  <2>2. ExemptionFits'
    BY <1>0, <1>2, <1>3, ConfigsCleared, OverridesCleared, Carried DEF ClearConfigs, Fitting
  <2>3. Blanks
    BY <1>0, <1>3, ConfigsCleared DEF ClearConfigs, Valid
  <2> QED  BY <2>1, <2>2, <2>3
<1>4. ASSUME NEW S \in SUBSET Channels, ClearOverrides(S), config' = config
      PROVE  Moved /\ ExemptionFits' /\ Blanks
  <2>1. Moved
    BY <1>0, <1>4, OverridesCleared DEF CalibrationTypes
  <2>2. ExemptionFits'
    BY <1>0, <1>2, <1>4, OverridesCleared, Carried DEF Fitting
  <2> QED  BY <1>4, <2>1, <2>2 DEF Valid
<1>5. ASSUME UNCHANGED <<config, overrides>> PROVE Moved /\ ExemptionFits' /\ Blanks
  <2>1. ExemptionFits'
    BY <1>2, <1>5, Carried DEF Fitting, overrides
  <2> QED  BY <1>0, <1>5, <2>1 DEF CalibrationTypes, overrides, Valid
<1>6. ASSUME NEW c \in Channels, NEW f \in Fields, NEW v \in Figures(f),
             WriteFigure(c, f, v)
      PROVE  Moved /\ ExemptionFits' /\ Blanks
  <2>0. PICK k \in Calibrations : k = With(c, f, v)
    BY <1>0, CandidateFacts
  <2>1. Accepted(c, k) /\ Valid(config[c]) => Valid(k)
    BY <1>0, CandidateFacts
  <2>2. Judge(c, k) /\ config' = IF Accepted(c, k) THEN [config EXCEPT ![c] = k] ELSE config
    BY <1>6, <2>0 DEF WriteFigure
  <2>3. Moved
    BY <1>0, <2>1, <2>2, Judged DEF CalibrationTypes
  <2>4. \A d \in Channels : config'[d] = IF d = c /\ Accepted(c, k) THEN k ELSE config[d]
    BY <1>0, <2>2 DEF CalibrationTypes
  <2>5. ASSUME NEW d \in Channels \ Unsettled' PROVE Fits(d, config[d])'
    <3>1. Fits(d, config[d])
      BY <1>2 DEF Fitting, ExemptionFits
    <3>2. CASE d # c
      <4>1. /\ d \in exempt' <=> d \in exempt
            /\ parked'[d] = parked[d] /\ judged'[d] = judged[d] /\ config'[d] = config[d]
        BY <1>0, <2>1, <2>2, <2>4, <3>2, Judged
      <4> QED  BY <3>1, <4>1 DEF Fits, Valid, SamplableAt
    <3>3. CASE d = c
      <4>1. /\ Fits(c, k)'
            /\ ~Accepted(c, k) => c \notin exempt'
        BY <1>0, <2>1, <2>2, <3>1, <3>3, Judged
      <4>2. config'[c] = IF Accepted(c, k) THEN k ELSE config[c]
        BY <2>4
      <4> QED  BY <3>3, <4>1, <4>2 DEF Fits, Valid, SamplableAt
    <3> QED  BY <3>2, <3>3
  <2>6. ExemptionFits'
    BY <2>5 DEF ExemptionFits
  <2>7. Blanks
    BY <2>1, <2>4 DEF Valid
  <2> QED  BY <2>3, <2>6, <2>7
<1>7. Moved /\ ExemptionFits' /\ Blanks /\ Served /\ Kept
  <2>1. ASSUME NEW S \in SUBSET Channels, WriteBitmap(S)
        PROVE  Moved /\ ExemptionFits' /\ Blanks /\ Served /\ Kept
    <3> DEFINE moved == (S \ inService) \cup (inService \ S)
    <3>1. moved \in SUBSET Channels /\ SaveZeros(moved) /\ ClearConfigs(moved) /\ inService' = S
      BY <1>0, <2>1 DEF WriteBitmap, ClearSensors, ClearMeasured
    <3> QED  BY <1>0, <1>3, <3>1, SaveZerosKeeps
  <2>2. CASE ResetAllSensors
    <3>1. SaveZeros(inService) /\ ClearConfigs(inService) /\ inService' = inService
      BY <2>2 DEF ResetAllSensors, ClearSensors, ClearMeasured
    <3> QED  BY <1>0, <1>3, <3>1, SaveZerosKeeps
  <2>3. CASE ResetAllMeasured
    <3>1. /\ SaveZeros(inService) /\ ClearOverrides(inService)
          /\ config' = config /\ inService' = inService
      BY <2>3 DEF ResetAllMeasured, ClearMeasured
    <3> QED  BY <1>0, <1>4, <3>1, SaveZerosKeeps
  <2>4. CASE ResetAllSession
    <3>1. ClearOverrides(inService) /\ config' = config /\ nvs' = nvs /\ inService' = inService
      BY <2>4 DEF ResetAllSession
    <3> QED  BY <1>0, <1>4, <3>1 DEF CalibrationTypes
  <2>5. ASSUME NEW c \in Channels, ResetSession(c) \/ ResetAll(c) \/ ResetAllIgnored(c)
        PROVE  Moved /\ ExemptionFits' /\ Blanks /\ Served /\ Kept
    <3>1. UNCHANGED <<inService, config, overrides>>
      BY <2>5 DEF ResetSession, ResetAll, ResetAllIgnored
    <3>2. Kept
      BY <1>0, <2>5, SaveZerosKeeps DEF ResetSession, ResetAll, ResetAllIgnored, ClearMeasured,
                                        CalibrationTypes
    <3> QED  BY <1>0, <1>5, <3>1, <3>2
  <2>6. ASSUME NEW c \in Channels, ResetConfig(c) \/ ResetCalibration(c)
        PROVE  Moved /\ ExemptionFits' /\ Blanks /\ Served /\ Kept
    <3>1. /\ ClearConfigs({c}) /\ (SaveZeros({c}) \/ nvs' = nvs) /\ inService' = inService
      BY <2>6 DEF ResetConfig, ResetCalibration, ClearSensors, ClearMeasured
    <3>2. Kept
      BY <1>0, <3>1, SaveZerosKeeps DEF CalibrationTypes
    <3> QED  BY <1>0, <1>3, <3>1, <3>2
  <2>7. ASSUME NEW c \in Channels, NEW f \in Fields, NEW v \in Figures(f),
               WriteFigure(c, f, v)
        PROVE  Moved /\ ExemptionFits' /\ Blanks /\ Served /\ Kept
    <3>1. UNCHANGED <<inService, nvs>>
      BY <2>7 DEF WriteFigure
    <3> QED  BY <1>0, <1>6, <2>7, <3>1 DEF CalibrationTypes
  <2> QED  BY <2>1, <2>2, <2>3, <2>4, <2>5, <2>6, <2>7 DEF Frames
<1>8. CalibrationTypes'
  BY <1>0, <1>1, <1>2, <1>7 DEF CalibrationTypes
<1> QED  BY <1>2, <1>7, <1>8 DEF Fitting

\* What the panel does: nothing is demolished by a store that no frame overtook.
LEMMA PanelFits ==
    ASSUME Fitting, PanelStep
    PROVE  /\ Fitting'
           /\ \A c \in Channels :
                 Valid(config[c]) /\ ~Valid(config'[c])
                     => config'[c] = Blank \/ (pc = "put" /\ edit.ch = c /\ c \in torn)
<1> DEFINE Harm == \A c \in Channels :
                 Valid(config[c]) /\ ~Valid(config'[c])
                     => config'[c] = Blank \/ (pc = "put" /\ edit.ch = c /\ c \in torn)
           Same == UNCHANGED <<inService, nvs, torn, rate, ch>>
<1>0. CalibrationTypes /\ ExemptionFits /\ EditFits
  BY DEF Fitting
<1>1. Same
  BY DEF PanelStep, PanelOnly, PanelDone, NoCommand, PanelJudge, PanelRefuse, PanelPut,
         PanelForget, PanelBlank, PanelEdit, Goto, core0, panel, stored
<1>2. ASSUME NEW c \in Channels, NEW f \in Fields, NEW v \in Figures(f),
             PanelEdit(c, f, v)
      PROVE  Fitting' /\ Harm
  <2>1. /\ edit = None /\ edit' = [ch |-> c, to |-> With(c, f, v)]
        /\ pc' = "judge" /\ UNCHANGED <<config, parked, exempt, judged>>
    BY <1>0, <1>2 DEF PanelEdit, Goto, CalibrationTypes, Desk, overrides
  <2>2. CalibrationTypes'
    BY <1>0, <1>1, <2>1, CandidateFacts DEF CalibrationTypes, Desk
  <2>3. Unsettled \subseteq Unsettled'
    BY <1>1, <2>1 DEF Unsettled
  <2>4. ExemptionFits'
    BY <1>0, <2>1, <2>3, Carried
  <2>5. EditFits'
    <3>1. c \notin torn => Fits(c, config[c])
      BY <1>0, <2>1 DEF ExemptionFits, Unsettled
    <3>2. c \notin torn => Fits(c, config[c])'
      BY <2>1, <3>1 DEF Fits, Valid, SamplableAt
    <3> QED  BY <1>1, <2>1, <3>2 DEF EditFits
  <2> QED  BY <2>1, <2>2, <2>4, <2>5 DEF Fitting, Valid
<1>3. ASSUME NEW c \in Channels, PanelBlank(c) PROVE Fitting' /\ Harm
  <2>1. /\ edit = None /\ edit' = [ch |-> c, to |-> Blank] /\ pc' = "forget"
        /\ config' = [config EXCEPT ![c] = Blank] /\ UNCHANGED <<parked, exempt, judged>>
    BY <1>0, <1>3 DEF PanelBlank, Goto, CalibrationTypes, Desk, overrides
  <2>2. CalibrationTypes'
    BY <1>0, <1>1, <2>1, BlankFacts DEF CalibrationTypes, Desk
  <2>3. edit' # None
    BY <2>1, BlankFacts
  <2>4. Unsettled \subseteq Unsettled' /\ c \in Unsettled'
    BY <1>1, <2>1, <2>3 DEF Unsettled
  <2>5. \A d \in Channels : d # c => config'[d] = config[d]
    BY <1>0, <2>1 DEF CalibrationTypes
  <2>6. ExemptionFits'
    BY <1>0, <2>1, <2>4, <2>5, Carried
  <2>7. EditFits'
    BY <2>1 DEF EditFits
  <2>8. Harm
    BY <1>0, <2>1, <2>5 DEF CalibrationTypes, Valid
  <2> QED  BY <2>2, <2>6, <2>7, <2>8 DEF Fitting
<1>4. CASE NoCommand
  <2>1. /\ edit = None /\ edit' = None /\ pc' = "look" /\ UNCHANGED <<config, parked, exempt, judged>>
    BY <1>0, <1>4 DEF NoCommand, Goto, CalibrationTypes, Desk, overrides, panel
  <2>2. CalibrationTypes'
    BY <1>0, <1>1, <2>1 DEF CalibrationTypes, Desk
  <2>3. ExemptionFits' /\ EditFits'
    BY <1>0, <1>1, <2>1 DEF ExemptionFits, EditFits, Unsettled, Fits, Valid, SamplableAt
  <2> QED  BY <2>1, <2>2, <2>3 DEF Fitting, Valid
<1>5. ASSUME pc \in Desk PROVE edit.ch \in Channels /\ edit.to \in Calibrations /\ edit # None
  BY <1>0, <1>5, BlankFacts DEF CalibrationTypes
<1>6. CASE PanelJudge
  <2>1. /\ pc = "judge" /\ Judge(edit.ch, edit.to) /\ config' = config
        /\ \/ ~Valid(edit.to) /\ pc' = "refuse?" /\ edit' = edit
           \/ Valid(edit.to) /\ Accepted(edit.ch, edit.to) /\ pc' = "put" /\ edit' = edit
           \/ ~Accepted(edit.ch, edit.to) /\ pc' = "look" /\ edit' = None
    BY <1>6 DEF PanelJudge, PanelDone, Goto, panel
  <2>2. edit.ch \in Channels /\ edit.to \in Calibrations /\ edit # None
    BY <1>5, <2>1 DEF Desk
  <2>3. PICK c \in Channels, k \in Calibrations : c = edit.ch /\ k = edit.to
    BY <2>2
  <2>4. /\ parked' \in [Channels -> Calibrations \cup {None}]
        /\ judged' \in [Channels -> Rates] /\ exempt' \subseteq Channels
        /\ \A d \in Channels \ {c} : /\ d \in exempt' <=> d \in exempt
                                     /\ parked'[d] = parked[d] /\ judged'[d] = judged[d]
        /\ Fits(c, config[c]) =>
              /\ Fits(c, k)'
              /\ ~Valid(k) \/ ~Accepted(c, k) => c \notin exempt'
    BY <1>0, <2>1, <2>3, Judged
  <2>5. CalibrationTypes'
    BY <1>0, <1>1, <2>1, <2>2, <2>4 DEF CalibrationTypes, Desk
  <2>6. ASSUME c \notin torn PROVE /\ Fits(c, k)'
                                   /\ ~Valid(k) \/ ~Accepted(c, k) => Fits(c, config[c])'
    <3>1. Fits(c, config[c])
      BY <1>0, <2>1, <2>2, <2>3, <2>6 DEF EditFits
    <3> QED  BY <2>4, <3>1 DEF Fits, Valid, SamplableAt
  <2>7. ASSUME NEW d \in Channels, d \notin Unsettled' PROVE Fits(d, config[d])'
    <3>1. CASE d # c
      <4>1. Fits(d, config[d])
        BY <1>0, <1>1, <2>3, <2>7, <3>1 DEF ExemptionFits, Unsettled
      <4> QED  BY <2>1, <2>4, <3>1, <4>1 DEF Fits, Valid, SamplableAt
    <3>2. CASE d = c
      <4>1. c \notin torn /\ ~Accepted(c, k)
        BY <1>1, <2>1, <2>2, <2>3, <2>7, <3>2 DEF Unsettled
      <4> QED  BY <2>6, <3>2, <4>1
    <3> QED  BY <3>1, <3>2
  <2>8. ExemptionFits'
    BY <2>7 DEF ExemptionFits
  <2>9. EditFits'
    <3> SUFFICES ASSUME edit' # None, edit'.ch \notin torn'
                 PROVE  /\ pc' # "judge"
                        /\ pc' = "refuse?" => ~Valid(edit'.to) /\ Fits(edit.ch, edit.to)'
                        /\ pc' = "put" => /\ Fits(edit.ch, edit.to)'
                                          /\ Valid(config'[edit'.ch]) => Valid(edit'.to)
      BY DEF EditFits, Valid
    <3>1. edit' = edit /\ c \notin torn
      BY <1>1, <2>1, <2>3
    <3>2. Fits(edit.ch, edit.to)'
      BY <2>3, <2>6, <3>1 DEF Fits, Valid, SamplableAt
    <3> QED  BY <2>1, <3>1, <3>2 DEF Valid
  <2> QED  BY <2>1, <2>5, <2>8, <2>9 DEF Fitting, Valid
<1>7. CASE PanelRefuse
  <2>1. /\ pc = "refuse?" /\ UNCHANGED <<config, parked, exempt, judged>>
        /\ \/ pc' = "look" /\ edit' = None
           \/ ~Valid(config[edit.ch]) /\ pc' = "put" /\ edit' = edit
    BY <1>7 DEF PanelRefuse, PanelDone, Goto, panel, overrides
  <2>2. edit.ch \in Channels /\ edit.to \in Calibrations /\ edit # None
    BY <1>5, <2>1 DEF Desk
  <2>3. CalibrationTypes'
    BY <1>0, <1>1, <2>1, <2>2 DEF CalibrationTypes, Desk
  <2>4. edit.ch \notin torn => ~Valid(edit.to) /\ Fits(edit.ch, edit.to)
    BY <1>0, <2>1, <2>2 DEF EditFits
  <2>5. edit.ch \notin torn => Fits(edit.ch, config[edit.ch])
    BY <2>4 DEF Fits
  <2>6. ExemptionFits'
    <3> SUFFICES ASSUME NEW d \in Channels, d \notin Unsettled' PROVE Fits(d, config[d])'
      BY DEF ExemptionFits
    <3>1. Fits(d, config[d])
      BY <1>0, <1>1, <2>5, <2>1 DEF ExemptionFits, Unsettled
    <3> QED  BY <2>1, <3>1 DEF Fits, Valid, SamplableAt
  <2>7. EditFits'
    BY <1>1, <2>1, <2>4 DEF EditFits, Fits, Valid, SamplableAt
  <2> QED  BY <2>1, <2>3, <2>6, <2>7 DEF Fitting, Valid
<1>8. CASE PanelPut
  <2>1. /\ pc = "put" /\ config' = [config EXCEPT ![edit.ch] = edit.to]
        /\ UNCHANGED <<parked, exempt, judged>> /\ pc' = "look" /\ edit' = None
    BY <1>8 DEF PanelPut, PanelDone, Goto, overrides
  <2>2. edit.ch \in Channels /\ edit.to \in Calibrations /\ edit # None
    BY <1>5, <2>1 DEF Desk
  <2>3. CalibrationTypes'
    BY <1>0, <1>1, <2>1, <2>2 DEF CalibrationTypes, Desk
  <2>4. \A d \in Channels : config'[d] = IF d = edit.ch THEN edit.to ELSE config[d]
    BY <1>0, <2>1 DEF CalibrationTypes
  <2>5. edit.ch \notin torn => /\ Fits(edit.ch, edit.to)
                               /\ Valid(config[edit.ch]) => Valid(edit.to)
    BY <1>0, <2>1, <2>2 DEF EditFits
  <2>6. ExemptionFits'
    <3> SUFFICES ASSUME NEW d \in Channels, d \notin Unsettled' PROVE Fits(d, config[d])'
      BY DEF ExemptionFits
    <3>1. CASE d = edit.ch
      BY <1>1, <2>1, <2>4, <2>5, <3>1 DEF Unsettled, Fits, Valid, SamplableAt
    <3>2. CASE d # edit.ch
      <4>1. Fits(d, config[d])
        BY <1>0, <1>1, <3>2 DEF ExemptionFits, Unsettled
      <4> QED  BY <2>1, <2>4, <3>2, <4>1 DEF Fits, Valid, SamplableAt
    <3> QED  BY <3>1, <3>2
  <2>7. EditFits'
    BY <2>1 DEF EditFits
  <2>8. Harm
    BY <2>1, <2>4, <2>5 DEF Valid
  <2> QED  BY <2>3, <2>6, <2>7, <2>8 DEF Fitting
<1>9. CASE PanelForget
  <2>1. /\ pc = "forget" /\ config' = config /\ ClearOverrides({edit.ch})
        /\ pc' = "look" /\ edit' = None
    BY <1>9 DEF PanelForget, PanelDone, Goto
  <2>2. edit.ch \in Channels /\ edit # None
    BY <1>5, <2>1 DEF Desk
  <2>3. /\ parked' \in [Channels -> Calibrations \cup {None}]
        /\ judged' \in [Channels -> Rates] /\ exempt' \subseteq Channels
        /\ \A d \in Channels :
              IF d = edit.ch THEN d \notin exempt' /\ parked'[d] = None
              ELSE /\ d \in exempt' <=> d \in exempt
                   /\ parked'[d] = parked[d] /\ judged'[d] = judged[d]
    BY <1>0, <2>1, <2>2, OverridesCleared
  <2>4. CalibrationTypes'
    BY <1>0, <1>1, <2>1, <2>3 DEF CalibrationTypes, Desk
  <2>5. ExemptionFits'
    <3> SUFFICES ASSUME NEW d \in Channels, d \notin Unsettled' PROVE Fits(d, config[d])'
      BY DEF ExemptionFits
    <3>1. CASE d = edit.ch
      BY <2>3, <3>1 DEF Fits
    <3>2. CASE d # edit.ch
      <4>1. Fits(d, config[d])
        BY <1>0, <1>1, <3>2 DEF ExemptionFits, Unsettled
      <4> QED  BY <2>1, <2>3, <3>2, <4>1 DEF Fits, Valid, SamplableAt
    <3> QED  BY <3>1, <3>2
  <2>6. EditFits'
    BY <2>1 DEF EditFits
  <2> QED  BY <2>1, <2>4, <2>5, <2>6 DEF Fitting, Valid
<1> QED  BY <1>2, <1>3, <1>4, <1>6, <1>7, <1>8, <1>9 DEF PanelStep

\* A step that touches neither figures nor overrides keeps them fitting.
LEMMA Untouched ==
    ASSUME Fitting, UNCHANGED <<config, overrides, panel>>, pc' = pc \/ edit = None
    PROVE  ExemptionFits' /\ EditFits'
BY DEF Fitting, ExemptionFits, EditFits, Unsettled, Fits, Valid, SamplableAt, overrides, panel

\* The engine, the saving pass, the polling loop and the flash touch neither.
LEMMA OthersFit ==
    ASSUME Fitting, EngineStep \/ SavingStep \/ PollStore \/ MeasureRate \/ StoreTurns
                    \/ \E c \in Channels : PollLoad(c)
    PROVE  Fitting' /\ config' = config
<1> DEFINE Same == UNCHANGED <<inService, config, overrides, panel>>
           Kept == /\ DOMAIN nvs' = {"total", "config", "channels"}
                   /\ nvs'.config \in [Channels -> Calibrations]
                   /\ nvs'.channels \subseteq Channels
                   /\ ch' \in Channels
<1>0. CalibrationTypes
  BY DEF Fitting
<1>1. ASSUME NEW p, NEW q, NextChannel(p, q) PROVE ch' \in Channels
  BY <1>0, <1>1, MeteringAssumption DEF NextChannel, CalibrationTypes, Channels
<1>2. 1 \in Channels
  BY MeteringAssumption DEF Channels
<1>3. ASSUME Same, Kept, pc' \notin Desk, pc \notin Desk, rate' = rate PROVE Fitting' /\ config' = config
  <2>1. edit = None /\ edit' = None
    BY <1>0, <1>3 DEF CalibrationTypes, panel
  <2>2. CalibrationTypes'
    BY <1>0, <1>3, <2>1 DEF CalibrationTypes, overrides, panel
  <2> QED  BY <1>3, <2>1, <2>2, Untouched DEF Fitting
<1>4. CASE EngineStep
  <2>1. Same /\ nvs' = nvs /\ rate' = rate
    BY <1>4 DEF EngineStep, Look, Clear, ComputeRate, AddSession, AddTotal, StoreTotal,
                EngineOnly, stored, core0
  <2>2. ch' \in Channels
    BY <1>0, <1>1, <1>4 DEF EngineStep, Look, Clear, ComputeRate, AddSession, AddTotal,
                StoreTotal, Goto, CalibrationTypes
  <2>3. pc \notin Desk /\ pc' \notin Desk
    BY <1>4 DEF EngineStep, Look, Clear, ComputeRate, AddSession, AddTotal, StoreTotal, Goto,
                NextChannel, Desk
  <2> QED  BY <1>0, <1>3, <2>1, <2>2, <2>3 DEF CalibrationTypes
<1>5. CASE SavingStep
  <2>1. Same /\ rate' = rate
    BY <1>5 DEF SavingStep, NotDue, SaveDue, CompareTotal, PutTotal, MarkTotal, CompareConfig,
                PutRange, PutFactor, MarkConfig, CompareChannels, PutChannels, MarkChannels,
                NoteResults, SaveOnly, meter, core0
  <2>2. pc \notin Desk /\ pc' \notin Desk
    BY <1>5 DEF SavingStep, NotDue, SaveDue, CompareTotal, PutTotal, MarkTotal, CompareConfig,
                PutRange, PutFactor, MarkConfig, CompareChannels, PutChannels, MarkChannels,
                NoteResults, Goto, NextChannel, Desk
  <2>3. ASSUME NEW field \in {"range", "factor"},
               nvs' = IF storeOk THEN [nvs EXCEPT !.config[ch][field] = config[ch][field]] ELSE nvs
        PROVE  /\ DOMAIN nvs' = {"total", "config", "channels"}
               /\ nvs'.config \in [Channels -> Calibrations]
               /\ nvs'.channels \subseteq Channels
    <3>1. [nvs.config[ch] EXCEPT ![field] = config[ch][field]] \in Calibrations
      BY <1>0 DEF Calibrations, CalibrationTypes
    <3> QED  BY <1>0, <2>3, <3>1 DEF CalibrationTypes
  <2>4. CASE PutRange \/ PutFactor
    <3>1. ch' \in Channels
      BY <1>0, <1>1, <2>4 DEF PutRange, PutFactor, Goto, CalibrationTypes
    <3>2. Kept
      BY <2>3, <2>4, <3>1 DEF PutRange, PutFactor, Put
    <3> QED  BY <1>3, <2>1, <2>2, <3>2
  <2>5. CASE PutTotal \/ PutChannels
    <3>1. Kept
      BY <1>0, <2>5 DEF PutTotal, PutChannels, Put, Goto, CalibrationTypes
    <3> QED  BY <1>3, <2>1, <2>2, <3>1
  <2>6. CASE NotDue \/ SaveDue \/ CompareTotal \/ MarkTotal \/ CompareConfig \/ MarkConfig
             \/ CompareChannels \/ MarkChannels \/ NoteResults
    <3>1. nvs' = nvs
      BY <2>6 DEF NotDue, SaveDue, CompareTotal, MarkTotal, CompareConfig, MarkConfig,
                  CompareChannels, MarkChannels, NoteResults, stored
    <3>2. ch' \in Channels
      BY <1>0, <1>1, <1>2, <2>6 DEF NotDue, SaveDue, CompareTotal, MarkTotal, CompareConfig,
                  MarkConfig, CompareChannels, MarkChannels, NoteResults, Goto, CalibrationTypes
    <3> QED  BY <1>0, <1>3, <2>1, <2>2, <3>1, <3>2 DEF CalibrationTypes
  <2> QED  BY <1>5, <2>4, <2>5, <2>6 DEF SavingStep
<1>6. CASE PollStore \/ MeasureRate \/ StoreTurns \/ \E c \in Channels : PollLoad(c)
  <2>1. /\ UNCHANGED <<inService, config, overrides, panel, pc, ch>> /\ rate' \in Rates
        /\ nvs' = nvs
    BY <1>0, <1>6 DEF PollStore, MeasureRate, StoreTurns, PollLoad, meter, stored, task, core0,
                      CalibrationTypes
  <2>2. CalibrationTypes'
    BY <1>0, <2>1 DEF CalibrationTypes, overrides, panel
  <2> QED  BY <2>1, <2>2, Untouched DEF Fitting
<1> QED  BY <1>4, <1>5, <1>6

\* A reboot forgets every override and takes the calibrations from the flash.
LEMMA PowerCutFits ==
    ASSUME Fitting, PowerCut
    PROVE  Fitting' /\ config' = nvs.config
BY MeteringAssumption
   DEF Fitting, CalibrationTypes, ExemptionFits, EditFits, Fits, PowerCut, Loaded, Channels, Desk

\* Every step of the eModbus task, the logic task, the polling loop and the flash keeps the
\* overrides fitting.
LEMMA NextFits ==
    Fitting /\ [Next]_vars => Fitting'
<1> SUFFICES ASSUME Fitting, [Next]_vars PROVE Fitting'
  OBVIOUS
<1>1. CASE UNCHANGED vars
  <2>1. CalibrationTypes'
    BY <1>1 DEF vars, meter, overrides, panel, stored, task, core0, Fitting, CalibrationTypes
  <2>2. UNCHANGED <<config, overrides, panel>> /\ pc' = pc
    BY <1>1 DEF vars, meter, task
  <2> QED  BY <2>1, <2>2, Untouched DEF Fitting
<1> QED  BY <1>1, FramesFit, PanelFits, OthersFit, PowerCutFits DEF Next

-----------------------------------------------------------------------------

\* However frames, the panel, the saving pass, a changing sampling rate, failing writes and
\* power cuts interleave, an override never outlives the calibration it was given for, but
\* where a frame overtook the panel: the rule the reset arms of applyHoldingWrite() and
\* prepareConfigUpdate() keep between them.
THEOREM ExemptionAlwaysFits == Spec => []ExemptionFits
<1>1. Init => Fitting
  BY InitFits
<1>2. Fitting /\ [Next]_vars => Fitting'
  BY NextFits
<1>3. Fitting => ExemptionFits
  BY DEF Fitting
<1> QED  BY <1>1, <1>2, <1>3, PTL DEF Spec

\* What is left of prepareConfigUpdate()'s promise: a valid calibration stops being valid only
\* by being cleared whole, by a reboot into what the flash holds, or by a store of the panel
\* that a frame came before.
THEOREM CalibrationNotDemolished == Spec => NotDemolished
<1> DEFINE Step == \A c \in Channels :
              Valid(config[c]) /\ ~Valid(config'[c])
                  => \/ config'[c] = Blank \/ config' = nvs.config
                     \/ pc = "put" /\ edit.ch = c /\ c \in torn
<1>1. Init => Fitting
  BY InitFits
<1>2. Fitting /\ [Next]_vars => Fitting'
  BY NextFits
<1>3. Fitting /\ [Next]_vars => [Step]_vars
  <2> SUFFICES ASSUME Fitting, Next PROVE Step
    OBVIOUS
  <2>1. CASE Frames
    BY <2>1, FramesFit
  <2>2. CASE PowerCut
    BY <2>2, PowerCutFits
  <2>3. CASE PanelStep
    BY <2>3, PanelFits
  <2>4. CASE EngineStep \/ SavingStep \/ PollStore \/ MeasureRate \/ StoreTurns
             \/ \E c \in Channels : PollLoad(c)
    <3>1. config' = config
      BY <2>4, OthersFit
    <3> QED  BY <3>1 DEF Valid
  <2> QED  BY <2>1, <2>2, <2>3, <2>4 DEF Next
<1> QED  BY <1>1, <1>2, <1>3, PTL DEF Spec, NotDemolished
-----------------------------------------------------------------------------
(* The full type invariant *)

Store == [total : [Channels -> Volumes], config : [Channels -> Calibrations],
          channels : SUBSET Channels]

MeterTyped ==
    pulses \in [Channels -> Nat] /\ session \in [Channels -> Volumes]
                                 /\ total \in [Channels -> Volumes]

FlashTyped ==
    nvs \in Store /\ shadow \in Store /\ storeOk \in BOOLEAN /\ fails \in [Groups -> 0 .. Alarm]

Places == {"panel"} \cup Desk \cup Engine \cup Saving \cup {"due?"}

TaskTyped ==
    /\ pc \in Places
    /\ local \in [taken : Nat, volume : Volumes, sum : Volumes, value : Volumes,
                  landed : BOOLEAN]
    /\ result \in [Groups -> {"untried", "ok", "failed"}]

CountsTyped ==
    /\ polled \in [ch : Channels, count : Nat] \cup {None}
    /\ edges \in Nat /\ metered \in Nat /\ changes \in 0 .. Changes

Typed == Fitting /\ MeterTyped /\ FlashTyped /\ TaskTyped /\ CountsTyped

\* The parts hold every conjunct of TypeOK.
LEMMA TypeParts == Typed => TypeOK
<1> SUFFICES ASSUME Typed PROVE TypeOK
  OBVIOUS
<1>1. edit \in [ch : Channels, to : Calibrations] \cup {None}
  BY DEF Typed, Fitting, CalibrationTypes
<1> QED  BY <1>1 DEF Typed, Fitting, CalibrationTypes, MeterTyped, FlashTyped, TaskTyped,
                     CountsTyped, Store, Places, TypeOK

\* A volume is a number or not one, and stays so under the engine's arithmetic.
LEMMA VolumeFacts ==
    /\ 0 \in Volumes /\ Nat \subseteq Volumes
    /\ \A a, b \in Volumes : Plus(a, b) \in Volumes
    /\ \A k \in Calibrations, n \in Nat : Volume(k, n) \in Volumes
BY MeteringAssumption DEF Volumes, Plus, Volume, Calibrations

\* Locals that are not in use are typed.
LEMMA IdleTyped ==
    Idle \in [taken : Nat, volume : Volumes, sum : Volumes, value : Volumes, landed : BOOLEAN]
BY VolumeFacts DEF Idle

\* A failure count saturates at the alarm.
LEMMA NotedTyped ==
    ASSUME FlashTyped, NEW g \in Groups, NEW ok \in BOOLEAN
    PROVE  Noted(g, ok) \in [Groups -> 0 .. Alarm]
BY DEF FlashTyped, Noted, Alarm

\* What the reset arms leave of the meter and of the flash.
LEMMA SaveZerosTyped ==
    ASSUME FlashTyped, NEW S, SaveZeros(S)
    PROVE  nvs' \in Store /\ fails' \in [Groups -> 0 .. Alarm]
<1>1. Wiped(nvs.total, S, 0) \in [Channels -> Volumes]
  BY VolumeFacts, WipedFacts DEF FlashTyped, Store
<1>2. nvs' \in Store
  BY <1>1 DEF SaveZeros, FlashTyped, Store
<1>3. fails' \in [Groups -> 0 .. Alarm]
  BY NotedTyped DEF SaveZeros, FlashTyped, Groups
<1> QED  BY <1>2, <1>3

\* ... and what they leave in memory.
LEMMA MeterCleared ==
    ASSUME MeterTyped, NEW S
    PROVE  /\ pulses' = Wiped(pulses, S, 0) => pulses' \in [Channels -> Nat]
           /\ session' = Wiped(session, S, 0) => session' \in [Channels -> Volumes]
           /\ total' = Wiped(total, S, 0) => total' \in [Channels -> Volumes]
<1>1. Wiped(pulses, S, 0) \in [Channels -> Nat]
  BY DEF MeterTyped, Wiped
<1>2. Wiped(session, S, 0) \in [Channels -> Volumes]
  BY VolumeFacts DEF MeterTyped, Wiped
<1>3. Wiped(total, S, 0) \in [Channels -> Volumes]
  BY VolumeFacts DEF MeterTyped, Wiped
<1> QED  BY <1>1, <1>2, <1>3

\* A bounded change leaves less to come.
LEMMA ChangeCounts == ASSUME CountsTyped, Change PROVE changes' \in 0 .. Changes
BY MeteringAssumption DEF CountsTyped, Change

\* The device starts typed, whatever the flash held.
LEMMA InitTyped == Init => Typed
<1> SUFFICES ASSUME Init PROVE Typed
  OBVIOUS
<1>1. nvs \in Store
  BY VolumeFacts DEF Init, Store
<1>2. MeterTyped
  BY <1>1, VolumeFacts DEF Init, MeterTyped, Store
<1>3. FlashTyped
  BY <1>1 DEF Init, FlashTyped, Alarm
<1>4. TaskTyped
  BY VolumeFacts DEF Init, TaskTyped, Places, Idle, Untried
<1>5. CountsTyped
  BY MeteringAssumption DEF Init, CountsTyped
<1> QED  BY <1>1, <1>2, <1>3, <1>4, <1>5, InitFits DEF Typed

\* A frame's handler: the reset arms write zeros, a calibration is replaced whole.
LEMMA FramesTyped == ASSUME Typed, Frames PROVE Typed'
<1> USE DEF Typed
<1>1. /\ UNCHANGED <<shadow, storeOk, pc, ch, local, result, polled, edges, metered>>
      /\ Change
  BY DEF Frames, Frame, WriteBitmap, ResetAllSensors, ResetAllMeasured, ResetAllSession,
         ResetSession, ResetAll, ResetAllIgnored, ResetConfig, ResetCalibration, WriteFigure,
         task, core0
<1>2. TaskTyped' /\ CountsTyped'
  BY <1>1, ChangeCounts DEF TaskTyped, CountsTyped
<1> DEFINE Good == /\ pulses' \in [Channels -> Nat] /\ session' \in [Channels -> Volumes]
                   /\ total' \in [Channels -> Volumes]
                   /\ nvs' \in Store /\ fails' \in [Groups -> 0 .. Alarm]
<1>3. ASSUME NEW S, \/ ClearSensors(S)
                    \/ ClearMeasured(S) /\ UNCHANGED pulses
      PROVE  Good
  BY <1>3, SaveZerosTyped, MeterCleared DEF ClearSensors, ClearMeasured, MeterTyped
<1>4. ASSUME NEW c \in Channels, ResetSession(c) PROVE Good
  BY <1>4, VolumeFacts DEF ResetSession, MeterTyped, FlashTyped
<1>5. ASSUME NEW c \in Channels, ResetAllIgnored(c) PROVE Good
  <2>1. nvs' \in Store
    BY <1>5 DEF ResetAllIgnored, MeterTyped, FlashTyped, Store
  <2>2. fails' \in [Groups -> 0 .. Alarm]
    BY <1>5, NotedTyped DEF ResetAllIgnored, FlashTyped, Groups
  <2> QED  BY <1>5, <2>1, <2>2 DEF ResetAllIgnored, MeterTyped
<1>6. ASSUME ResetAllSession PROVE Good
  BY <1>6, MeterCleared DEF ResetAllSession, MeterTyped, FlashTyped
<1>7. ASSUME NEW c \in Channels,
             \/ ResetCalibration(c)
             \/ \E f \in Fields : \E v \in Figures(f) : WriteFigure(c, f, v)
      PROVE  Good
  BY <1>7 DEF ResetCalibration, WriteFigure, MeterTyped, FlashTyped
<1>8. Good
  <2>1. ASSUME NEW S \in SUBSET Channels, WriteBitmap(S) PROVE Good
    BY <1>3, <2>1 DEF WriteBitmap
  <2>2. ASSUME ResetAllSensors PROVE Good
    BY <1>3, <2>2 DEF ResetAllSensors
  <2>3. ASSUME ResetAllMeasured PROVE Good
    BY <1>3, <2>3 DEF ResetAllMeasured
  <2>4. ASSUME NEW c \in Channels, ResetAll(c) \/ ResetConfig(c) PROVE Good
    BY <1>3, <2>4 DEF ResetAll, ResetConfig
  <2> QED  BY <2>1, <2>2, <2>3, <2>4, <1>4, <1>5, <1>6, <1>7 DEF Frames
<1>9. MeterTyped' /\ FlashTyped'
  BY <1>1, <1>8 DEF MeterTyped, FlashTyped
<1> QED  BY <1>2, <1>9, FramesFit

\* The panel's commands leave meter, flash and counts alone.
LEMMA PanelTyped == ASSUME Typed, PanelStep PROVE Typed'
<1> USE DEF Typed
<1>1. /\ UNCHANGED <<pulses, session, total, shadow, nvs, storeOk, fails, local, result, polled,
                      edges, metered>>
      /\ Change \/ changes' = changes
  BY DEF PanelStep, PanelOnly, PanelDone, NoCommand, PanelJudge, PanelRefuse, PanelPut,
         PanelForget, PanelBlank, PanelEdit, core0, stored
<1>2. pc' \in Places
  BY DEF PanelStep, PanelDone, NoCommand, PanelJudge, PanelRefuse, PanelPut, PanelForget,
         PanelBlank, PanelEdit, Goto, Places, Desk, Engine
<1>3. changes' \in 0 .. Changes
  BY <1>1, ChangeCounts DEF CountsTyped
<1> QED  BY <1>1, <1>2, <1>3, PanelFits DEF MeterTyped, FlashTyped, TaskTyped, CountsTyped

\* A round of the engine over one channel.
LEMMA EngineTyped == ASSUME Typed, EngineStep PROVE Typed'
<1> USE DEF Typed
<1>1. UNCHANGED <<nvs, storeOk, fails, shadow, result, polled, edges, changes>>
  BY DEF EngineStep, Look, Clear, ComputeRate, AddSession, AddTotal, StoreTotal, EngineOnly,
         stored, core0
<1>2. FlashTyped'
  BY <1>1 DEF FlashTyped
<1>3. Fitting'
  BY OthersFit
<1>4. ch \in Channels /\ config[ch] \in Calibrations
  BY DEF Fitting, CalibrationTypes
<1>5. pc' \in Places
  BY DEF EngineStep, Look, Clear, ComputeRate, AddSession, AddTotal, StoreTotal, Goto,
         NextChannel, Engine, Places
<1>6. CASE Look
  BY <1>1, <1>2, <1>3, <1>4, <1>5, <1>6, IdleTyped DEF Look, MeterTyped, TaskTyped, CountsTyped
<1>7. CASE Clear
  BY <1>1, <1>2, <1>3, <1>4, <1>5, <1>7, IdleTyped
     DEF Clear, MeterTyped, TaskTyped, CountsTyped
<1>8. CASE ComputeRate
  BY <1>1, <1>2, <1>3, <1>4, <1>5, <1>8, VolumeFacts, IdleTyped
     DEF ComputeRate, MeterTyped, TaskTyped, CountsTyped
<1>9. CASE AddSession
  BY <1>1, <1>2, <1>3, <1>4, <1>5, <1>9, VolumeFacts
     DEF AddSession, MeterTyped, TaskTyped, CountsTyped
<1>10. CASE AddTotal
  BY <1>1, <1>2, <1>3, <1>4, <1>5, <1>10, VolumeFacts, IdleTyped
     DEF AddTotal, MeterTyped, TaskTyped, CountsTyped
<1>11. CASE StoreTotal
  BY <1>1, <1>2, <1>3, <1>4, <1>5, <1>11, IdleTyped
     DEF StoreTotal, MeterTyped, TaskTyped, CountsTyped
<1> QED  BY <1>6, <1>7, <1>8, <1>9, <1>10, <1>11 DEF EngineStep

\* A put leaves a store and one of the three results.
LEMMA PutTyped ==
    ASSUME FlashTyped, TaskTyped, NEW content \in Store, NEW g \in Groups, Put(content, g)
    PROVE  /\ nvs' \in Store /\ UNCHANGED <<storeOk, fails>>
           /\ result' \in [Groups -> {"untried", "ok", "failed"}]
BY DEF FlashTyped, TaskTyped, Put

\* The saving pass, step by step.
LEMMA SavingTyped == ASSUME Typed, SavingStep PROVE Typed'
<1> USE DEF Typed
<1>1. UNCHANGED <<inService, pulses, session, total, config, polled, edges, metered, changes>>
  BY DEF SavingStep, NotDue, SaveDue, CompareTotal, PutTotal, MarkTotal, CompareConfig, PutRange,
         PutFactor, MarkConfig, CompareChannels, PutChannels, MarkChannels, NoteResults,
         SaveOnly, meter, core0
<1>2. MeterTyped' /\ CountsTyped'
  BY <1>1 DEF MeterTyped, CountsTyped
<1>3. Fitting'
  BY OthersFit
<1>4. /\ ch \in Channels /\ config[ch] \in Calibrations /\ total[ch] \in Volumes
      /\ config[ch].range \in Ranges /\ config[ch].factor \in Factors
      /\ inService \in SUBSET Channels
  BY DEF Fitting, CalibrationTypes, MeterTyped, Calibrations
<1>5. pc' \in Places
  BY DEF SavingStep, NotDue, SaveDue, CompareTotal, PutTotal, MarkTotal, CompareConfig, PutRange,
         PutFactor, MarkConfig, CompareChannels, PutChannels, MarkChannels, NoteResults,
         Goto, NextChannel, Engine, Saving, Places
<1>6. CASE NotDue \/ SaveDue \/ CompareTotal \/ CompareConfig \/ CompareChannels
  <2>1. UNCHANGED <<shadow, nvs, storeOk, fails, result>>
    BY <1>6 DEF NotDue, SaveDue, CompareTotal, CompareConfig, CompareChannels, stored
  <2>2. \/ local' = local \/ local' = [Idle EXCEPT !.value = total[ch]]
        \/ local' = [local EXCEPT !.landed = TRUE]
    BY <1>6 DEF NotDue, SaveDue, CompareTotal, CompareConfig, CompareChannels
  <2> QED  BY <1>2, <1>3, <1>4, <1>5, <2>1, <2>2, IdleTyped DEF FlashTyped, TaskTyped
<1>7. CASE PutTotal
  <2>1. [nvs EXCEPT !.total[ch] = local.value] \in Store
    BY <1>4 DEF FlashTyped, Store, TaskTyped
  <2>2. /\ Put([nvs EXCEPT !.total[ch] = local.value], "litres") /\ UNCHANGED shadow
        /\ local' \in {local, Idle}
    BY <1>7 DEF PutTotal
  <2> QED  BY <1>2, <1>3, <1>5, <2>1, <2>2, PutTyped, IdleTyped DEF FlashTyped, TaskTyped, Groups
<1>8. CASE MarkTotal
  <2>1. [shadow EXCEPT !.total[ch] = total[ch]] \in Store
    BY <1>4 DEF FlashTyped, Store
  <2> QED  BY <1>2, <1>3, <1>5, <1>8, <2>1, IdleTyped
           DEF MarkTotal, FlashTyped, TaskTyped, stored
<1>9. CASE PutRange
  <2>1. [nvs EXCEPT !.config[ch].range = config[ch].range] \in Store
    <3>1. [nvs.config[ch] EXCEPT !.range = config[ch].range] \in Calibrations
      BY <1>4 DEF FlashTyped, Store, Calibrations
    <3> QED  BY <1>4, <3>1 DEF FlashTyped, Store
  <2>2. /\ Put([nvs EXCEPT !.config[ch].range = config[ch].range], "calibration")
        /\ local' = [local EXCEPT !.landed = storeOk] /\ UNCHANGED shadow
    BY <1>9 DEF PutRange
  <2> QED  BY <1>2, <1>3, <1>5, <2>1, <2>2, PutTyped DEF FlashTyped, TaskTyped, Groups
<1>10. CASE PutFactor
  <2>1. [nvs EXCEPT !.config[ch].factor = config[ch].factor] \in Store
    <3>1. [nvs.config[ch] EXCEPT !.factor = config[ch].factor] \in Calibrations
      BY <1>4 DEF FlashTyped, Store, Calibrations
    <3> QED  BY <1>4, <3>1 DEF FlashTyped, Store
  <2>2. /\ Put([nvs EXCEPT !.config[ch].factor = config[ch].factor], "calibration")
        /\ local' \in {local, Idle} /\ UNCHANGED shadow
    BY <1>10 DEF PutFactor
  <2> QED  BY <1>2, <1>3, <1>5, <2>1, <2>2, PutTyped, IdleTyped DEF FlashTyped, TaskTyped, Groups
<1>11. CASE MarkConfig
  <2>1. [shadow EXCEPT !.config[ch] = config[ch]] \in Store
    BY <1>4 DEF FlashTyped, Store
  <2> QED  BY <1>2, <1>3, <1>5, <1>11, <2>1 DEF MarkConfig, FlashTyped, TaskTyped, stored
<1>12. CASE PutChannels
  <2>1. [nvs EXCEPT !.channels = inService] \in Store
    BY <1>4 DEF FlashTyped, Store
  <2>2. Put([nvs EXCEPT !.channels = inService], "channels") /\ UNCHANGED <<shadow, local>>
    BY <1>12 DEF PutChannels
  <2> QED  BY <1>2, <1>3, <1>5, <2>1, <2>2, PutTyped DEF FlashTyped, TaskTyped, Groups
<1>13. CASE MarkChannels
  <2>1. [shadow EXCEPT !.channels = inService] \in Store
    BY <1>4 DEF FlashTyped, Store
  <2> QED  BY <1>2, <1>3, <1>5, <1>13, <2>1 DEF MarkChannels, FlashTyped, TaskTyped, stored
<1>14. CASE NoteResults
  <2>1. \A g \in Groups : Noted(g, result[g] = "ok") \in [Groups -> 0 .. Alarm]
    BY NotedTyped
  <2>2. fails' \in [Groups -> 0 .. Alarm]
    BY <1>14, <2>1 DEF NoteResults, FlashTyped
  <2> QED  BY <1>2, <1>3, <1>5, <1>14, <2>2
           DEF NoteResults, FlashTyped, TaskTyped, Untried
<1> QED  BY <1>6, <1>7, <1>8, <1>9, <1>10, <1>11, <1>12, <1>13, <1>14 DEF SavingStep

\* The polling loop, the flash's turns and a reboot.
LEMMA WorldTyped ==
    ASSUME Typed, PollStore \/ MeasureRate \/ StoreTurns \/ PowerCut
                   \/ \E c \in Channels : PollLoad(c)
    PROVE  Typed'
<1> USE DEF Typed
<1>1. CASE PollStore
  <2>1. polled.ch \in Channels /\ polled.count \in Nat
    BY <1>1 DEF PollStore, CountsTyped
  <2>2. pulses' \in [Channels -> Nat]
    BY <1>1, <2>1 DEF PollStore, MeterTyped
  <2> QED  BY <1>1, <2>2, OthersFit
           DEF PollStore, MeterTyped, FlashTyped, TaskTyped, CountsTyped, stored, task
<1>2. CASE StoreTurns
  <2>1. storeOk' \in BOOLEAN
    BY <1>2, Zenon DEF StoreTurns
  <2>2. changes' \in 0 .. Changes
    BY <1>2, ChangeCounts DEF StoreTurns
  <2> QED  BY <1>2, <2>1, <2>2, OthersFit
           DEF StoreTurns, MeterTyped, FlashTyped, TaskTyped, CountsTyped, meter, task, core0
<1>3. CASE PowerCut
  <2>1. changes' \in 0 .. Changes
    BY <1>3, ChangeCounts DEF PowerCut
  <2>2. MeterTyped'
    BY <1>3, VolumeFacts DEF PowerCut, Loaded, MeterTyped, FlashTyped, Store
  <2>3. FlashTyped'
    BY <1>3 DEF PowerCut, Loaded, FlashTyped, Alarm
  <2>4. TaskTyped'
    BY <1>3, VolumeFacts DEF PowerCut, Loaded, TaskTyped, Places, Idle, Untried
  <2> QED  BY <1>3, <2>1, <2>2, <2>3, <2>4, PowerCutFits DEF PowerCut, Loaded, CountsTyped
<1>4. ASSUME NEW c \in Channels, PollLoad(c) PROVE Typed'
  <2>1. polled' \in [ch : Channels, count : Nat] /\ edges' \in Nat
    BY <1>4 DEF PollLoad, MeterTyped, CountsTyped
  <2> QED  BY <1>4, <2>1, OthersFit
           DEF PollLoad, MeterTyped, FlashTyped, TaskTyped, CountsTyped, meter, stored, task
<1>5. CASE MeasureRate
  BY <1>5, OthersFit
     DEF MeasureRate, MeterTyped, FlashTyped, TaskTyped, CountsTyped, meter, stored, task
<1> QED  BY <1>1, <1>2, <1>3, <1>4, <1>5

\* The meter, the flash and both tasks keep to their types, whatever wraps, fails, is reset or
\* loses its power: a failure count saturates, a volume is a number or the one that is none,
\* and a result is one of three.
THEOREM TypesAlwaysHold == Spec => []TypeOK
<1>1. Typed /\ [Next]_vars => Typed'
  <2> SUFFICES ASSUME Typed, [Next]_vars PROVE Typed'
    OBVIOUS
  <2>1. CASE UNCHANGED vars
    <3>1. Fitting'
      BY <2>1, NextFits DEF Typed
    <3> QED  BY <2>1, <3>1 DEF vars, meter, stored, task, core0, Typed, MeterTyped, FlashTyped,
                              TaskTyped, CountsTyped
  <2> QED  BY <2>1, FramesTyped, PanelTyped, EngineTyped, SavingTyped, WorldTyped DEF Next
<1> QED  BY <1>1, InitTyped, TypeParts, PTL DEF Spec
=============================================================================
