------------------------------ MODULE NetSettings ------------------------------
(***************************************************************************)
(* The network settings (net/net_settings) and the four who change them:   *)
(* a Modbus master through the registers of net/net_register_map, the      *)
(* panel through ui/core/ui_settings, the configuration page through       *)
(* net/portal_form, and the flash they are kept in                         *)
(* (net/net_settings_nvs.h, with the save of firmware.cpp's logic pass).   *)
(*                                                                         *)
(* Bus frames are served by a task of higher priority on the same core:    *)
(* each runs to its end, and may come between any two steps of the logic   *)
(* task, which serves the panel, the page and the save.  A field's         *)
(* contents are abstract: a base topic is empty, well formed, malformed,   *)
(* or longer than its row of the page accepts.  The page has one row of    *)
(* its own, the device clock, which is no network setting: it is set after *)
(* the apply, and counts as much as a setting in what the page answers.    *)
(***************************************************************************)
EXTENDS Naturals, Sequences, SequencesExt

CONSTANTS
  Changes,  \* bound on the frames of the master and the edits at the panel and on the page
  Cuts,     \* bound on the power cuts and factory resets
  Faults    \* bound on the flash writes that fail

VARIABLES
  live, pending, revision,       \* NetSettings: live_, pending_, revision_
  residue,    \* a master may have left bytes behind a terminator, here or there
  clockSets,  \* how often the page has set the clock
  flash,                         \* what the keys hold
  savedRevision, attempted, due, \* the save of the pass: its shadow, whether a save failed, and its minute is over
  at,         \* what the logic task is in the middle of
  work,       \* the rows or keys it has left
  bad,        \* a row was refused, or a key not written
  staged,     \* networkFieldsStaged > 0
  word,       \* the flags the panel read
  page,       \* the values the page was rendered with, or NoPage
  form,       \* the submission: what the operator edited, its clock row, and what it met
  committed, externalWrites,     \* PortalSubmitResult: the apply changed something, the clock was set
  quiet,      \* no one else touched the settings since the page, or the panel's read
  overtaken,  \* an apply came while the save was writing
  erased,     \* a factory reset cleared the flash and the restart is to come
  changes, cuts, faults

config   == <<live, pending, revision>>
saving   == <<flash, savedRevision, attempted, due, overtaken, erased>>
logic    == <<at, work, bad, staged, word>>
browser  == <<page, form>>
result   == <<clockSets, committed, externalWrites>>
budgets  == <<changes, cuts, faults>>
netVars  == <<config, residue, result, saving, logic, browser, quiet, budgets>>

Topics   == {"", "t", "bad", "long"}
Rows     == <<"login", "psk", "topic", "prefix", "ha", "qos">>
Keys     == <<"topic", "prefix", "psk", "login", "flags">>
Flags    == {"ha", "qos"}
Secret   == {"login", "psk"}       \* writeOnly rows
Fields   == Range(Rows)
Block    == [login : {"default", "own"}, psk : {"", "k"}, topic : Topics \ {"long"},
             prefix : {"p", "bad"}, ha : BOOLEAN, qos : BOOLEAN]
Defaults == [login |-> "default", psk |-> "", topic |-> "", prefix |-> "p",
             ha |-> TRUE, qos |-> FALSE]
NoPage   == <<>>

-----------------------------------------------------------------------------
(* NetSettings and NetRegisterMap.                                         *)

fieldIsTopicShaped(f) == f \in {"topic", "prefix"}
Committable(f, v)     == fieldIsTopicShaped(f) => v # "bad"
stagedFieldCommittable(f)      == Committable(f, pending[f])
stagedTopicFieldsCommittable   == \A f \in Fields : stagedFieldCommittable(f)

\* stage: a whole value; a malformed topic is refused and nothing is staged.
stage(block, f, v) == IF Committable(f, v) THEN [block EXCEPT ![f] = v] ELSE block

\* apply, and applyExcept for the field skip: a clean block is not applied again.  Clean is
\* judged byte by byte, so that equal values with a residue may differ.
Promote(block) ==
  /\ live' = block
  /\ \/ block # live /\ revision' = revision + 1
     \/ block = live /\ revision' \in {revision} \cup (IF residue THEN {revision + 1} ELSE {})
apply             == Promote(pending) /\ UNCHANGED pending
applyExcept(skip) == Promote([pending EXCEPT ![skip] = live[skip]]) /\ UNCHANGED pending

\* applyWrite with the magic.
applyWrite ==
  \/ stagedTopicFieldsCommittable /\ apply
  \/ /\ ~stagedTopicFieldsCommittable
     /\ applyExcept(IF stagedFieldCommittable("topic") THEN "prefix" ELSE "topic")

resetPortalCredentials ==
  /\ live' = [live EXCEPT !.login = "default"]
  /\ pending' = [pending EXCEPT !.login = "default"]
  /\ revision' = revision + 1

-----------------------------------------------------------------------------
(* The Modbus master.                                                      *)

Change == changes < Changes /\ changes' = changes + 1

Frame ==
  /\ Change
  /\ quiet' = (quiet /\ page = NoPage /\ at \notin {"panelStage", "panelApply"})
  /\ UNCHANGED <<flash, savedRevision, attempted, due, erased, logic, browser, result, cuts, faults>>

\* stageWrite: bytes are not validated, and the two flags share register 564.  A text staged
\* byte by byte may keep the bytes behind its new terminator.
BusStage ==
  /\ Frame
  /\ \/ /\ \E f \in Fields \ Flags : \E v \in {b[f] : b \in Block} :
             pending' = [pending EXCEPT ![f] = v]
        /\ residue' \in {residue, TRUE}
     \/ /\ \E ha, qos \in BOOLEAN : pending' = [pending EXCEPT !.ha = ha, !.qos = qos]
        /\ UNCHANGED residue
  /\ UNCHANGED <<live, revision, overtaken>>

Overtaking == overtaken' = (overtaken \/ (at = "save" /\ revision' # revision))

\* The apply register; any other value than the magic is refused and changes nothing.
BusApply == Frame /\ applyWrite /\ Overtaking /\ UNCHANGED residue

BusPortalReset == Frame /\ resetPortalCredentials /\ Overtaking /\ UNCHANGED residue

-----------------------------------------------------------------------------
(* The panel, writeSetting of ui/core/ui_settings: a flag is changed by    *)
(* reading the word, staging it with the one bit set, and applying.        *)

Idle(next) == at = "idle" /\ at' = next

FlagsOf(block) == [f \in Flags |-> block[f]]
mqttFlags       == FlagsOf(live)      \* what publish() serves the master
mqttFlagsStaged == FlagsOf(pending)

PanelRead ==
  /\ Idle("panelStage") /\ Change
  /\ \E f \in Flags, v \in BOOLEAN : work' = <<f, v>>
  /\ word' = mqttFlagsStaged
  /\ form' = [met |-> pending] /\ quiet' = TRUE
  /\ page' = NoPage
  /\ UNCHANGED <<config, residue, result, saving, bad, staged, cuts, faults>>

PanelStage ==
  /\ at = "panelStage" /\ at' = "panelApply"
  /\ LET flags == [word EXCEPT ![work[1]] = work[2]]
     IN pending' = [f \in Fields |-> IF f \in Flags THEN flags[f] ELSE pending[f]]
  /\ UNCHANGED <<live, revision, residue, result, saving, work, bad, staged, word, browser, quiet,
                 budgets>>

PanelApply ==
  /\ at = "panelApply" /\ at' = "idle"
  /\ applyWrite
  /\ work' = <<>> /\ word' = FlagsOf(Defaults) /\ form' = NoPage /\ quiet' = TRUE
  /\ UNCHANGED <<residue, result, saving, bad, staged, page, budgets>>

-----------------------------------------------------------------------------
(* The configuration page, net/portal_form.                                *)

\* renderSettingsForm: the live values; a write-only row is rendered blank.
RenderPage ==
  /\ Idle("idle") /\ page = NoPage
  /\ page' = live
  /\ quiet' = (pending = live)
  /\ UNCHANGED <<config, residue, result, saving, work, bad, staged, word, form, budgets>>

\* The value a row is sent with.
Sent(row, edit) ==
  IF row \in DOMAIN edit THEN edit[row] ELSE IF row \in Secret THEN "" ELSE page[row]

\* A mutant: the hidden companion of a check box comes last.
PostedSwapped(row, edit) ==
  IF row = "ha" /\ Sent(row, edit) THEN <<<<row, TRUE>>, <<row, FALSE>>>>
  ELSE <<<<row, Sent(row, edit)>>>>

\* What the browser sends for a row: a checked box after its hidden companion.
Posted(row, edit) ==
  IF row = "ha" /\ Sent(row, edit) THEN <<<<row, FALSE>>, <<row, TRUE>>>>
  ELSE <<<<row, Sent(row, edit)>>>>

Body(edit) == Posted("login", edit) \o Posted("psk", edit) \o Posted("topic", edit)
                \o Posted("prefix", edit) \o Posted("ha", edit) \o Posted("qos", edit)

\* What the operator can type into a row.
Typed(row) == CASE row = "login" -> {"own"} [] row = "psk" -> {"k"} [] row = "topic" -> {"t", "bad", "long"}
                [] row = "prefix" -> {"bad"} [] OTHER -> BOOLEAN

\* The clock row: blank, the browser's time, the last second of its range, or beyond it.
ClockRow == {"", "now", "last", "beyond"}

LeftAlone(pair)  == pair[1] \in Secret /\ pair[2] = ""    \* blank means unchanged
Malformed(pair)  == pair = <<"topic", "long">>            \* what pass 1 refuses

\* submit, pass 1: one row refused refuses the submission, and nothing is written.
SubmitRefused(body, clock) ==
  /\ clock = "beyond" \/ \E i \in DOMAIN body : Malformed(body[i])
  /\ UNCHANGED <<logic, form>>

SubmitStages(body, clock) ==
  /\ clock # "beyond" /\ \A i \in DOMAIN body : ~Malformed(body[i])
  /\ at' = "formStage" /\ work' = body
  /\ UNCHANGED <<bad, staged, word>>

Submit ==
  /\ at = "idle" /\ page # NoPage /\ Change
  /\ \E r, s \in Fields, clock \in ClockRow : \E v \in Typed(r), w \in Typed(s) :   \* up to two rows edited
       LET edit == [f \in {r, s} |-> IF f = r THEN v ELSE w]
       IN \/ SubmitRefused(Body(edit), clock)
          \/ /\ SubmitStages(Body(edit), clock)
             /\ form' = [edit |-> edit, clock |-> clock, met |-> live, sets |-> clockSets]
  /\ UNCHANGED <<config, residue, result, saving, page, quiet, cuts, faults>>

\* Pass 2, a row: staged through the setters, which may still refuse it.
FormStage ==
  /\ at = "formStage" /\ work # <<>>
  /\ LET pair == Head(work) IN
       \/ /\ LeftAlone(pair)
          /\ UNCHANGED <<pending, bad, staged>>
       \/ /\ ~LeftAlone(pair)
          /\ pending' = stage(pending, pair[1], pair[2])
          /\ bad' = (bad \/ ~Committable(pair[1], pair[2]))
          /\ staged' = (staged \/ Committable(pair[1], pair[2]))
  /\ work' = Tail(work)
  /\ UNCHANGED <<live, revision, residue, result, saving, at, word, browser, quiet, budgets>>

\* The one apply of the submission, only if it staged something.
FormApply ==
  /\ at = "formStage" /\ work = <<>> /\ at' = "formClock"
  /\ IF staged THEN apply ELSE UNCHANGED config
  /\ committed' = (revision' # revision)
  /\ UNCHANGED <<residue, clockSets, externalWrites, saving, work, bad, staged, word, browser, quiet,
                 budgets>>

\* Pass 3, the clock row: setTime refuses the last second, which pass 1 has let through.
FormClock ==
  /\ at = "formClock" /\ at' = "formAnswer"
  /\ \/ /\ form.clock = "now"
        /\ clockSets' = clockSets + 1 /\ externalWrites' = TRUE
        /\ UNCHANGED bad
     \/ /\ form.clock = "last"
        /\ bad' = TRUE
        /\ UNCHANGED <<clockSets, externalWrites>>
     \/ /\ form.clock = ""
        /\ UNCHANGED <<bad, clockSets, externalWrites>>
  /\ UNCHANGED <<config, residue, committed, saving, work, staged, word, browser, quiet, budgets>>

\* The result page; the browser shows the settings again when it asks for them.
FormAnswer ==
  /\ at = "formAnswer" /\ at' = "idle"
  /\ page' = NoPage /\ form' = NoPage /\ quiet' = TRUE
  /\ bad' = FALSE /\ staged' = FALSE /\ committed' = FALSE /\ externalWrites' = FALSE
  /\ UNCHANGED <<config, residue, clockSets, saving, work, word, budgets>>

\* A mutant: only the apply counts as a change, the clock does not.
storedSomethingApplied == committed

storedSomething == committed \/ externalWrites

\* renderResult, of a submission that pass 1 accepted.
renderResult ==
  IF bad THEN (IF storedSomething THEN "partly" ELSE "refused")
  ELSE IF storedSomething THEN "saved" ELSE "unchanged"

-----------------------------------------------------------------------------
(* The flash.                                                              *)

KeyOf(block, k) == IF k = "flags" THEN FlagsOf(block) ELSE block[k]
Erased == <<>>    \* no key is present

\* Preferences: a key is written, and is there from then on.
Put(keys, k, value) == [x \in DOMAIN keys \cup {k} |-> IF x = k THEN value ELSE keys[x]]

\* loadNetSettings: an absent key or a value stage() refuses leaves the default.
Restored(keys) ==
  [f \in Fields |->
     IF f \in Flags THEN (IF "flags" \in DOMAIN keys THEN keys["flags"][f] ELSE Defaults[f])
     ELSE IF f \in DOMAIN keys /\ Committable(f, keys[f]) THEN keys[f] ELSE Defaults[f]]

StartSave ==
  /\ Idle("save")
  /\ savedRevision # revision /\ (~attempted \/ due)
  /\ attempted' = TRUE /\ due' = FALSE
  /\ work' = Keys /\ bad' = FALSE /\ overtaken' = FALSE
  /\ UNCHANGED <<config, residue, result, flash, savedRevision, erased, staged, word, browser, quiet,
                 budgets>>

SaveKey ==
  /\ at = "save" /\ work # <<>> /\ work' = Tail(work)
  /\ \/ /\ flash' = Put(flash, Head(work), KeyOf(live, Head(work)))
        /\ UNCHANGED <<bad, faults>>
     \/ /\ faults < Faults /\ faults' = faults + 1
        /\ bad' = TRUE /\ UNCHANGED flash
  /\ UNCHANGED <<config, residue, result, savedRevision, attempted, due, overtaken, erased, at, staged, word,
                 browser, quiet, changes, cuts>>

\* A mutant: the shadow advances whatever the writes answered.
EndSaveAnyway ==
  /\ at = "save" /\ work = <<>> /\ at' = "idle"
  /\ savedRevision' = revision /\ attempted' = FALSE
  /\ bad' = FALSE
  /\ UNCHANGED <<config, residue, result, flash, due, overtaken, erased, work, staged, word, browser,
                 quiet, budgets>>

\* The shadow advances only if every write succeeded; the revision is read after them.
EndSave ==
  /\ at = "save" /\ work = <<>> /\ at' = "idle"
  /\ IF bad THEN UNCHANGED <<savedRevision, attempted>>
     ELSE savedRevision' = revision /\ attempted' = FALSE
  /\ bad' = FALSE
  /\ UNCHANGED <<config, residue, result, flash, due, overtaken, erased, work, staged, word, browser,
                 quiet, budgets>>

\* Sixty seconds after a save that failed.
RetryDue ==
  /\ at = "idle" /\ attempted /\ ~due /\ due' = TRUE
  /\ UNCHANGED <<config, residue, result, flash, savedRevision, attempted, overtaken, erased, logic, browser,
                 quiet, budgets>>

\* performFactoryReset: the store is cleared, or clear() fails; the settings in memory stay.
FactoryReset ==
  /\ at = "idle" /\ cuts < Cuts /\ ~erased
  /\ flash' = Erased /\ erased' = TRUE
  /\ UNCHANGED <<config, residue, result, savedRevision, attempted, due, overtaken, logic, browser,
                 quiet, budgets>>

\* A power cut, at any moment, or the restart: setup() loads what the flash holds.
Boot ==
  /\ cuts < Cuts /\ cuts' = cuts + 1
  /\ live' = Restored(flash) /\ pending' = Restored(flash)
  /\ revision' = (IF Restored(flash) = Defaults THEN 0 ELSE 1)
  /\ savedRevision' = revision'
  /\ attempted' = FALSE /\ due' = FALSE /\ overtaken' = FALSE /\ erased' = FALSE
  /\ at' = "idle" /\ work' = <<>> /\ bad' = FALSE /\ staged' = FALSE
  /\ word' = FlagsOf(Defaults)
  /\ page' = NoPage /\ form' = NoPage /\ quiet' = TRUE
  /\ residue' = FALSE /\ clockSets' = 0 /\ committed' = FALSE /\ externalWrites' = FALSE
  /\ UNCHANGED <<flash, changes, faults>>

Init ==
  /\ live = Defaults /\ pending = Defaults /\ revision = 0
  /\ flash = Erased /\ savedRevision = 0 /\ attempted = FALSE /\ due = FALSE
  /\ at = "idle" /\ work = <<>> /\ bad = FALSE /\ staged = FALSE /\ word = FlagsOf(Defaults)
  /\ page = NoPage /\ form = NoPage
  /\ residue = FALSE /\ clockSets = 0 /\ committed = FALSE /\ externalWrites = FALSE
  /\ quiet = TRUE /\ overtaken = FALSE /\ erased = FALSE
  /\ changes = 0 /\ cuts = 0 /\ faults = 0

Next ==
  \/ BusStage \/ BusApply \/ BusPortalReset
  \/ PanelRead \/ PanelStage \/ PanelApply
  \/ RenderPage \/ Submit \/ FormStage \/ FormApply \/ FormClock \/ FormAnswer
  \/ StartSave \/ SaveKey \/ EndSave \/ RetryDue
  \/ FactoryReset \/ Boot

Spec == Init /\ [][Next]_netVars

-----------------------------------------------------------------------------
(* Properties.                                                             *)

\* Every field has a value its store can hold.
TypeOK ==
  /\ live \in Block /\ pending \in Block /\ revision \in Nat /\ savedRevision \in Nat
  /\ at \in {"idle", "panelStage", "panelApply", "formStage", "formClock", "formAnswer", "save"}
  /\ \A k \in DOMAIN flash : flash[k] \in {KeyOf(b, k) : b \in Block}

FormEnds == at = "formAnswer" /\ at' = "idle" /\ cuts' = cuts

\* A form accepted whole changes the rows the operator edited and no other: not a secret
\* left blank, not a check box left checked, provided no one else wrote meanwhile.
FormSavesEdits ==
  [][FormEnds /\ quiet /\ ~bad =>
       live' = [f \in Fields |-> IF f \in DOMAIN form.edit THEN form.edit[f] ELSE form.met[f]]]_netVars

\* The result page says that something was stored whenever a setting changed or the clock was
\* set, and only then: but for bytes a master left behind a terminator, which an apply drops
\* and counts as a change.  Provided no one else wrote between the page and its answer.
Tells   == renderResult \in {"saved", "partly"}
Altered == live # form.met \/ clockSets # form.sets

AnswerIsTrue == [][FormEnds /\ quiet => (Altered => Tells) /\ (Tells => Altered \/ residue)]_netVars

\* A flag edited at the panel leaves the other as the master had staged it, applied or not,
\* provided no frame came between the panel's read and its apply.
PanelEditsOneFlag ==
  [][at = "panelApply" /\ at' = "idle" /\ cuts' = cuts /\ quiet =>
       \A f \in Flags : live'[f] = IF f = work[1] THEN work[2] ELSE form.met[f]]_netVars

\* When the firmware holds the settings for saved, a power cut would bring back what is in
\* force (a malformed topic apart, which a boot drops), unless an apply overtook the save or a
\* factory reset is waiting for its restart.
SavedMeansStored ==
  at = "idle" /\ savedRevision = revision /\ ~overtaken /\ ~erased
    => Restored(flash) = Restored([k \in Range(Keys) |-> KeyOf(live, k)])

\* (violated) The same with no exception: what firmware.cpp says of the shadow.
ShadowIsTrue ==
  at = "idle" /\ savedRevision = revision /\ ~erased
    => Restored(flash) = Restored([k \in Range(Keys) |-> KeyOf(live, k)])

\* (violated) One refused row refuses the whole submission: what portal_form.cpp says of a POST.
FormAllOrNothing == [][FormEnds /\ quiet /\ bad => live' = form.met]_netVars

\* (violated) A time that pass 1 lets through is one the clock takes: what portal_form.cpp says
\* of its bounds.
ClockBoundsAgree == [][at = "formClock" /\ at' = "formAnswer" => bad' = bad]_netVars
=============================================================================
