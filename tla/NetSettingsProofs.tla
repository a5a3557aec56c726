-------------------------- MODULE NetSettingsProofs --------------------------
(***************************************************************************)
(* Proofs about NetSettings.  Saved: when the firmware holds the settings  *)
(* for saved, the flash holds them, through failed writes, applies and     *)
(* resets at any moment, and power cuts.  Surfaces: the panel and the page *)
(* change what the operator edited and nothing else, while no one else     *)
(* writes; and every field keeps a value that its store can hold.          *)
(***************************************************************************)
EXTENDS NetSettings, SequenceTheorems, TLAPS

KeySet == {"topic", "prefix", "psk", "login", "flags"}

\* What a save writes when every key lands.
Full(block) == [k \in KeySet |-> KeyOf(block, k)]

\* A boot on this flash brings back these settings.
Holds(keys, block) == Restored(keys) = Restored(Full(block))

TypesFit == /\ revision \in Nat /\ savedRevision \in Nat /\ savedRevision <= revision
         /\ at \in {"idle", "panelStage", "panelApply", "formStage", "formClock", "formAnswer", "save"}
         /\ overtaken \in BOOLEAN

\* Outside a save, equal revisions mean that the flash is up to date.
ShadowFits ==
  at # "save" /\ savedRevision = revision /\ ~overtaken /\ ~erased => Holds(flash, live)

\* Inside one, the keys that are no longer to do are on the flash, until a write fails or an
\* apply overtakes it; and the shadow is behind, so a failed save cannot pass for a good one.
SaveFits ==
  at = "save" =>
    /\ savedRevision < revision
    /\ work \in Seq(KeySet)
    /\ ~bad /\ ~overtaken =>
         \A k \in KeySet : \/ \E i \in 1 .. Len(work) : work[i] = k
                           \/ k \in DOMAIN flash /\ flash[k] = KeyOf(live, k)

Saved == TypesFit /\ ShadowFits /\ SaveFits

-----------------------------------------------------------------------------

\* The keys are saved in an order of their own.
LEMMA KeysAreKeySet == Range(Keys) = KeySet
  BY DEF Range, Keys, KeySet

\* A flash that holds every key as a save of the settings writes it holds the settings.
LEMMA AllKeysHold ==
    ASSUME NEW keys, NEW block,
           \A k \in KeySet : k \in DOMAIN keys /\ keys[k] = KeyOf(block, k)
    PROVE  Holds(keys, block)
  BY DEF Holds, Restored, Full, KeySet, Fields, Range, Rows, Flags

\* What a boot restores from settings it has restored is the same.
LEMMA RestoredHolds ==
    ASSUME NEW keys
    PROVE  Holds(keys, Restored(keys))
<1> DEFINE R == Restored(keys)
           F == Full(R)
<1>1. Fields = {"login", "psk", "topic", "prefix", "ha", "qos"}
  BY DEF Fields, Range, Rows
<1>2. DOMAIN F = KeySet /\ F["flags"] = [f \in Flags |-> R[f]]
  BY DEF Full, KeyOf, FlagsOf, KeySet
<1>3. \A f \in Fields \ Flags : f \in KeySet /\ F[f] = R[f]
  BY <1>1 DEF Full, KeyOf, KeySet, Flags
<1>4. \A f \in Fields \ Flags : Committable(f, R[f])
  <2>1. \A f \in Fields \ Flags : Committable(f, Defaults[f])
    <3>1. Defaults["topic"] # "bad" /\ Defaults["prefix"] # "bad"
      BY DEF Defaults
    <3> QED
      BY <3>1 DEF Committable, fieldIsTopicShaped
  <2>2. \A f \in Fields \ Flags :
          R[f] = IF f \in DOMAIN keys /\ Committable(f, keys[f]) THEN keys[f] ELSE Defaults[f]
    BY DEF Restored
  <2> HIDE DEF R
  <2> QED
    BY <2>1, <2>2
<1>5. DOMAIN R = Fields
  BY DEF Restored
<1> HIDE DEF R, F
<1>6. \A f \in Fields : Restored(F)[f] = R[f]
  <2>1. ASSUME NEW f \in Fields \ Flags PROVE Restored(F)[f] = R[f]
    BY <1>2, <1>3, <1>4, <2>1 DEF Restored
  <2>2. ASSUME NEW f \in Fields \cap Flags PROVE Restored(F)[f] = R[f]
    BY <1>2, <2>2 DEF Restored, KeySet
  <2> QED
    BY <2>1, <2>2
<1>7. Restored(F) = [f \in Fields |-> R[f]] /\ R = [f \in Fields |-> R[f]]
  <2>1. Restored(F) = [f \in Fields |-> Restored(F)[f]]
    BY DEF Restored
  <2>2. R = [f \in Fields |-> R[f]]
    BY DEF Restored, R
  <2> QED
    BY <1>6, <2>1, <2>2
<1> QED
  BY <1>7 DEF Holds, F, R

\* The device boots for the first time with defaults and an empty flash.
LEMMA InitSaved == Init => Saved
<1> SUFFICES ASSUME Init PROVE Saved
  OBVIOUS
<1>1. Holds(Erased, Defaults)
  <2>1. Restored(Erased) = Defaults
    <3>1. DOMAIN Erased = {}
      BY DEF Erased
    <3>2. Restored(Erased) = [f \in Fields |-> Defaults[f]]
      BY <3>1 DEF Restored
    <3>3. Fields = {"login", "psk", "topic", "prefix", "ha", "qos"}
      BY DEF Fields, Range, Rows
    <3>4. Defaults = [f \in Fields |-> Defaults[f]]
      BY <3>3 DEF Defaults
    <3> QED
      BY <3>2, <3>4
  <2> QED
    BY <2>1, RestoredHolds
<1>2. overtaken \in BOOLEAN
  BY DEF Init
<1> QED
  BY <1>1, <1>2 DEF Init, Saved, TypesFit, ShadowFits, SaveFits

\* Promoting a block changes the settings only with the revision.
LEMMA PromoteCounts ==
    ASSUME NEW block, revision \in Nat, Promote(block)
    PROVE  \/ revision' = revision + 1
           \/ revision' = revision /\ live' = live
  BY DEF Promote

\* So does a write of the apply register, whichever of its two forms it takes.
LEMMA ApplyCounts ==
    ASSUME revision \in Nat, applyWrite
    PROVE  \/ revision' = revision + 1
           \/ revision' = revision /\ live' = live
  BY PromoteCounts DEF applyWrite, apply, applyExcept

\* An apply during a save is noticed.
LEMMA OvertakingTells ==
    ASSUME overtaken \in BOOLEAN, Overtaking
    PROVE  /\ overtaken' \in BOOLEAN
           /\ ~overtaken' => ~overtaken /\ (at = "save" => revision' = revision)
<1>1. CASE overtaken = TRUE
  BY <1>1 DEF Overtaking
<1>2. CASE overtaken = FALSE
  <2>1. CASE at = "save" /\ revision' # revision
    <3>1. overtaken' = TRUE
      BY <2>1 DEF Overtaking
    <3> QED
      BY <3>1
  <2>2. CASE ~(at = "save" /\ revision' # revision)
    <3>1. overtaken' = FALSE
      BY <1>2, <2>2 DEF Overtaking
    <3> QED
      BY <1>2, <2>2, <3>1
  <2> QED
    BY <2>1, <2>2
<1> QED
  BY <1>1, <1>2

\* No surface, no step of the save, no failed write and no power cut lets the shadow pass
\* for true when it is not.
LEMMA NextSaved ==
    ASSUME Saved, [Next]_netVars
    PROVE  Saved'
<1> USE DEF Saved, TypesFit, ShadowFits, SaveFits, config, saving, logic, browser, budgets
<1>1. CASE BusStage
  BY <1>1 DEF BusStage, Frame, Change
<1>2. CASE BusApply
  <2>1. UNCHANGED <<flash, savedRevision, erased, at, work, bad>>
    BY <1>2 DEF BusApply, Frame
  <2>2. revision' = revision + 1 \/ (revision' = revision /\ live' = live)
    BY <1>2, ApplyCounts DEF BusApply
  <2>3. overtaken' \in BOOLEAN
        /\ (~overtaken' => ~overtaken /\ (at = "save" => revision' = revision))
    BY <1>2, OvertakingTells DEF BusApply
  <2> QED
    BY <2>1, <2>2, <2>3
<1>3. CASE BusPortalReset
  <2>1. UNCHANGED <<flash, savedRevision, erased, at, work, bad>> /\ revision' = revision + 1
    BY <1>3 DEF BusPortalReset, Frame, resetPortalCredentials
  <2>2. overtaken' \in BOOLEAN
        /\ (~overtaken' => ~overtaken /\ (at = "save" => revision' = revision))
    BY <1>3, OvertakingTells DEF BusPortalReset
  <2> QED
    BY <2>1, <2>2
<1>4. CASE PanelRead
  BY <1>4 DEF PanelRead, Idle, Change
<1>5. CASE PanelStage
  BY <1>5 DEF PanelStage
<1>6. CASE PanelApply
  BY <1>6, ApplyCounts DEF PanelApply
<1>7. CASE RenderPage
  BY <1>7 DEF RenderPage, Idle
<1>8. CASE Submit
  BY <1>8 DEF Submit, SubmitRefused, SubmitStages, Change
<1>9. CASE FormStage
  BY <1>9 DEF FormStage
<1>10. CASE FormApply
  BY <1>10, PromoteCounts DEF FormApply, apply
<1>11. CASE StartSave
  <2>1. overtaken' \in BOOLEAN
    BY <1>11 DEF StartSave
  <2>2. work' = Keys /\ at = "idle" /\ at' = "save" /\ savedRevision # revision
        /\ UNCHANGED <<revision, savedRevision>>
    BY <1>11 DEF StartSave, Idle
  <2>3. work' \in Seq(KeySet) /\ \A k \in KeySet : \E i \in 1 .. Len(work') : work'[i] = k
    BY <2>2 DEF Keys, KeySet
  <2> QED
    BY <2>1, <2>2, <2>3
<1>12. CASE SaveKey
  <2>1. /\ at = "save" /\ at' = "save" /\ work # <<>> /\ work' = Tail(work)
        /\ UNCHANGED <<live, revision, savedRevision, overtaken, erased>>
    BY <1>12 DEF SaveKey
  <2>2. work \in Seq(KeySet) /\ work' \in Seq(KeySet) /\ Len(work') = Len(work) - 1
        /\ Head(work) = work[1] /\ \A i \in 1 .. Len(work') : work'[i] = work[i + 1]
    BY <2>1
  <2>3. CASE bad'
    BY <2>1, <2>2, <2>3
  <2>4. CASE ~bad'
    <3>1. flash' = Put(flash, Head(work), KeyOf(live, Head(work))) /\ ~bad
      BY <1>12, <2>4 DEF SaveKey
    <3>2. \A k \in DOMAIN flash \cup {Head(work)} :
            /\ k \in DOMAIN flash'
            /\ flash'[k] = IF k = Head(work) THEN KeyOf(live, k) ELSE flash[k]
      BY <3>1 DEF Put
    <3>3. ASSUME NEW k \in KeySet, ~overtaken, ~(k \in DOMAIN flash' /\ flash'[k] = KeyOf(live, k))
          PROVE  \E i \in 1 .. Len(work') : work'[i] = k
      <4>1. k # Head(work) /\ ~(k \in DOMAIN flash /\ flash[k] = KeyOf(live, k))
        BY <3>2, <3>3
      <4>2. PICK i \in 1 .. Len(work) : work[i] = k
        BY <2>1, <3>1, <3>3, <4>1
      <4>3. i - 1 \in 1 .. Len(work') /\ work'[i - 1] = k
        BY <2>2, <4>1, <4>2
      <4> QED
        BY <4>3
    <3>4. ASSUME NEW k \in KeySet PROVE KeyOf(live, k)' = KeyOf(live, k)
      BY <2>1 DEF KeyOf, FlagsOf
    <3> QED
      BY <2>1, <2>2, <3>3, <3>4
  <2> QED
    BY <2>3, <2>4
<1>13. CASE EndSave
  <2>1. /\ at = "save" /\ at' = "idle" /\ work = <<>>
        /\ UNCHANGED <<live, revision, flash, overtaken, erased>>
    BY <1>13 DEF EndSave
  <2>2. CASE bad
    BY <1>13, <2>1, <2>2 DEF EndSave
  <2>3. CASE ~bad
    <3>1. savedRevision' = revision
      BY <1>13, <2>3 DEF EndSave
    <3>2. ~overtaken => \A k \in KeySet : k \in DOMAIN flash /\ flash[k] = KeyOf(live, k)
      BY <2>1, <2>3
    <3>3. ~overtaken => Holds(flash, live)
      BY <3>2, AllKeysHold
    <3>4. ~overtaken' => Holds(flash, live)'
      BY <2>1, <3>3 DEF Holds, Restored, Full, KeyOf, FlagsOf
    <3> QED
      BY <2>1, <3>1, <3>4
  <2> QED
    BY <2>2, <2>3
<1>14. CASE RetryDue
  BY <1>14 DEF RetryDue
<1>15. CASE FactoryReset
  BY <1>15 DEF FactoryReset
<1>16. CASE Boot
  <2>1. overtaken' \in BOOLEAN
    BY <1>16 DEF Boot
  <2>2. Holds(flash, live)'
    <3>1. live' = Restored(flash) /\ flash' = flash
      BY <1>16 DEF Boot
    <3> QED
      BY <3>1, RestoredHolds DEF Holds
  <2>3. at' = "idle" /\ revision' \in Nat /\ savedRevision' = revision'
    BY <1>16 DEF Boot
  <2> QED
    BY <2>1, <2>2, <2>3
<1>17. CASE UNCHANGED netVars
  BY <1>17 DEF netVars
<1>18. CASE FormClock \/ FormAnswer
  BY <1>18 DEF FormClock, FormAnswer
<1> QED
  BY <1>1, <1>2, <1>3, <1>4, <1>5, <1>6, <1>7, <1>8, <1>9, <1>10, <1>11, <1>12, <1>13, <1>14,
     <1>15, <1>16, <1>17, <1>18 DEF Next

\* The shadow revision of firmware.cpp tells the truth: equal revisions mean that a power cut
\* would bring the settings back, for any number of changes, failed writes and power cuts.
THEOREM SavedIsStored == Spec => []SavedMeansStored
<1>1. Saved /\ [Next]_netVars => Saved'
  BY NextSaved
<1>2. Saved => SavedMeansStored
  BY KeysAreKeySet DEF Saved, ShadowFits, SavedMeansStored, Holds, Full
<1> QED
  BY InitSaved, <1>1, <1>2, PTL DEF Spec

-----------------------------------------------------------------------------
(* What a field can hold. *)

Vals(f) ==
  CASE f = "login"  -> {"default", "own"}
    [] f = "psk"    -> {"", "k"}
    [] f = "topic"  -> {"", "t", "bad"}
    [] f = "prefix" -> {"p", "bad"}
    [] OTHER        -> BOOLEAN

IsBlock(b) == b = [f \in Fields |-> b[f]] /\ \A f \in Fields : b[f] \in Vals(f)

\* The fields are the rows of the page.
LEMMA FieldSet == Fields = {"login", "psk", "topic", "prefix", "ha", "qos"}
BY DEF Fields, Range, Rows

\* A block is a value for every field.
LEMMA BlockFacts == \A b : b \in Block <=> IsBlock(b)
<1> SUFFICES ASSUME NEW b PROVE b \in Block <=> IsBlock(b)
  OBVIOUS
<1>1. ASSUME b \in Block PROVE IsBlock(b)
  <2>1. b = [f \in Fields |-> b[f]]
    BY <1>1, FieldSet DEF Block
  <2>2. /\ b["login"] \in {"default", "own"} /\ b["psk"] \in {"", "k"}
        /\ b["topic"] \in {"", "t", "bad"} /\ b["prefix"] \in {"p", "bad"}
        /\ b["ha"] \in BOOLEAN /\ b["qos"] \in BOOLEAN
    BY <1>1 DEF Block, Topics
  <2>3. ASSUME NEW f \in Fields PROVE b[f] \in Vals(f)
    <3>1. CASE f \in {"login", "psk", "topic", "prefix"}
      BY <2>2, <3>1 DEF Vals
    <3>2. CASE f \in {"ha", "qos"}
      BY <2>2, <3>2 DEF Vals
    <3> QED  BY <3>1, <3>2, FieldSet
  <2> QED  BY <2>1, <2>3 DEF IsBlock
<1>2. ASSUME IsBlock(b) PROVE b \in Block
  <2>1. b = [login |-> b["login"], psk |-> b["psk"], topic |-> b["topic"],
             prefix |-> b["prefix"], ha |-> b["ha"], qos |-> b["qos"]]
    BY <1>2, FieldSet DEF IsBlock
  <2>2. /\ b["login"] \in {"default", "own"} /\ b["psk"] \in {"", "k"}
        /\ b["topic"] \in Topics \ {"long"} /\ b["prefix"] \in {"p", "bad"}
        /\ b["ha"] \in BOOLEAN /\ b["qos"] \in BOOLEAN
    BY <1>2, FieldSet DEF IsBlock, Vals, Topics
  <2> QED  BY <2>1, <2>2 DEF Block
<1> QED  BY <1>1, <1>2

\* The defaults are one.
LEMMA DefaultsFit == Defaults \in Block
BY DEF Defaults, Block, Topics

\* A staged value that its field can hold leaves a block.
LEMMA PutFits ==
    ASSUME NEW b \in Block, NEW f \in Fields, NEW v \in Vals(f)
    PROVE  [b EXCEPT ![f] = v] \in Block
BY BlockFacts DEF IsBlock

\* What the master can write to a field is what the field can hold.
LEMMA ContentsFit ==
    ASSUME NEW f \in Fields
    PROVE  {b[f] : b \in Block} = Vals(f)
<1>1. {b[f] : b \in Block} \subseteq Vals(f)
  BY BlockFacts DEF IsBlock
<1>2. ASSUME NEW v \in Vals(f) PROVE v \in {b[f] : b \in Block}
  <2>1. [Defaults EXCEPT ![f] = v] \in Block
    BY DefaultsFit, PutFits
  <2>2. f \in DOMAIN Defaults
    BY FieldSet DEF Defaults
  <2> QED  BY <2>1, <2>2
<1> QED  BY <1>1, <1>2

-----------------------------------------------------------------------------
(* The invariant of the three surfaces. *)

OnPanel == at \in {"panelStage", "panelApply"}

SettingsTyped ==
  /\ live \in Block /\ pending \in Block
  /\ \A k \in DOMAIN flash : k \in KeySet /\ flash[k] \in {KeyOf(b, k) : b \in Block}
  /\ page # NoPage => page \in Block
  /\ cuts \in Nat

\* The panel has read one bit and sets it over the word it read, which is the master's unless a
\* frame came since.
PanelFits ==
  /\ OnPanel => page = NoPage /\ work \in Flags \X BOOLEAN
  /\ at = "panelStage" =>
       /\ word \in [Flags -> BOOLEAN]
       /\ quiet => \A f \in Flags : word[f] = form.met[f]
  /\ at = "panelApply" /\ quiet =>
       \A f \in Flags : pending[f] = IF f = work[1] THEN work[2] ELSE form.met[f]

\* What a row of the form is sent with, and what its field should come to.
Row(f)    == <<f, Sent(f, form.edit)>>
Hidden    == <<"ha", FALSE>>
Target(f) == IF f \in DOMAIN form.edit THEN form.edit[f] ELSE form.met[f]

\* The rows still to do are rows of the page as the operator left it, the hidden companion of
\* a checked box before the box; what is done is staged, unless a row was refused or another
\* surface wrote.
FormFits ==
  /\ page # NoPage /\ quiet /\ at \in {"idle", "save"} => pending = live /\ page = live
  /\ at = "formStage" =>
       /\ page # NoPage
       /\ \A f \in DOMAIN form.edit : f \in Fields /\ form.edit[f] \in Typed(f)
       /\ work \in Seq({Row(f) : f \in Fields} \cup {Hidden})
       /\ \A i \in 1 .. Len(work) :
            /\ ~Malformed(work[i])
            /\ work[i] = Hidden => \E j \in i .. Len(work) : work[j] = Row("ha")
       /\ quiet =>
            /\ live = form.met /\ page = form.met /\ (~staged => pending = live)
            /\ \A f \in Secret \ DOMAIN form.edit : pending[f] = form.met[f]
            /\ ~bad => \A f \in Fields :
                 pending[f] = Target(f) \/ \E i \in 1 .. Len(work) : work[i] = Row(f)

\* The submission's result so far: after the apply, whether it changed something, and after the
\* clock row, whether it set the clock.
Applied == at \in {"formClock", "formAnswer"}

AnswerFits ==
  /\ clockSets \in Nat
  /\ at # "formAnswer" => ~externalWrites
  /\ at \in {"formStage", "formClock"} => form.sets = clockSets
  /\ at = "formAnswer" => (externalWrites <=> clockSets # form.sets)
  /\ Applied => page # NoPage
  /\ Applied /\ quiet =>
       /\ ~bad => \A f \in Fields : live[f] = Target(f)
       /\ live # form.met => committed
       /\ committed => live # form.met \/ residue

Surfaces == Saved /\ SettingsTyped /\ PanelFits /\ FormFits /\ AnswerFits

\* A boot brings back a block.
LEMMA RestoredFits ==
    ASSUME NEW keys, \A k \in DOMAIN keys : k \in KeySet /\ keys[k] \in {KeyOf(b, k) : b \in Block}
    PROVE  Restored(keys) \in Block
<1> DEFINE R == Restored(keys)
<1>1. R = [f \in Fields |-> R[f]]
  BY DEF Restored
<1>2. ASSUME NEW f \in Fields PROVE R[f] \in Vals(f)
  <2>1. Defaults[f] \in Vals(f)
    BY DefaultsFit, BlockFacts DEF IsBlock
  <2>2. CASE f \in Flags /\ "flags" \in DOMAIN keys
    <3>1. PICK b \in Block : keys["flags"] = KeyOf(b, "flags")
      BY <2>2
    <3>2. R[f] = b[f]
      BY <2>2, <3>1 DEF Restored, KeyOf, FlagsOf
    <3> QED  BY <3>1, <3>2, BlockFacts DEF IsBlock
  <2>3. CASE f \notin Flags /\ f \in DOMAIN keys
    <3>1. PICK b \in Block : keys[f] = KeyOf(b, f)
      BY <2>3
    <3>2. keys[f] = b[f]
      BY <2>3, <3>1, FieldSet DEF KeyOf, Flags
    <3>3. R[f] \in {b[f], Defaults[f]}
      BY <2>3, <3>2 DEF Restored
    <3> QED  BY <2>1, <3>1, <3>3, BlockFacts DEF IsBlock
  <2>4. CASE ~(f \in Flags /\ "flags" \in DOMAIN keys) /\ ~(f \notin Flags /\ f \in DOMAIN keys)
    <3>1. R[f] = Defaults[f]
      BY <2>4 DEF Restored
    <3> QED  BY <2>1, <3>1
  <2> QED  BY <2>2, <2>3, <2>4
<1> HIDE DEF R
<1>3. IsBlock(R)
  BY <1>1, <1>2 DEF IsBlock
<1> QED  BY <1>3, BlockFacts DEF R

\* An apply makes the staged settings live, but for a field it leaves as it was.
LEMMA ApplyFits ==
    ASSUME live \in Block, pending \in Block, applyWrite
    PROVE  /\ live' \in Block /\ pending' = pending
           /\ \A f \in Flags : live'[f] = pending[f]
<1>1. CASE apply
  BY <1>1 DEF apply, Promote
<1>2. ASSUME NEW skip \in {"topic", "prefix"}, applyExcept(skip)
      PROVE  /\ live' \in Block /\ pending' = pending
             /\ \A f \in Flags : live'[f] = pending[f]
  <2>1. live' = [pending EXCEPT ![skip] = live[skip]] /\ pending' = pending
    BY <1>2 DEF applyExcept, Promote
  <2>2. skip \in Fields /\ live[skip] \in Vals(skip)
    BY FieldSet, BlockFacts DEF IsBlock
  <2>3. live' \in Block
    BY <2>1, <2>2, PutFits
  <2>4. \A f \in Flags : live'[f] = pending[f]
    BY <2>1, FieldSet, BlockFacts DEF IsBlock, Flags
  <2> QED  BY <2>1, <2>3, <2>4
<1> QED  BY <1>1, <1>2 DEF applyWrite

\* One more at the end.
LEMMA OneMore ==
    ASSUME NEW S, NEW s \in Seq(S), NEW x \in S
    PROVE  /\ s \o <<x>> \in Seq(S) /\ Len(s \o <<x>>) = Len(s) + 1
           /\ (s \o <<x>>)[Len(s) + 1] = x
           /\ \A i \in 1 .. Len(s) : (s \o <<x>>)[i] = s[i]
OBVIOUS

\* Two at the end are one and then another.
LEMMA TwoMore ==
    ASSUME NEW S, NEW s \in Seq(S), NEW x \in S, NEW y \in S
    PROVE  s \o <<x, y>> = (s \o <<x>>) \o <<y>>
<1>1. s \o <<x, y>> \in Seq(S) /\ Len(s \o <<x, y>>) = Len(s) + 2
  OBVIOUS
<1>2. (s \o <<x>>) \o <<y>> \in Seq(S) /\ Len((s \o <<x>>) \o <<y>>) = Len(s) + 2
  BY OneMore
<1>3. ASSUME NEW i \in 1 .. Len(s) + 2 PROVE (s \o <<x, y>>)[i] = ((s \o <<x>>) \o <<y>>)[i]
  <2>1. CASE i <= Len(s)
    BY <2>1, OneMore
  <2>2. CASE i = Len(s) + 1
    BY <2>2, OneMore
  <2>3. CASE i = Len(s) + 2
    BY <2>3, OneMore
  <2> QED  BY <2>1, <2>2, <2>3
<1> QED  BY <1>1, <1>2, <1>3, SeqEqual

\* The rows of a submission: every field's, with the hidden companion before its box.
LEMMA BodyFacts ==
    ASSUME NEW edit, page \in Block,
           \A f \in DOMAIN edit : f \in Fields /\ edit[f] \in Typed(f)
    PROVE  LET P(f) == <<f, Sent(f, edit)>> IN
           /\ Body(edit) \in Seq({P(f) : f \in Fields} \cup {Hidden})
           /\ \A f \in Fields : \E i \in 1 .. Len(Body(edit)) : Body(edit)[i] = P(f)
           /\ \A i \in 1 .. Len(Body(edit)) : Body(edit)[i] = Hidden =>
                \E j \in i .. Len(Body(edit)) : Body(edit)[j] = P("ha")
<1> DEFINE P(f) == <<f, Sent(f, edit)>>
<1>1. \A f \in Fields \ {"ha"} : Posted(f, edit) = <<P(f)>>
  BY DEF Posted
<1>2. Sent("ha", edit) \in BOOLEAN
  <2>1. page["ha"] \in BOOLEAN /\ ("ha" \in DOMAIN edit => edit["ha"] \in BOOLEAN)
    BY FieldSet, BlockFacts DEF IsBlock, Vals, Typed
  <2> QED  BY <2>1 DEF Sent, Secret
<1> DEFINE S  == {P(f) : f \in Fields} \cup {Hidden}
           b1 == <<P("login")>>
           b2 == b1 \o <<P("psk")>>
           b3 == b2 \o <<P("topic")>>
           b4 == b3 \o <<P("prefix")>>
           b5 == IF Sent("ha", edit) THEN b4 \o <<Hidden>> ELSE b4
           b6 == b5 \o <<P("ha")>>
           b7 == b6 \o <<P("qos")>>
           n  == Len(b5)
<1>3. Hidden \in S /\ \A f \in Fields : P(f) \in S
  OBVIOUS
<1>4. \A f \in {"login", "psk", "topic", "prefix", "ha", "qos"} : P(f) \in S
  BY <1>3, FieldSet
<1>5. P("qos") # Hidden
  BY DEF Hidden
<1>6. Posted("ha", edit) = IF Sent("ha", edit) THEN <<Hidden, P("ha")>> ELSE <<P("ha")>>
  BY <1>2 DEF Posted, Hidden
<1>7. Body(edit) = b1 \o <<P("psk")>> \o <<P("topic")>> \o <<P("prefix")>> \o Posted("ha", edit)
                   \o <<P("qos")>>
  BY <1>1, FieldSet DEF Body
<1> HIDE DEF P, S
<1>8. b1 \in Seq(S) /\ Len(b1) = 1 /\ b1[1] = P("login")
  BY <1>4
<1>9. b2 \in Seq(S) /\ Len(b2) = 2 /\ b2[1] = P("login") /\ b2[2] = P("psk")
  BY <1>4, <1>8, OneMore
<1>10. b3 \in Seq(S) /\ Len(b3) = 3 /\ b3[1] = P("login") /\ b3[2] = P("psk")
       /\ b3[3] = P("topic")
  BY <1>4, <1>9, OneMore
<1>11. b4 \in Seq(S) /\ Len(b4) = 4 /\ b4[1] = P("login") /\ b4[2] = P("psk")
       /\ b4[3] = P("topic") /\ b4[4] = P("prefix")
  BY <1>4, <1>10, OneMore
<1>12. b4 \o Posted("ha", edit) = b6
  <2>1. CASE Sent("ha", edit)
    <3>1. Posted("ha", edit) = <<Hidden, P("ha")>> /\ b6 = b4 \o <<Hidden>> \o <<P("ha")>>
      BY <1>6, <2>1
    <3> HIDE DEF b4, b6
    <3>2. b4 \o <<Hidden, P("ha")>> = b4 \o <<Hidden>> \o <<P("ha")>>
      BY <1>3, <1>4, <1>11, TwoMore
    <3> QED  BY <3>1, <3>2
  <2>2. CASE ~Sent("ha", edit)
    BY <1>6, <2>2
  <2> QED  BY <2>1, <2>2
<1>13. Body(edit) = b7
  BY <1>7, <1>12
<1>14. b5 \in Seq(S) /\ n \in 4 .. 5 /\ \A i \in 1 .. 4 : b5[i] = b4[i]
  <2>1. /\ b4 \o <<Hidden>> \in Seq(S) /\ Len(b4 \o <<Hidden>>) = 5
        /\ \A i \in 1 .. 4 : (b4 \o <<Hidden>>)[i] = b4[i]
    BY <1>3, <1>11, OneMore
  <2>2. b5 = b4 \o <<Hidden>> \/ b5 = b4
    OBVIOUS
  <2> HIDE DEF b5, b4
  <2>3. CASE b5 = b4 \o <<Hidden>>
    BY <2>1, <2>3
  <2>4. CASE b5 = b4
    BY <1>11, <2>4
  <2> QED  BY <2>2, <2>3, <2>4
<1> HIDE DEF b4, b5, n
<1>15. b6 \in Seq(S) /\ Len(b6) = n + 1 /\ b6[n + 1] = P("ha") /\ \A i \in 1 .. 4 : b6[i] = b4[i]
  BY <1>4, <1>14, OneMore DEF n
<1> HIDE DEF b6
<1>16. b7 \in Seq(S) /\ Len(b7) = n + 2 /\ b7[n + 2] = P("qos") /\ b7[n + 1] = P("ha")
       /\ \A i \in 1 .. 4 : b7[i] = b4[i]
  BY <1>4, <1>14, <1>15, OneMore
<1> HIDE DEF b7
<1>17. \A f \in Fields : \E i \in 1 .. Len(b7) : b7[i] = P(f)
  BY <1>11, <1>14, <1>16, FieldSet
<1>18. \A i \in 1 .. Len(b7) : b7[i] = Hidden => \E j \in i .. Len(b7) : b7[j] = P("ha")
  <2> SUFFICES ASSUME NEW i \in 1 .. Len(b7), b7[i] = Hidden
               PROVE  \E j \in i .. Len(b7) : b7[j] = P("ha")
    OBVIOUS
  <2>1. i # n + 2
    BY <1>5, <1>16
  <2>2. n + 1 \in i .. Len(b7)
    BY <1>14, <1>16, <2>1
  <2> QED  BY <1>16, <2>2
<1> QED  BY <1>13, <1>16, <1>17, <1>18 DEF P, S

\* A row still to do names a field, and what it is sent with the field can hold.
LEMMA RowFits ==
    ASSUME SettingsTyped, FormFits, at = "formStage", NEW i \in 1 .. Len(work)
    PROVE  LET pair == work[i] IN
           /\ pair[1] \in Fields /\ pair = <<pair[1], pair[2]>>
           /\ ~LeftAlone(pair) => pair[2] \in Vals(pair[1])
<1> DEFINE pair == work[i]
<1>1. pair \in {Row(f) : f \in Fields} \cup {Hidden} /\ ~Malformed(pair)
  BY DEF FormFits
<1>2. page \in Block /\ \A f \in DOMAIN form.edit : f \in Fields /\ form.edit[f] \in Typed(f)
  BY DEF FormFits, SettingsTyped
<1> HIDE DEF pair
<1>3. CASE pair = Hidden
  <2>1. pair = <<"ha", FALSE>> /\ pair[1] = "ha" /\ pair[2] = FALSE
    BY <1>3 DEF Hidden
  <2>2. "ha" \in Fields /\ FALSE \in Vals("ha")
    BY FieldSet DEF Vals
  <2>3. pair[2] \in Vals(pair[1])
    BY <2>1, <2>2, Zenon
  <2>4. pair[1] \in Fields /\ pair = <<pair[1], pair[2]>>
    BY <2>1, <2>2
  <2> QED  BY <2>3, <2>4 DEF pair
<1>4. ASSUME NEW f \in Fields, pair = Row(f)
      PROVE  /\ pair[1] \in Fields /\ pair = <<pair[1], pair[2]>>
             /\ ~LeftAlone(pair) => pair[2] \in Vals(pair[1])
  <2>1. pair[1] = f /\ pair[2] = Sent(f, form.edit) /\ pair = <<f, pair[2]>>
    BY <1>4 DEF Row
  <2>2. CASE f \in DOMAIN form.edit
    <3>1. pair[2] \in Typed(f) /\ pair # <<"topic", "long">>
      BY <1>1, <1>2, <2>1, <2>2 DEF Sent, Malformed
    <3>2. f = "topic" => pair[2] # "long"
      BY <2>1, <3>1
    <3>3. pair[2] \in Vals(f)
      BY <3>1, <3>2, FieldSet DEF Typed, Vals
    <3> QED  BY <2>1, <3>3
  <2>3. CASE f \notin DOMAIN form.edit /\ f \in Secret
    BY <2>1, <2>3 DEF Sent, LeftAlone
  <2>4. CASE f \notin DOMAIN form.edit /\ f \notin Secret
    <3>1. pair[2] = page[f] /\ page[f] \in Vals(f)
      BY <1>2, <2>1, <2>4, BlockFacts DEF Sent, IsBlock
    <3> QED  BY <2>1, <3>1
  <2> QED  BY <2>2, <2>3, <2>4
<1> QED  BY <1>1, <1>3, <1>4 DEF pair

\* Every surface leaves every field with a value it can hold, and a boot brings back a block.
LEMMA NextTyped == ASSUME Surfaces, [Next]_netVars PROVE SettingsTyped'
<1> USE DEF SettingsTyped
<1>0. SettingsTyped /\ FormFits /\ PanelFits /\ SaveFits
  BY DEF Surfaces, Saved
<1>a. ASSUME live' \in Block, pending' \in Block, UNCHANGED <<flash, cuts>>,
             page' \in {page, NoPage}
      PROVE  SettingsTyped'
  BY <1>0, <1>a
<1>1. CASE BusStage
  <2>1. /\ live' = live /\ UNCHANGED <<flash, cuts, page>>
        /\ \/ \E f \in Fields \ Flags : \E v \in {b[f] : b \in Block} :
                 pending' = [pending EXCEPT ![f] = v]
           \/ \E ha, qos \in BOOLEAN : pending' = [pending EXCEPT !.ha = ha, !.qos = qos]
    BY <1>1 DEF BusStage, Frame, browser
  <2>2. ASSUME NEW f \in Fields \ Flags, NEW v \in {b[f] : b \in Block},
               pending' = [pending EXCEPT ![f] = v]
        PROVE  pending' \in Block
    BY <1>0, <2>2, PutFits, ContentsFit
  <2>3. ASSUME NEW ha \in BOOLEAN, NEW qos \in BOOLEAN,
               pending' = [pending EXCEPT !.ha = ha, !.qos = qos]
        PROVE  pending' \in Block
    <3>1. [pending EXCEPT !["ha"] = ha] \in Block
      BY <1>0, PutFits, FieldSet DEF Vals
    <3>2. [[pending EXCEPT !["ha"] = ha] EXCEPT !["qos"] = qos] \in Block
      BY <3>1, PutFits, FieldSet DEF Vals
    <3> QED  BY <2>3, <3>2
  <2> QED  BY <1>0, <2>1, <2>2, <2>3, <1>a
<1>2. CASE BusApply
  BY <1>0, <1>2, <1>a, ApplyFits DEF BusApply, Frame, browser
<1>3. CASE BusPortalReset
  <2>1. live' = [live EXCEPT !["login"] = "default"] /\ pending' = [pending EXCEPT !["login"] = "default"]
        /\ UNCHANGED <<flash, cuts, page>>
    BY <1>3 DEF BusPortalReset, resetPortalCredentials, Frame, browser
  <2>2. "login" \in Fields /\ "default" \in Vals("login")
    BY FieldSet DEF Vals
  <2> QED  BY <1>0, <2>1, <2>2, <1>a, PutFits
<1>4. CASE PanelRead \/ Submit
  BY <1>0, <1>4, <1>a DEF PanelRead, Submit, config, saving
<1>5. CASE PanelStage
  <2> DEFINE flags == [word EXCEPT ![work[1]] = work[2]]
  <2>1. /\ at = "panelStage" /\ live' = live /\ UNCHANGED <<flash, cuts, page>>
        /\ pending' = [f \in Fields |-> IF f \in Flags THEN flags[f] ELSE pending[f]]
    BY <1>5 DEF PanelStage, saving, browser, budgets
  <2>2. word \in [Flags -> BOOLEAN] /\ work[2] \in BOOLEAN
    BY <1>0, <2>1 DEF PanelFits, OnPanel
  <2>3. \A f \in Flags : flags[f] \in BOOLEAN /\ Vals(f) = BOOLEAN
    BY <2>2 DEF Flags, Vals
  <2> HIDE DEF flags
  <2>4. IsBlock(pending')
    BY <1>0, <2>1, <2>3, BlockFacts DEF IsBlock
  <2> QED  BY <1>0, <2>1, <2>4, <1>a, BlockFacts
<1>6. CASE PanelApply
  BY <1>0, <1>6, <1>a, ApplyFits DEF PanelApply, saving, budgets
<1>7. CASE RenderPage
  BY <1>0, <1>7 DEF RenderPage, config, saving, budgets
<1>8. CASE FormStage
  <2>1. /\ at = "formStage" /\ work # <<>> /\ live' = live /\ UNCHANGED <<flash, cuts, page>>
        /\ \/ pending' = pending
           \/ ~LeftAlone(Head(work)) /\ pending' = stage(pending, Head(work)[1], Head(work)[2])
    BY <1>8 DEF FormStage, saving, browser, budgets
  <2>2. 1 \in 1 .. Len(work) /\ Head(work) = work[1]
    BY <1>0, <2>1 DEF FormFits
  <2>3. pending' \in Block
    BY <1>0, <2>1, <2>2, RowFits, PutFits DEF stage
  <2> QED  BY <1>0, <2>1, <2>3, <1>a
<1>9. CASE FormApply
  <2>1. live' \in {live, pending} /\ pending' = pending /\ UNCHANGED <<flash, cuts, page>>
    BY <1>9 DEF FormApply, apply, Promote, config, saving, browser, budgets
  <2> QED  BY <1>0, <2>1, <1>a
<1>10. CASE StartSave \/ EndSave \/ RetryDue
  BY <1>0, <1>10, <1>a DEF StartSave, EndSave, RetryDue, config, browser, budgets
<1>11. CASE SaveKey
  <2>1. at = "save" /\ work # <<>> /\ UNCHANGED <<live, pending, cuts, page>>
    BY <1>11 DEF SaveKey, config, browser
  <2>2. Head(work) \in KeySet
    BY <1>0, <2>1 DEF SaveFits
  <2>3. CASE flash' = flash
    BY <1>0, <2>1, <2>3, <1>a
  <2>4. CASE flash' = Put(flash, Head(work), KeyOf(live, Head(work)))
    <3>1. \A k \in DOMAIN flash' :
            k \in DOMAIN flash \cup {Head(work)}
            /\ flash'[k] = IF k = Head(work) THEN KeyOf(live, k) ELSE flash[k]
      BY <2>4 DEF Put
    <3> QED  BY <1>0, <2>1, <2>2, <3>1
  <2> QED  BY <1>11, <2>3, <2>4 DEF SaveKey
<1>12. CASE FactoryReset
  <2>1. UNCHANGED <<live, pending, cuts, page>> /\ DOMAIN flash' = {}
    BY <1>12 DEF FactoryReset, config, browser, budgets, Erased
  <2> QED  BY <1>0, <2>1
<1>13. CASE Boot
  <2>1. /\ live' = Restored(flash) /\ pending' = Restored(flash) /\ flash' = flash
        /\ page' = NoPage /\ cuts' = cuts + 1
    BY <1>13 DEF Boot
  <2>2. Restored(flash) \in Block
    BY <1>0, RestoredFits
  <2> QED  BY <1>0, <2>1, <2>2
<1>14. CASE UNCHANGED netVars
  BY <1>0, <1>14, <1>a DEF netVars, config, saving, browser, budgets
<1>15. CASE FormClock \/ FormAnswer
  BY <1>0, <1>15, <1>a DEF FormClock, FormAnswer, config, saving, browser, budgets
<1> QED
  BY <1>1, <1>2, <1>3, <1>4, <1>5, <1>6, <1>7, <1>8, <1>9, <1>10, <1>11, <1>12, <1>13, <1>14, <1>15
     DEF Next

\* The bit the panel edits stays the only one that differs from the word it read.
LEMMA NextPanel == ASSUME Surfaces, [Next]_netVars PROVE PanelFits'
<1> USE DEF OnPanel
<1>0. SettingsTyped /\ PanelFits
  BY DEF Surfaces
<1>a. ASSUME at' \notin {"panelStage", "panelApply"} PROVE PanelFits'
  BY <1>a DEF PanelFits
<1>b. ASSUME UNCHANGED <<at, page, work, word, form, quiet, pending>> PROVE PanelFits'
  BY <1>0, <1>b DEF PanelFits
<1>1. CASE BusStage \/ BusApply \/ BusPortalReset
  <2>1. UNCHANGED <<at, work, word, form, page>> /\ (OnPanel => quiet' = FALSE)
    BY <1>1 DEF BusStage, BusApply, BusPortalReset, Frame, logic, browser
  <2> QED  BY <1>0, <2>1 DEF PanelFits
<1>2. CASE PanelRead
  <2>1. /\ at' = "panelStage" /\ page' = NoPage /\ work' \in Flags \X BOOLEAN
        /\ word' = [f \in Flags |-> pending[f]] /\ form'.met = pending
    BY <1>2 DEF PanelRead, Idle, mqttFlagsStaged, FlagsOf
  <2>2. word' \in [Flags -> BOOLEAN]
    <3>1. \A f \in Flags : pending[f] \in BOOLEAN
      BY <1>0, BlockFacts, FieldSet DEF SettingsTyped, IsBlock, Vals, Flags
    <3> QED  BY <2>1, <3>1
  <2> QED  BY <2>1, <2>2 DEF PanelFits
<1>3. CASE PanelStage
  <2> DEFINE flags == [word EXCEPT ![work[1]] = work[2]]
  <2>1. /\ at = "panelStage" /\ at' = "panelApply" /\ UNCHANGED <<work, form, page, quiet>>
        /\ pending' = [f \in Fields |-> IF f \in Flags THEN flags[f] ELSE pending[f]]
    BY <1>3 DEF PanelStage, browser
  <2>2. word \in [Flags -> BOOLEAN] /\ page = NoPage /\ work \in Flags \X BOOLEAN
        /\ (quiet => \A f \in Flags : word[f] = form.met[f])
    BY <1>0, <2>1 DEF PanelFits
  <2>3. \A f \in Flags : flags[f] = IF f = work[1] THEN work[2] ELSE word[f]
    BY <2>2
  <2> HIDE DEF flags
  <2>4. \A f \in Flags : pending'[f] = flags[f]
    BY <2>1, FieldSet DEF Flags
  <2> QED  BY <2>1, <2>2, <2>3, <2>4 DEF PanelFits
<1>4. CASE PanelApply \/ FormStage \/ FormApply \/ FormClock \/ FormAnswer
           \/ StartSave \/ SaveKey \/ EndSave \/ Boot
  BY <1>4, <1>a DEF PanelApply, FormStage, FormApply, FormClock, FormAnswer, StartSave,
                    Idle, SaveKey, EndSave, Boot
<1>5. CASE RenderPage \/ RetryDue \/ FactoryReset
  BY <1>5, <1>a DEF RenderPage, Idle, RetryDue, FactoryReset, logic
<1>6. CASE UNCHANGED netVars
  BY <1>6, <1>b DEF netVars, config, logic, browser
<1>7. CASE Submit
  <2>1. at' \in {"idle", "formStage"}
    BY <1>7 DEF Submit, SubmitRefused, SubmitStages, logic
  <2> QED  BY <2>1, <1>a
<1> QED  BY <1>1, <1>2, <1>3, <1>4, <1>5, <1>6, <1>7 DEF Next

\* The form's rows reach the staged settings one by one, and only they, as long as no other
\* surface writes.
LEMMA NextForm == ASSUME Surfaces, [Next]_netVars PROVE FormFits'
<1> USE DEF FormFits
<1>0. SettingsTyped /\ PanelFits /\ FormFits
  BY DEF Surfaces
<1>a. ASSUME UNCHANGED <<live, pending, page, form, quiet>>, at \in {"idle", "save"},
             at' \in {"idle", "save"}
      PROVE  FormFits'
  BY <1>0, <1>a
<1>b. ASSUME at' # "formStage", page' = NoPage \/ at' \notin {"idle", "save"} PROVE FormFits'
  BY <1>b
<1>1. CASE BusStage \/ BusApply \/ BusPortalReset
  <2>1. UNCHANGED <<at, work, form, page>> /\ (page # NoPage => quiet' = FALSE)
    BY <1>1 DEF BusStage, BusApply, BusPortalReset, Frame, logic, browser
  <2>2. at = "formStage" => \A i \in 1 .. Len(work) :
          /\ ~Malformed(work[i])
          /\ work[i] = Hidden => \E j \in i .. Len(work) : work[j] = Row("ha")
    BY <1>0
  <2>3. \A f \in Fields : Row(f)' = Row(f)
    BY <2>1 DEF Row, Sent
  <2>4. {Row(f)' : f \in Fields} = {Row(f) : f \in Fields} /\ Hidden' = Hidden /\ Row("ha")' = Row("ha")
    BY <2>3, FieldSet DEF Hidden
  <2>5. at = "formStage" => page # NoPage /\ work \in Seq({Row(f) : f \in Fields} \cup {Hidden})
          /\ \A f \in DOMAIN form.edit : f \in Fields /\ form.edit[f] \in Typed(f)
    BY <1>0
  <2>6. at' = "formStage" => work' \in Seq({Row(f)' : f \in Fields} \cup {Hidden'})
    BY <2>1, <2>4, <2>5
  <2> QED  BY <2>1, <2>2, <2>4, <2>5, <2>6 DEF Malformed
<1>2. CASE PanelRead \/ Boot
  BY <1>2, <1>b DEF PanelRead, Idle, Boot
<1>3. CASE PanelStage \/ PanelApply
  <2>1. at' # "formStage" /\ page' = page /\ page = NoPage
    BY <1>0, <1>3 DEF PanelStage, PanelApply, browser, PanelFits, OnPanel
  <2> QED  BY <2>1, <1>b
<1>4. CASE RenderPage
  BY <1>4 DEF RenderPage, Idle, config
<1>5. CASE StartSave \/ SaveKey \/ EndSave \/ RetryDue \/ FactoryReset
  BY <1>5, <1>a DEF StartSave, Idle, SaveKey, EndSave, RetryDue, FactoryReset, config, browser, logic
<1>6. CASE Submit
  <2>1. /\ at = "idle" /\ page # NoPage /\ UNCHANGED <<live, pending, page, quiet>>
        /\ quiet => pending = live /\ page = live
    BY <1>0, <1>6 DEF Submit, config
  <2>a. PICK r \in Fields, s \in Fields : \E clock \in ClockRow : \E v \in Typed(r), w \in Typed(s) :
          LET edit == [f \in {r, s} |-> IF f = r THEN v ELSE w]
          IN \/ SubmitRefused(Body(edit), clock)
             \/ /\ SubmitStages(Body(edit), clock)
                /\ form' = [edit |-> edit, clock |-> clock, met |-> live, sets |-> clockSets]
    BY <1>6 DEF Submit
  <2>b. PICK clock \in ClockRow : \E v \in Typed(r), w \in Typed(s) :
          LET edit == [f \in {r, s} |-> IF f = r THEN v ELSE w]
          IN \/ SubmitRefused(Body(edit), clock)
             \/ /\ SubmitStages(Body(edit), clock)
                /\ form' = [edit |-> edit, clock |-> clock, met |-> live, sets |-> clockSets]
    BY <2>a
  <2>2. PICK v \in Typed(r), w \in Typed(s) :
          LET edit == [f \in {r, s} |-> IF f = r THEN v ELSE w]
          IN \/ SubmitRefused(Body(edit), clock)
             \/ /\ SubmitStages(Body(edit), clock)
                /\ form' = [edit |-> edit, clock |-> clock, met |-> live, sets |-> clockSets]
    BY <2>b
  <2> DEFINE edit == [f \in {r, s} |-> IF f = r THEN v ELSE w]
  <2>3. CASE SubmitRefused(Body(edit), clock)
    BY <2>1, <2>3, <1>a DEF SubmitRefused, logic
  <2>4. CASE /\ SubmitStages(Body(edit), clock)
             /\ form' = [edit |-> edit, clock |-> clock, met |-> live, sets |-> clockSets]
    <3>1. \A f \in DOMAIN edit : f \in Fields /\ edit[f] \in Typed(f)
      OBVIOUS
    <3> HIDE DEF edit
    <3>2. /\ at' = "formStage" /\ work' = Body(edit) /\ form'.edit = edit /\ form'.met = live
          /\ \A i \in DOMAIN Body(edit) : ~Malformed(Body(edit)[i])
      BY <2>4 DEF SubmitStages
    <3>3. \A f \in Fields : Row(f)' = <<f, Sent(f, edit)>>
      BY <2>1, <3>2 DEF Row, Sent
    <3>4. page \in Block
      BY <1>0, <2>1 DEF SettingsTyped
    <3>5. /\ work' \in Seq({Row(f)' : f \in Fields} \cup {Hidden})
          /\ \A f \in Fields : \E i \in 1 .. Len(work') : work'[i] = Row(f)'
          /\ \A i \in 1 .. Len(work') : work'[i] = Hidden =>
               \E j \in i .. Len(work') : work'[j] = Row("ha")'
      <4>1. /\ Body(edit) \in Seq({<<f, Sent(f, edit)>> : f \in Fields} \cup {Hidden})
            /\ \A f \in Fields : \E i \in 1 .. Len(Body(edit)) : Body(edit)[i] = <<f, Sent(f, edit)>>
            /\ \A i \in 1 .. Len(Body(edit)) : Body(edit)[i] = Hidden =>
                 \E j \in i .. Len(Body(edit)) : Body(edit)[j] = <<"ha", Sent("ha", edit)>>
        BY <3>1, <3>4, BodyFacts
      <4>2. {<<f, Sent(f, edit)>> : f \in Fields} = {Row(f)' : f \in Fields}
        BY <3>3
      <4>3. "ha" \in Fields
        BY FieldSet
      <4> QED  BY <3>2, <3>3, <4>1, <4>2, <4>3
    <3>6. \A i \in 1 .. Len(work') : ~Malformed(work'[i])
      BY <3>2, <3>5
    <3>7. quiet' => /\ live' = form'.met /\ page' = form'.met /\ pending' = live'
                    /\ \A f \in Fields : pending'[f] = form'.met[f]
      BY <2>1, <3>2
    <3> QED  BY <2>1, <3>1, <3>2, <3>5, <3>6, <3>7, FieldSet DEF Hidden, Malformed, Secret
  <2> QED  BY <2>2, <2>3, <2>4
<1>7. CASE FormApply \/ FormClock \/ FormAnswer
  BY <1>7, <1>b DEF FormApply, FormClock, FormAnswer
<1>8. CASE UNCHANGED netVars
  <2>1. UNCHANGED <<live, pending, page, form, quiet, at, work, staged, bad>>
    BY <1>8 DEF netVars, config, browser, logic
  <2>2. \A f \in Fields : Row(f)' = Row(f) /\ Target(f)' = Target(f)
    BY <2>1 DEF Row, Sent, Target
  <2>3. {Row(f)' : f \in Fields} = {Row(f) : f \in Fields} /\ Hidden' = Hidden /\ Row("ha")' = Row("ha")
    BY <2>2, FieldSet DEF Hidden
  <2>4. at = "formStage" => work \in Seq({Row(f) : f \in Fields} \cup {Hidden})
    BY <1>0
  <2>5. at' = "formStage" => work' \in Seq({Row(f)' : f \in Fields} \cup {Hidden'})
    BY <2>1, <2>3, <2>4
  <2>6. page' # NoPage /\ quiet' /\ at' \in {"idle", "save"} => pending' = live' /\ page' = live'
    BY <1>0, <2>1
  <2>7. at' = "formStage" =>
          /\ page' # NoPage
          /\ \A f \in DOMAIN form'.edit : f \in Fields /\ form'.edit[f] \in Typed(f)
          /\ \A i \in 1 .. Len(work') : ~Malformed(work'[i])
               /\ (work'[i] = Hidden' => \E j \in i .. Len(work') : work'[j] = Row("ha")')
    BY <1>0, <2>1, <2>3
  <2>8. at' = "formStage" /\ quiet' =>
          /\ live' = form'.met /\ page' = form'.met /\ (~staged' => pending' = live')
          /\ \A f \in Secret \ DOMAIN form'.edit : pending'[f] = form'.met[f]
          /\ ~bad' => \A f \in Fields :
               pending'[f] = Target(f)' \/ \E i \in 1 .. Len(work') : work'[i] = Row(f)'
    BY <1>0, <2>1, <2>2
  <2> QED  BY <2>5, <2>6, <2>7, <2>8 DEF Malformed
<1>9. CASE FormStage
  <2> DEFINE pair == Head(work)
             S    == {Row(f) : f \in Fields} \cup {Hidden}
  <2>1. /\ at = "formStage" /\ at' = at /\ work # <<>> /\ work' = Tail(work)
        /\ UNCHANGED <<live, page, form, quiet>>
        /\ \/ LeftAlone(pair) /\ UNCHANGED <<pending, bad, staged>>
           \/ /\ ~LeftAlone(pair)
              /\ pending' = stage(pending, pair[1], pair[2])
              /\ bad' = (bad \/ ~Committable(pair[1], pair[2]))
              /\ staged' = (staged \/ Committable(pair[1], pair[2]))
    BY <1>9 DEF FormStage, browser
  <2>2. /\ page # NoPage /\ work \in Seq(S)
        /\ \A f \in DOMAIN form.edit : f \in Fields /\ form.edit[f] \in Typed(f)
        /\ \A i \in 1 .. Len(work) :
             ~Malformed(work[i]) /\ (work[i] = Hidden => \E j \in i .. Len(work) : work[j] = Row("ha"))
    BY <1>0, <2>1
  <2>3. /\ pair = work[1] /\ 1 \in 1 .. Len(work) /\ pair \in S
        /\ work' \in Seq(S) /\ Len(work') = Len(work) - 1
        /\ \A i \in 1 .. Len(work') : work'[i] = work[i + 1] /\ i + 1 \in 1 .. Len(work)
    BY <2>1, <2>2
  <2>4. /\ pair[1] \in Fields /\ pair = <<pair[1], pair[2]>>
        /\ ~LeftAlone(pair) => pair[2] \in Vals(pair[1])
    BY <1>0, <2>1, <2>3, RowFits
  <2>5. \A f \in Fields : Row(f)' = Row(f) /\ Target(f)' = Target(f)
    BY <2>1 DEF Row, Sent, Target
  <2> HIDE DEF S, pair
  <2>6. \A i \in 1 .. Len(work') :
          ~Malformed(work'[i]) /\ (work'[i] = Hidden => \E j \in i .. Len(work') : work'[j] = Row("ha"))
    <3> SUFFICES ASSUME NEW i \in 1 .. Len(work')
                 PROVE  /\ ~Malformed(work'[i])
                        /\ work'[i] = Hidden => \E j \in i .. Len(work') : work'[j] = Row("ha")
      OBVIOUS
    <3>1. i + 1 \in 1 .. Len(work) /\ work'[i] = work[i + 1]
      BY <2>3
    <3>2. ASSUME work[i + 1] = Hidden PROVE \E j \in i .. Len(work') : work'[j] = Row("ha")
      <4>1. PICK j \in i + 1 .. Len(work) : work[j] = Row("ha")
        BY <2>2, <3>1, <3>2
      <4>2. j - 1 \in i .. Len(work') /\ work'[j - 1] = Row("ha")
        BY <2>3, <4>1
      <4> QED  BY <4>2
    <3> QED  BY <2>2, <3>1, <3>2
  <2>7. ASSUME quiet
        PROVE  /\ live = form.met /\ page = form.met /\ (~staged' => pending' = live)
               /\ \A f \in Secret \ DOMAIN form.edit : pending'[f] = form.met[f]
               /\ ~bad' => \A f \in Fields :
                    pending'[f] = Target(f) \/ \E i \in 1 .. Len(work') : work'[i] = Row(f)
    <3>1. /\ live = form.met /\ page = form.met /\ (~staged => pending = live)
          /\ \A f \in Secret \ DOMAIN form.edit : pending[f] = form.met[f]
          /\ ~bad => \A f \in Fields :
               pending[f] = Target(f) \/ \E i \in 1 .. Len(work) : work[i] = Row(f)
      BY <1>0, <2>1, <2>7
    <3>2. \A f \in Fields : (\E i \in 1 .. Len(work) : work[i] = Row(f)) =>
             pair = Row(f) \/ \E i \in 1 .. Len(work') : work'[i] = Row(f)
      <4> SUFFICES ASSUME NEW f \in Fields, NEW i \in 1 .. Len(work), work[i] = Row(f), pair # Row(f)
                   PROVE  \E k \in 1 .. Len(work') : work'[k] = Row(f)
        OBVIOUS
      <4>1. i - 1 \in 1 .. Len(work') /\ work'[i - 1] = work[i]
        BY <2>3
      <4> QED  BY <4>1
    <3>3. CASE LeftAlone(pair)
      <4>1. pair[1] \in Secret /\ pair[2] = "" /\ UNCHANGED <<pending, bad, staged>>
        BY <2>1, <3>3 DEF LeftAlone
      <4>2. ASSUME NEW f \in Fields, pair = Row(f) PROVE pending[f] = Target(f)
        <5>1. f \in Secret /\ Sent(f, form.edit) = ""
          BY <4>1, <4>2 DEF Row
        <5>2. f \notin DOMAIN form.edit
          BY <2>2, <5>1 DEF Sent, Typed, Secret
        <5> QED  BY <3>1, <5>1, <5>2 DEF Target
      <4> QED  BY <3>1, <3>2, <4>1, <4>2
    <3>4. CASE ~LeftAlone(pair) /\ ~Committable(pair[1], pair[2])
      <4>1. pending' = pending /\ bad' = TRUE /\ (~staged' => ~staged)
        BY <2>1, <3>4 DEF stage
      <4> QED  BY <3>1, <4>1
    <3>5. CASE ~LeftAlone(pair) /\ Committable(pair[1], pair[2])
      <4>1. pending' = [pending EXCEPT ![pair[1]] = pair[2]] /\ staged' = TRUE /\ (~bad' => ~bad)
        BY <2>1, <3>5 DEF stage
      <4>2. \A f \in Fields : pending'[f] = IF f = pair[1] THEN pair[2] ELSE pending[f]
        BY <1>0, <4>1, BlockFacts DEF SettingsTyped, IsBlock
      <4>3. pair[1] \notin Secret \ DOMAIN form.edit
        <5> SUFFICES ASSUME pair[1] \in Secret \ DOMAIN form.edit PROVE FALSE
          OBVIOUS
        <5>1. pair # Hidden
          <6>1. Hidden[1] = "ha" /\ "ha" \notin Secret
            BY DEF Hidden, Secret
          <6>2. pair[1] \in Secret
            OBVIOUS
          <6> QED  BY <6>1, <6>2
        <5>2. PICK f \in Fields : pair = Row(f)
          BY <2>3, <5>1 DEF S
        <5>3. pair[1] = f /\ pair[2] = Sent(f, form.edit)
          BY <5>2 DEF Row
        <5>4. pair[2] = ""
          BY <5>3 DEF Sent
        <5> QED  BY <3>5, <5>4 DEF LeftAlone
      <4>4. ASSUME pair = Row(pair[1]) PROVE pair[2] = Target(pair[1])
        <5>1. pair[2] = Sent(pair[1], form.edit)
          BY <4>4 DEF Row
        <5>2. pair[1] \notin Secret \/ pair[1] \in DOMAIN form.edit
          BY <4>3
        <5> QED  BY <3>1, <5>1, <5>2 DEF Sent, Target
      <4>5. ASSUME pair # Row(pair[1])
            PROVE  pair[1] = "ha" /\ \E i \in 1 .. Len(work') : work'[i] = Row("ha")
        <5>a. \A f \in Fields : pair = Row(f) => pair[1] = f
          BY DEF Row
        <5>b. pair = Hidden
          BY <2>3, <4>5, <5>a DEF S
        <5>1. pair = Hidden /\ pair[1] = "ha"
          BY <5>b DEF Hidden
        <5>2. PICK j \in 1 .. Len(work) : work[j] = Row("ha")
          BY <2>2, <2>3, <5>1
        <5>3. pair # Row("ha")
          BY <4>5, <5>1
        <5> QED  BY <3>2, <5>1, <5>2, <5>3, FieldSet
      <4>6. ~bad' => \A f \in Fields :
              pending'[f] = Target(f) \/ \E i \in 1 .. Len(work') : work'[i] = Row(f)
        <5> SUFFICES ASSUME ~bad', NEW f \in Fields
                     PROVE  pending'[f] = Target(f) \/ \E i \in 1 .. Len(work') : work'[i] = Row(f)
          OBVIOUS
        <5>1. CASE f = pair[1]
          BY <4>2, <4>4, <4>5, <5>1
        <5>2. CASE f # pair[1]
          <6>1. pair # Row(f)
            BY <5>2 DEF Row
          <6> QED  BY <3>1, <3>2, <4>1, <4>2, <5>2, <6>1
        <5> QED  BY <5>1, <5>2
      <4>7. \A f \in Secret \ DOMAIN form.edit : pending'[f] = form.met[f]
        BY <3>1, <4>2, <4>3, FieldSet DEF Secret
      <4> QED  BY <3>1, <4>1, <4>6, <4>7
    <3> QED  BY <3>3, <3>4, <3>5
  <2>8. /\ work' \in Seq({Row(f)' : f \in Fields} \cup {Hidden'})
        /\ \A i \in 1 .. Len(work') : ~Malformed(work'[i])
             /\ (work'[i] = Hidden' => \E j \in i .. Len(work') : work'[j] = Row("ha")')
    <3>1. {Row(f)' : f \in Fields} = {Row(f) : f \in Fields}
      BY <2>5
    <3>2. Hidden' = Hidden /\ Row("ha")' = Row("ha")
      BY <2>5, FieldSet DEF Hidden
    <3> QED  BY <2>3, <2>6, <3>1, <3>2 DEF S
  <2>9. FormFits'
    <3>1. at' = "formStage"
      BY <2>1
    <3>2. quiet' =>
            /\ live' = form'.met /\ page' = form'.met /\ (~staged' => pending' = live')
            /\ \A f \in Secret \ DOMAIN form'.edit : pending'[f] = form'.met[f]
            /\ ~bad' => \A f \in Fields :
                 pending'[f] = Target(f)' \/ \E i \in 1 .. Len(work') : work'[i] = Row(f)'
      BY <2>1, <2>5, <2>7
    <3> QED  BY <2>1, <2>2, <2>8, <3>1, <3>2 DEF Malformed
  <2> QED  BY <2>9
<1> QED  BY <1>1, <1>2, <1>3, <1>4, <1>5, <1>6, <1>7, <1>8, <1>9 DEF Next

\* What the apply of a submission finds, when no one else wrote since the page was rendered.
LEMMA FormMeets ==
    ASSUME Saved, FormFits, FormApply, quiet
    PROVE  /\ live = form.met /\ revision \in Nat
           /\ ~staged => pending = live
           /\ ~bad => \A f \in Fields : pending[f] = Target(f)
<1>1. at = "formStage" /\ work = <<>>
  BY DEF FormApply
<1>2. /\ live = form.met /\ (~staged => pending = live)
      /\ ~bad => \A f \in Fields :
           pending[f] = Target(f) \/ \E i \in 1 .. Len(work) : work[i] = Row(f)
  BY <1>1 DEF FormFits
<1>3. Len(work) = 0
  BY <1>1
<1> QED  BY <1>2, <1>3 DEF Saved, TypesFit

\* The result of a submission goes with what it changed, in the settings and in the clock.
LEMMA NextAnswer == ASSUME Surfaces, [Next]_netVars PROVE AnswerFits'
<1> USE DEF AnswerFits, Applied
<1>0. Saved /\ PanelFits /\ FormFits /\ AnswerFits
  BY DEF Surfaces
<1>a. ASSUME at' \notin {"formStage", "formClock", "formAnswer"}, clockSets' \in Nat, ~externalWrites'
      PROVE  AnswerFits'
  BY <1>a
<1>1. CASE BusStage \/ BusApply \/ BusPortalReset
  <2>1. /\ UNCHANGED <<at, form, page, clockSets, externalWrites>>
        /\ page # NoPage => quiet' = FALSE
    BY <1>1 DEF BusStage, BusApply, BusPortalReset, Frame, logic, browser, result
  <2> QED  BY <1>0, <2>1
<1>2. CASE PanelRead \/ PanelStage \/ PanelApply \/ RenderPage \/ StartSave \/ SaveKey \/ EndSave
           \/ RetryDue \/ FactoryReset
  <2>1. /\ at # "formAnswer" /\ UNCHANGED <<clockSets, externalWrites>>
        /\ at' \notin {"formStage", "formClock", "formAnswer"}
    BY <1>2 DEF PanelRead, PanelStage, PanelApply, RenderPage, StartSave, SaveKey, EndSave,
                RetryDue, FactoryReset, Idle, result, logic
  <2> QED  BY <1>0, <1>a, <2>1
<1>3. CASE Submit
  <2>1. at = "idle" /\ UNCHANGED <<clockSets, externalWrites>>
    BY <1>3 DEF Submit, result
  <2>2. \/ at' = at
        \/ at' = "formStage" /\ form'.sets = clockSets
    BY <1>3 DEF Submit, SubmitRefused, SubmitStages, logic
  <2>3. at' = at \/ at' = "formStage"
    BY <2>2
  <2> QED  BY <1>0, <2>1, <2>2, <2>3
<1>4. CASE FormStage
  BY <1>0, <1>4 DEF FormStage, result, browser
<1>5. CASE FormApply
  <2>1. /\ at = "formStage" /\ at' = "formClock" /\ committed' = (revision' # revision)
        /\ UNCHANGED <<page, form, quiet, bad, residue, clockSets, externalWrites>>
    BY <1>5 DEF FormApply, browser
  <2>2. page # NoPage
    BY <1>0, <2>1 DEF FormFits
  <2>3. ASSUME quiet
        PROVE  /\ ~bad => \A f \in Fields : live'[f] = Target(f)
               /\ live' # form.met => committed'
               /\ committed' => live' # form.met \/ residue
    <3>1. /\ live = form.met /\ revision \in Nat /\ (~staged => pending = live)
          /\ ~bad => \A f \in Fields : pending[f] = Target(f)
      BY <1>0, <1>5, <2>3, FormMeets
    <3>2. live' = pending
      BY <1>5, <3>1 DEF FormApply, apply, Promote, config
    <3>3. revision' # revision => live' # live \/ residue
      BY <1>5, <3>1 DEF FormApply, apply, Promote, config
    <3>4. live' # live => revision' # revision
      BY <1>5, <3>1 DEF FormApply, apply, Promote, config
    <3> QED  BY <2>1, <3>1, <3>2, <3>3, <3>4
  <2>4. \A f \in Fields : Target(f)' = Target(f)
    BY <2>1 DEF Target
  <2> QED  BY <1>0, <2>1, <2>2, <2>3, <2>4
<1>6. CASE FormClock
  <2>1. /\ at = "formClock" /\ at' = "formAnswer"
        /\ UNCHANGED <<live, committed, residue, page, form, quiet>>
    BY <1>6 DEF FormClock, config, browser
  <2>a. /\ \/ clockSets' = clockSets + 1 /\ externalWrites' = TRUE
           \/ UNCHANGED <<clockSets, externalWrites>>
    BY <1>6 DEF FormClock
  <2>b. ~bad' => ~bad
    BY <1>6, Zenon DEF FormClock
  <2>2. \A f \in Fields : Target(f)' = Target(f)
    BY <2>1 DEF Target
  <2>3. clockSets' \in Nat /\ (externalWrites' <=> clockSets' # form'.sets)
    BY <1>0, <2>1, <2>a
  <2> QED  BY <1>0, <2>1, <2>2, <2>3, <2>b
<1>7. CASE FormAnswer \/ Boot
  BY <1>0, <1>7, <1>a DEF FormAnswer, Boot
<1>8. CASE UNCHANGED netVars
  <2>1. UNCHANGED <<live, at, committed, residue, page, form, quiet, bad, clockSets, externalWrites>>
    BY <1>8 DEF netVars, config, logic, browser, result
  <2>2. \A f \in Fields : Target(f)' = Target(f)
    BY <2>1 DEF Target
  <2> QED  BY <1>0, <2>1, <2>2
<1> QED  BY <1>1, <1>2, <1>3, <1>4, <1>5, <1>6, <1>7, <1>8 DEF Next

\* The device boots with defaults everywhere and no one at work.
LEMMA InitSurfaces == Init => Surfaces
<1> SUFFICES ASSUME Init PROVE Surfaces
  OBVIOUS
<1>1. Saved
  BY InitSaved
<1>2. SettingsTyped
  <2>1. DOMAIN flash = {}
    BY DEF Init, Erased
  <2> QED  BY <2>1, DefaultsFit DEF Init, SettingsTyped
<1>3. PanelFits /\ FormFits /\ AnswerFits
  BY DEF Init, PanelFits, OnPanel, FormFits, AnswerFits, Applied
<1> QED  BY <1>1, <1>2, <1>3 DEF Surfaces

\* Whatever the three surfaces do, and in whatever order.
LEMMA NextSurfaces == Surfaces /\ [Next]_netVars => Surfaces'
<1> SUFFICES ASSUME Surfaces, [Next]_netVars PROVE Surfaces'
  OBVIOUS
<1>1. Saved'
  BY NextSaved DEF Surfaces
<1> QED  BY <1>1, NextTyped, NextPanel, NextForm, NextAnswer DEF Surfaces

\* Every field, live, staged or on the flash, has a value its store can hold: no surface, no
\* refused row and no restored key makes one that it cannot.
THEOREM TypesAlwaysHold == Spec => []TypeOK
<1>1. Surfaces => TypeOK
  BY DEF Surfaces, Saved, TypesFit, SettingsTyped, TypeOK
<1> QED
  BY InitSurfaces, NextSurfaces, <1>1, PTL DEF Spec

\* A flag edited at the panel leaves the other as the master had staged it, applied or not,
\* for any number of frames before the read and after the apply.
THEOREM PanelSetsOneFlag == Spec => PanelEditsOneFlag
<1>1. Surfaces /\ [Next]_netVars =>
        [at = "panelApply" /\ at' = "idle" /\ cuts' = cuts /\ quiet =>
           \A f \in Flags : live'[f] = IF f = work[1] THEN work[2] ELSE form.met[f]]_netVars
  <2> SUFFICES ASSUME Surfaces, [Next]_netVars, at = "panelApply", at' = "idle", cuts' = cuts, quiet
               PROVE  \A f \in Flags : live'[f] = IF f = work[1] THEN work[2] ELSE form.met[f]
    OBVIOUS
  <2>1. cuts \in Nat /\ live \in Block /\ pending \in Block
        /\ \A f \in Flags : pending[f] = IF f = work[1] THEN work[2] ELSE form.met[f]
    BY DEF Surfaces, SettingsTyped, PanelFits
  <2>2. CASE PanelApply
    BY <2>1, <2>2, ApplyFits DEF PanelApply
  <2>3. CASE Boot
    BY <2>1, <2>3 DEF Boot
  <2>4. ~ \/ BusStage \/ BusApply \/ BusPortalReset \/ PanelRead \/ PanelStage
          \/ RenderPage \/ Submit \/ FormStage \/ FormApply \/ FormClock \/ FormAnswer
          \/ StartSave \/ SaveKey \/ EndSave \/ RetryDue \/ FactoryReset
    BY DEF BusStage, BusApply, BusPortalReset, Frame, logic, PanelRead, PanelStage, Idle,
           RenderPage, Submit, FormStage, FormApply, FormClock, FormAnswer, StartSave, SaveKey,
           EndSave, RetryDue,
           FactoryReset
  <2>5. ~ UNCHANGED netVars
    BY DEF netVars, logic
  <2> QED  BY <2>2, <2>3, <2>4, <2>5 DEF Next
<1> QED
  BY InitSurfaces, NextSurfaces, <1>1, PTL DEF Spec, PanelEditsOneFlag

\* A submission that ends without a power cut ends in its answer.
LEMMA FormEndsInAnswer ==
    ASSUME Surfaces, [Next]_netVars, FormEnds
    PROVE  FormAnswer
<1>1. cuts \in Nat /\ at = "formAnswer" /\ at' = "idle" /\ cuts' = cuts
  BY DEF Surfaces, SettingsTyped, FormEnds
<1>2. ~ Boot
  BY <1>1 DEF Boot
<1>3. ~ \/ BusStage \/ BusApply \/ BusPortalReset \/ PanelRead \/ PanelStage \/ PanelApply
        \/ RenderPage \/ Submit \/ FormStage \/ FormApply \/ FormClock
        \/ StartSave \/ SaveKey \/ EndSave \/ RetryDue \/ FactoryReset
  BY <1>1 DEF BusStage, BusApply, BusPortalReset, Frame, logic, PanelRead, PanelStage, PanelApply,
         Idle, RenderPage, Submit, FormStage, FormApply, FormClock, StartSave, SaveKey, EndSave,
         RetryDue, FactoryReset
<1>4. ~ UNCHANGED netVars
  BY <1>1 DEF netVars, logic
<1> QED  BY <1>2, <1>3, <1>4 DEF Next

\* The result page says that something was stored whenever a setting changed or the clock was
\* set, also when a row was refused after others were staged; and it says so of nothing else,
\* but for the bytes that a master left behind a terminator.
THEOREM AnswersAreTrue == Spec => AnswerIsTrue
<1>1. Surfaces /\ [Next]_netVars =>
        [FormEnds /\ quiet => (Altered => Tells) /\ (Tells => Altered \/ residue)]_netVars
  <2> SUFFICES ASSUME Surfaces, [Next]_netVars, FormEnds, quiet
               PROVE  (Altered => Tells) /\ (Tells => Altered \/ residue)
    OBVIOUS
  <2>1. FormAnswer
    BY FormEndsInAnswer
  <2>2. /\ live' = live /\ clockSets' = clockSets
        /\ live # form.met => committed
        /\ committed => live # form.met \/ residue
        /\ externalWrites <=> clockSets # form.sets
    BY <2>1 DEF FormAnswer, config, Surfaces, AnswerFits, Applied
  <2>3. Tells <=> committed \/ externalWrites
    BY DEF Tells, renderResult, storedSomething
  <2> QED  BY <2>2, <2>3 DEF Altered
<1> QED
  BY InitSurfaces, NextSurfaces, <1>1, PTL DEF Spec, AnswerIsTrue

\* A form accepted whole changes the rows the operator edited and no other: not a secret left
\* blank, not a check box left checked, provided no one else wrote meanwhile.
THEOREM FormsSaveEdits == Spec => FormSavesEdits
<1>1. Surfaces /\ [Next]_netVars =>
        [FormEnds /\ quiet /\ ~bad =>
           live' = [f \in Fields |-> IF f \in DOMAIN form.edit THEN form.edit[f] ELSE form.met[f]]]_netVars
  <2> SUFFICES ASSUME Surfaces, [Next]_netVars, FormEnds, quiet, ~bad
               PROVE  live' = [f \in Fields |-> IF f \in DOMAIN form.edit THEN form.edit[f] ELSE form.met[f]]
    OBVIOUS
  <2>1. FormAnswer
    BY FormEndsInAnswer
  <2>2. live' = live /\ \A f \in Fields : live[f] = Target(f)
    BY <2>1 DEF FormAnswer, config, Surfaces, AnswerFits, Applied
  <2>3. live = [f \in Fields |-> live[f]]
    BY BlockFacts DEF Surfaces, SettingsTyped, IsBlock
  <2> QED  BY <2>2, <2>3 DEF Target
<1> QED
  BY InitSurfaces, NextSurfaces, <1>1, PTL DEF Spec, FormSavesEdits
=============================================================================
