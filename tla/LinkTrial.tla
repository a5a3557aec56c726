----------------------------- MODULE LinkTrial -----------------------------
(***************************************************************************)
(* What the link settings promise, without ports, passes or clocks: the    *)
(* settings in force are either trusted or on trial, and a trial ends by   *)
(* being accepted or by going back to what it replaced.                    *)
(***************************************************************************)
EXTENDS Naturals

CONSTANTS Ids, Lines, RevMod

VARIABLES
    cur,    \* the settings in force
    prior,  \* what the last change replaced
    by,     \* "bus" while they are on trial, "trusted" otherwise
    rev     \* the revision register

vars == <<cur, prior, by, rev>>

Choices == [id : Ids, line : Lines]
Counted == rev' = (rev + 1) % RevMod

\* A master changes the settings; it may have lost the link by doing so.
Try(s) == s # cur /\ cur' = s /\ prior' = cur /\ by' = "bus" /\ Counted

\* The operator changes them at the device: no trial.
Local(s) == s # cur /\ cur' = s /\ prior' = cur /\ by' = "trusted" /\ Counted

\* The master was heard on the new settings.
Accept == by = "bus" /\ by' = "trusted" /\ UNCHANGED <<cur, prior, rev>>

\* It was not.
Revert == by = "bus" /\ cur' = prior /\ by' = "trusted" /\ Counted /\ UNCHANGED prior

\* A boot or a factory reset starts again from stored or default settings.
Reload(s) == cur' = s /\ prior' = s /\ by' = "trusted" /\ rev' = 0

Init == cur \in Choices /\ prior = cur /\ by = "trusted" /\ rev = 0

Next == Accept \/ Revert \/ \E s \in Choices : Try(s) \/ Local(s) \/ Reload(s)

Spec == Init /\ [][Next]_vars
=============================================================================
