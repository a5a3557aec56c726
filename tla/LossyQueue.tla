----------------------------- MODULE LossyQueue -----------------------------
(***************************************************************************)
(* What the MQTT queue promises: messages leave from the front, in the     *)
(* order they were taken, and between front and back only telemetry is     *)
(* ever lost, the oldest first, and only to make room for a newer message. *)
(***************************************************************************)
EXTENDS Naturals, Sequences, SequencesExt

CONSTANTS Cap, Messages, Droppable(_)

VARIABLE q

Spare(s) == {i \in DOMAIN s : Droppable(s[i])}

\* A queue without its oldest droppable message.
Lighter(s) ==
    LET oldest == CHOOSE i \in Spare(s) : \A j \in Spare(s) : i <= j
    IN  IF Spare(s) = {} THEN s ELSE RemoveAt(s, oldest)

\* Without the n oldest of them.
Without(s) == LET kept[n \in 0 .. Len(s)] == IF n = 0 THEN s ELSE Lighter(kept[n - 1])
              IN  kept

\* The owner offers messages, one or more in a step.  What is given up to make room was
\* given up by a full queue, which stays full.
Taken(s, t) ==
    \E n \in 0 .. Len(s) :
        /\ Len(Without(s)[n]) = Len(s) - n
        /\ Len(t) > Len(s) - n /\ Len(t) <= Cap
        /\ n > 0 => Len(t) = Cap
        /\ IsPrefix(Without(s)[n], t)
        /\ \A i \in Len(s) - n + 1 .. Len(t) : t[i] \in Messages

Left(s, t) == \E n \in 1 .. Len(s) : t = SubSeq(s, n + 1, Len(s))

Next == Left(q, q') \/ Taken(q, q')
Init == q = <<>>
Spec == Init /\ [][Next]_q
=============================================================================
