-------------------------- MODULE MqttPublisherProofs --------------------------
(***************************************************************************)
(* Proofs about MqttPublisher, for any topics, channels, readings, queue   *)
(* length, batch, intervals and number of changes.                         *)
(***************************************************************************)
EXTENDS MqttPublisher, Counting, FiniteSetTheorems, SequenceTheorems

-----------------------------------------------------------------------------
(* Messages and cells. *)

\* What is sent in order never gives way, and telemetry names its slot and a reading.
LEMMA MessageFacts ==
    /\ Online \in Messages /\ ~Droppable(Online)
    /\ Discovery \in Messages /\ ~Droppable(Discovery)
    /\ ~Droppable(Empty) /\ Empty \notin Messages
    /\ \A s \in Topics, v \in Values :
          /\ Telemetry(s, v) \in Messages /\ Droppable(Telemetry(s, v))
          /\ Telemetry(s, v).slot = s /\ Telemetry(s, v).value = v
    /\ \A m \in Messages : Droppable(m) => m.slot \in Topics /\ m.value \in Values
<1>1. /\ Online.cls = "availability" /\ Discovery.cls = "discovery" /\ Empty.cls = "empty"
      /\ \A s \in Topics, v \in Values :
            Telemetry(s, v).cls = "telemetry" /\ Telemetry(s, v).slot = s /\ Telemetry(s, v).value = v
  BY DEF Online, Discovery, Empty, Telemetry
<1>2. Messages = {Online, Discovery} \cup {Telemetry(s, v) : s \in Topics, v \in Values}
  BY DEF Messages
<1>3. \A s \in Topics, v \in Values : Telemetry(s, v) \in Messages
  BY <1>2
<1>4. \A m \in Messages : m \in {Online, Discovery} \/ \E s \in Topics, v \in Values : m = Telemetry(s, v)
  BY <1>2
<1>5. Empty \notin Messages
  <2> SUFFICES ASSUME Empty \in Messages PROVE FALSE
    OBVIOUS
  <2>1. CASE Empty \in {Online, Discovery}
    BY <1>1, <2>1
  <2>2. ASSUME NEW s \in Topics, NEW v \in Values, Empty = Telemetry(s, v) PROVE FALSE
    BY <1>1, <2>2
  <2> QED  BY <1>4, <2>1, <2>2
<1>6. ASSUME NEW m \in Messages, Droppable(m) PROVE m.slot \in Topics /\ m.value \in Values
  <2>1. m \notin {Online, Discovery}
    BY <1>1, <1>6 DEF Droppable
  <2>2. PICK s \in Topics, v \in Values : m = Telemetry(s, v)
    BY <1>4, <2>1
  <2> QED  BY <1>1, <2>2
<1>7. /\ ~Droppable(Online) /\ ~Droppable(Discovery) /\ ~Droppable(Empty)
      /\ \A s \in Topics, v \in Values : Droppable(Telemetry(s, v))
  BY <1>1 DEF Droppable
<1> QED  BY <1>1, <1>2, <1>3, <1>5, <1>6, <1>7

Constants ==
    /\ Cap \in Nat \ {0} /\ PumpMax \in Nat \ {0} /\ Changes \in Nat
    /\ Wrap \in Nat \ {0} /\ PerDevice \in Nat /\ PerChannel \in Nat
    /\ Channels \subseteq Topics

\* The configured intervals are below the range of the counter, so it has a range.
LEMMA ConstantsFit == Constants
BY PublisherAssumption DEF Constants, Topics

Ring == [at : [0 .. Cap - 1 -> Messages \cup {Empty}], head : 0 .. Cap - 1, count : 0 .. Cap]

\* The head and count stay in the ring; what is occupied holds messages, and nothing else does.
RingFits(r) ==
    /\ r \in Ring
    /\ \A i \in 0 .. Cap - 1 :
          IF i < r.count THEN r.at[Cell(r, i)] \in Messages ELSE r.at[Cell(r, i)] = Empty

\* What the ring holds, from its head.
Of(r) == [i \in 1 .. r.count |-> r.at[Cell(r, i - 1)]]

\* Where the positions of a ring lie.
LEMMA CellFacts ==
    ASSUME NEW r, r.head \in 0 .. Cap - 1
    PROVE  /\ \A i \in 0 .. Cap : /\ Cell(r, i) \in 0 .. Cap - 1
                                  /\ Cell(r, i) = IF r.head + i < Cap THEN r.head + i ELSE r.head + i - Cap
           /\ \A c \in 0 .. Cap - 1 :
                 /\ (c - r.head) % Cap \in 0 .. Cap - 1
                 /\ (c - r.head) % Cap = IF c >= r.head THEN c - r.head ELSE c - r.head + Cap
                 /\ Cell(r, (c - r.head) % Cap) = c
           /\ \A i \in 0 .. Cap - 1 : (Cell(r, i) - r.head) % Cap = i
           /\ \A i, j \in 0 .. Cap - 1 : Cell(r, i) = Cell(r, j) => i = j
<1>0. Cap \in Nat \ {0}
  BY ConstantsFit DEF Constants
<1>1. \A i \in 0 .. Cap : Cell(r, i) = IF r.head + i < Cap THEN r.head + i ELSE r.head + i - Cap
  BY <1>0, StepForward DEF Cell
<1>2. \A c \in 0 .. Cap - 1 : (c - r.head) % Cap = IF c >= r.head THEN c - r.head ELSE c - r.head + Cap
  BY <1>0, StepBack
<1>3. \A i \in 0 .. Cap : Cell(r, i) \in 0 .. Cap - 1
  BY <1>0, <1>1
<1>4. \A c \in 0 .. Cap - 1 : (c - r.head) % Cap \in 0 .. Cap - 1
  BY <1>0, <1>2
<1>5. ASSUME NEW c \in 0 .. Cap - 1 PROVE Cell(r, (c - r.head) % Cap) = c
  <2>1. (c - r.head) % Cap \in 0 .. Cap - 1
        /\ (c - r.head) % Cap = IF c >= r.head THEN c - r.head ELSE c - r.head + Cap
    BY <1>2, <1>4
  <2> DEFINE d == (c - r.head) % Cap
  <2> HIDE DEF d
  <2>2. Cell(r, d) = IF r.head + d < Cap THEN r.head + d ELSE r.head + d - Cap
    BY <1>0, <1>1, <2>1 DEF d
  <2> QED  BY <1>0, <2>1, <2>2 DEF d
<1>6. ASSUME NEW i \in 0 .. Cap - 1 PROVE (Cell(r, i) - r.head) % Cap = i
  <2>1. Cell(r, i) \in 0 .. Cap - 1 /\ Cell(r, i) = IF r.head + i < Cap THEN r.head + i ELSE r.head + i - Cap
    BY <1>0, <1>1, <1>3
  <2> DEFINE c == Cell(r, i)
  <2> HIDE DEF c
  <2>2. (c - r.head) % Cap = IF c >= r.head THEN c - r.head ELSE c - r.head + Cap
    BY <1>2, <2>1 DEF c
  <2> QED  BY <1>0, <2>1, <2>2 DEF c
<1> QED  BY <1>1, <1>2, <1>3, <1>4, <1>5, <1>6

\* Two positions have two cells.
LEMMA CellsApart ==
    ASSUME NEW r, r.head \in 0 .. Cap - 1, NEW i \in 0 .. Cap - 1, NEW j \in 0 .. Cap - 1,
           Cell(r, i) = Cell(r, j)
    PROVE  i = j
BY CellFacts

\* The sequence a ring holds is one of messages.
LEMMA OfFacts ==
    ASSUME NEW r, RingFits(r)
    PROVE  /\ Of(r) \in Seq(Messages) /\ Len(Of(r)) = r.count /\ DOMAIN Of(r) = 1 .. r.count
           /\ r.count \in 0 .. Cap
           /\ \A i \in 1 .. r.count : Of(r)[i] = r.at[Cell(r, i - 1)] /\ Of(r)[i] \in Messages
<1>1. r.count \in 0 .. Cap /\ Cap \in Nat
  BY ConstantsFit DEF RingFits, Ring, Constants
<1>2. \A i \in 1 .. r.count : r.at[Cell(r, i - 1)] \in Messages
  <2> SUFFICES ASSUME NEW i \in 1 .. r.count PROVE r.at[Cell(r, i - 1)] \in Messages
    OBVIOUS
  <2>1. i - 1 \in 0 .. Cap - 1 /\ i - 1 < r.count
    BY <1>1
  <2> QED  BY <2>1 DEF RingFits
<1>3. Of(r) \in [1 .. r.count -> Messages]
  BY <1>2 DEF Of
<1> QED  BY <1>1, <1>2, <1>3 DEF Of

-----------------------------------------------------------------------------
(* One message taken. *)

Behind(r, m) == [r EXCEPT !.at[Cell(r, r.count)] = m, !.count = @ + 1]

\* A message written past the last one is the new last one.
LEMMA BehindFits ==
    ASSUME NEW r, RingFits(r), r.count < Cap, NEW m \in Messages
    PROVE  /\ RingFits(Behind(r, m)) /\ Behind(r, m).count = r.count + 1
           /\ Of(Behind(r, m)) = Append(Of(r), m)
<1> DEFINE b == Behind(r, m)
<1>1. /\ r \in Ring /\ r.head \in 0 .. Cap - 1 /\ r.count \in 0 .. Cap - 1 /\ Cap \in Nat
      /\ \A i \in 0 .. Cap - 1 :
            IF i < r.count THEN r.at[Cell(r, i)] \in Messages ELSE r.at[Cell(r, i)] = Empty
  BY ConstantsFit DEF RingFits, Ring, Constants
<1>2. Cell(r, r.count) \in 0 .. Cap - 1
  BY <1>1, CellFacts
<1>3. b.head = r.head /\ b.count = r.count + 1
      /\ b.at = [r.at EXCEPT ![Cell(r, r.count)] = m]
  BY <1>1 DEF Behind, Ring
<1>4. b \in Ring
  <2>1. [r.at EXCEPT ![Cell(r, r.count)] = m] \in [0 .. Cap - 1 -> Messages \cup {Empty}]
    BY <1>1, <1>2 DEF Ring
  <2>2. r.count + 1 \in 0 .. Cap
    BY <1>1
  <2>3. b = [r EXCEPT !.at = [r.at EXCEPT ![Cell(r, r.count)] = m], !.count = r.count + 1]
    BY DEF Behind
  <2> DEFINE a == [r.at EXCEPT ![Cell(r, r.count)] = m]
             n == r.count + 1
  <2> HIDE DEF a, n, b
  <2> QED  BY <1>1, <2>1, <2>2, <2>3 DEF a, n, Ring
<1>5. \A c \in 0 .. Cap - 1 : b.at[c] = IF c = Cell(r, r.count) THEN m ELSE r.at[c]
  BY <1>1, <1>3 DEF Ring
<1> HIDE DEF b
<1>6. \A i \in 0 .. Cap - 1 : Cell(b, i) = Cell(r, i) /\ Cell(b, i) \in 0 .. Cap - 1
  <2>1. \A i \in 0 .. Cap - 1 : Cell(b, i) = Cell(r, i)
    BY <1>3 DEF Cell
  <2>2. \A i \in 0 .. Cap : Cell(r, i) \in 0 .. Cap - 1
    BY <1>1, CellFacts
  <2>3. \A i \in 0 .. Cap - 1 : i \in 0 .. Cap
    BY <1>1
  <2> QED  BY <2>1, <2>2, <2>3
<1>7. \A i \in 0 .. Cap - 1 : b.at[Cell(b, i)] = IF i = r.count THEN m ELSE r.at[Cell(r, i)]
  <2> SUFFICES ASSUME NEW i \in 0 .. Cap - 1
               PROVE  b.at[Cell(b, i)] = IF i = r.count THEN m ELSE r.at[Cell(r, i)]
    OBVIOUS
  <2>1. Cell(r, i) = Cell(r, r.count) => i = r.count
    BY <1>1, CellsApart
  <2>2. Cell(b, i) = Cell(r, i) /\ Cell(r, i) \in 0 .. Cap - 1
    BY <1>6
  <2> QED  BY <1>5, <2>1, <2>2
<1>8. RingFits(b)
  BY <1>1, <1>3, <1>4, <1>7 DEF RingFits
<1>9. Of(b) = Append(Of(r), m)
  <2>1. Of(b) \in Seq(Messages) /\ Len(Of(b)) = r.count + 1
    BY <1>3, <1>8, OfFacts
  <2>2. Append(Of(r), m) \in Seq(Messages) /\ Len(Append(Of(r), m)) = r.count + 1
    BY OfFacts
  <2>3. ASSUME NEW i \in 1 .. r.count + 1 PROVE Of(b)[i] = Append(Of(r), m)[i]
    <3>0. i \in 1 .. b.count /\ i - 1 \in 0 .. Cap - 1
      BY <1>1, <1>3
    <3>1. Of(b)[i] = b.at[Cell(b, i - 1)] /\ i - 1 \in 0 .. Cap - 1
      BY <1>8, <3>0, OfFacts
    <3>2. CASE i = r.count + 1
      BY <1>1, <1>7, <3>1, <3>2, OfFacts
    <3>3. CASE i # r.count + 1
      <4>1. i \in 1 .. r.count
        BY <1>1, <3>3
      <4> QED  BY <1>1, <1>7, <3>1, <4>1, OfFacts
    <3> QED  BY <3>2, <3>3
  <2> QED  BY <2>1, <2>2, <2>3, SeqEqual
<1> QED  BY <1>3, <1>8, <1>9 DEF b

\* One of the ring's messages that can be lost is the oldest of them.
LEMMA OldestIsThere ==
    ASSUME NEW r, RingFits(r), Evictable(r)
    PROVE  \E i \in 0 .. r.count - 1 : /\ Droppable(r.at[Cell(r, i)])
                                       /\ \A j \in 0 .. i - 1 : ~Droppable(r.at[Cell(r, j)])
<1> DEFINE D == {i \in 0 .. r.count - 1 : Droppable(r.at[Cell(r, i)])}
<1>1. r.count \in Nat
  BY OfFacts
<1>2. D \subseteq Nat /\ D # {}
  BY <1>1 DEF Evictable
<1>3. PICK i \in D : \A j \in D : i <= j
  <2> HIDE DEF D
  <2> QED  BY <1>2, LeastNumber
<1> QED  BY <1>1, <1>3

\* It gives way, and those behind it close up.
LEMMA EvictFacts ==
    ASSUME NEW r, RingFits(r), r.count = Cap, Evictable(r)
    PROVE  LET e == EvictOldest(r) IN
           /\ RingFits(e) /\ e.count = Cap - 1
           /\ \E p \in 1 .. Cap :
                 /\ Droppable(Of(r)[p]) /\ \A j \in 1 .. p - 1 : ~Droppable(Of(r)[j])
                 /\ \A i \in 1 .. Cap - 1 : Of(e)[i] = IF i < p THEN Of(r)[i] ELSE Of(r)[i + 1]
<1> DEFINE First(i) == /\ Droppable(r.at[Cell(r, i)])
                       /\ \A j \in 0 .. i - 1 : ~Droppable(r.at[Cell(r, j)])
           p == CHOOSE i \in 0 .. r.count - 1 : First(i)
           shifted(c) == LET i == (c - r.head) % Cap
                         IN  CASE i = r.count - 1 -> Empty
                               [] i >= p /\ i < r.count - 1 -> r.at[Cell(r, i + 1)]
                               [] OTHER -> r.at[c]
           a == [c \in 0 .. Cap - 1 |-> shifted(c)]
           e == [r EXCEPT !.count = @ - 1, !.at = a]
<1>1. EvictOldest(r) = e
  BY DEF EvictOldest
<1>2. p \in 0 .. r.count - 1 /\ First(p)
  <2>1. \E i \in 0 .. r.count - 1 : First(i)
    BY OldestIsThere
  <2> QED  BY <2>1
<1>3. /\ r \in Ring /\ r.head \in 0 .. Cap - 1 /\ Cap \in Nat \ {0}
      /\ \A i \in 0 .. Cap - 1 : r.at[Cell(r, i)] \in Messages
  BY ConstantsFit DEF RingFits, Ring, Constants
<1>4. e.head = r.head /\ e.count = Cap - 1 /\ e.at = [c \in 0 .. Cap - 1 |-> shifted(c)]
  BY <1>3 DEF Ring
<1>5. r.count - 1 \in 0 .. Cap /\ (a \in [0 .. Cap - 1 -> Messages \cup {Empty}] => e \in Ring)
  <2>1. r.count - 1 \in 0 .. Cap /\ e = [r EXCEPT !.count = r.count - 1, !.at = a]
    BY <1>3
  <2> DEFINE n == r.count - 1
  <2> HIDE DEF a, e, n
  <2> QED  BY <1>3, <2>1 DEF n, Ring
<1> HIDE DEF p, e
<1>6. ASSUME NEW i \in 0 .. Cap - 1
      PROVE  e.at[Cell(r, i)] = IF i = Cap - 1 THEN Empty
                                ELSE IF i >= p THEN r.at[Cell(r, i + 1)] ELSE r.at[Cell(r, i)]
  <2> DEFINE c == Cell(r, i)
  <2>1. c \in 0 .. Cap - 1 /\ (c - r.head) % Cap = i
    <3>1. i \in 0 .. Cap
      BY <1>3
    <3> QED  BY <1>3, <3>1, CellFacts
  <2>2. e.at[c] = CASE i = Cap - 1 -> Empty
                    [] i >= p /\ i < Cap - 1 -> r.at[Cell(r, i + 1)]
                    [] OTHER -> r.at[c]
    <3> HIDE DEF c
    <3> QED  BY <1>4, <2>1
  <2>3. CASE i = Cap - 1
    BY <2>2, <2>3
  <2>4. CASE i # Cap - 1 /\ i >= p
    <3>1. i < Cap - 1 /\ i # Cap - 1
      BY <1>3, <2>4
    <3> HIDE DEF c
    <3> QED  BY <2>2, <2>4, <3>1 DEF c
  <2>5. CASE i # Cap - 1 /\ ~(i >= p)
    <3> HIDE DEF c
    <3> QED  BY <2>2, <2>5 DEF c
  <2> QED  BY <2>3, <2>4, <2>5
<1>7. \A i \in 0 .. Cap - 1 : Cell(e, i) = Cell(r, i)
  BY <1>4 DEF Cell
<1>8. \A i \in 0 .. Cap - 1 :
        e.at[Cell(e, i)] = IF i = Cap - 1 THEN Empty
                           ELSE IF i >= p THEN r.at[Cell(r, i + 1)] ELSE r.at[Cell(r, i)]
  BY <1>6, <1>7
<1>9. \A i \in 0 .. Cap - 1 : IF i < Cap - 1 THEN e.at[Cell(e, i)] \in Messages
                                             ELSE e.at[Cell(e, i)] = Empty
  <2> SUFFICES ASSUME NEW i \in 0 .. Cap - 1
               PROVE  IF i < Cap - 1 THEN e.at[Cell(e, i)] \in Messages ELSE e.at[Cell(e, i)] = Empty
    OBVIOUS
  <2>1. CASE i < Cap - 1
    <3>1. i + 1 \in 0 .. Cap - 1 /\ i # Cap - 1
      BY <1>3, <2>1
    <3> QED  BY <1>3, <1>8, <2>1, <3>1
  <2>2. CASE ~(i < Cap - 1)
    <3>1. i = Cap - 1
      BY <1>3, <2>2
    <3> QED  BY <1>8, <2>2, <3>1
  <2> QED  BY <2>1, <2>2
<1>10. e \in Ring
  <2>1. ASSUME NEW c \in 0 .. Cap - 1 PROVE e.at[c] \in Messages \cup {Empty}
    <3>1. (c - r.head) % Cap \in 0 .. Cap - 1 /\ Cell(r, (c - r.head) % Cap) = c
      BY <1>3, CellFacts
    <3>2. PICK i \in 0 .. Cap - 1 : Cell(e, i) = c
      BY <1>7, <3>1
    <3> QED  BY <1>9, <3>2
  <2>2. e.at \in [0 .. Cap - 1 -> Messages \cup {Empty}]
    BY <1>4, <2>1
  <2> QED  BY <1>4, <1>5, <2>2
<1>11. RingFits(e)
  BY <1>4, <1>9, <1>10 DEF RingFits
<1>12. p + 1 \in 1 .. Cap /\ Droppable(Of(r)[p + 1]) /\ \A j \in 1 .. p : ~Droppable(Of(r)[j])
  <2>1. \A i \in 1 .. Cap : Of(r)[i] = r.at[Cell(r, i - 1)]
    BY OfFacts
  <2>2. p + 1 \in 1 .. Cap /\ (p + 1) - 1 = p
    BY <1>2, <1>3
  <2>3. \A j \in 1 .. p : j \in 1 .. Cap /\ j - 1 \in 0 .. p - 1
    BY <1>2, <1>3
  <2> QED  BY <1>2, <2>1, <2>2, <2>3
<1>13. ASSUME NEW i \in 1 .. Cap - 1
       PROVE  Of(e)[i] = IF i < p + 1 THEN Of(r)[i] ELSE Of(r)[i + 1]
  <2>1. Of(e)[i] = e.at[Cell(e, i - 1)] /\ Of(r)[i] = r.at[Cell(r, i - 1)]
        /\ Of(r)[i + 1] = r.at[Cell(r, (i + 1) - 1)]
    <3>1. i \in 1 .. e.count /\ i \in 1 .. r.count /\ i + 1 \in 1 .. r.count
      BY <1>3, <1>4
    <3> QED  BY <1>11, <3>1, OfFacts
  <2>2. i - 1 \in 0 .. Cap - 1 /\ i - 1 # Cap - 1 /\ (i - 1) + 1 = i /\ (i + 1) - 1 = i
        /\ (i - 1 >= p <=> ~(i < p + 1))
    BY <1>2, <1>3
  <2> QED  BY <1>8, <2>1, <2>2
<1> QED
  <2>1. p + 1 - 1 = p
    BY <1>2, <1>3
  <2>2. \E q \in 1 .. Cap :
          /\ Droppable(Of(r)[q]) /\ \A j \in 1 .. q - 1 : ~Droppable(Of(r)[j])
          /\ \A i \in 1 .. Cap - 1 : Of(e)[i] = IF i < q THEN Of(r)[i] ELSE Of(r)[i + 1]
    <3> DEFINE q == p + 1
    <3>1. q \in 1 .. Cap /\ Droppable(Of(r)[q]) /\ \A j \in 1 .. q - 1 : ~Droppable(Of(r)[j])
      <4>1. 1 .. q - 1 = 1 .. p
        BY <1>2, <1>3
      <4> HIDE DEF First
      <4> QED  BY <1>12, <4>1
    <3>2. \A i \in 1 .. Cap - 1 : Of(e)[i] = IF i < q THEN Of(r)[i] ELSE Of(r)[i + 1]
      BY <1>13
    <3> HIDE DEF q
    <3> QED  BY <3>1, <3>2
  <2> QED  BY <1>1, <1>4, <1>11, <2>2

\* How a ring takes a message: it refuses it; or has room; or the oldest telemetry makes room.
Took(r, t, m) ==
    \/ ~Accepts(r) /\ t = r
    \/ /\ Accepts(r) /\ r.count < Cap
       /\ t.count = r.count + 1 /\ Of(t) = Append(Of(r), m)
    \/ /\ Accepts(r) /\ r.count = Cap /\ t.count = Cap
       /\ \E p \in 1 .. Cap :
             /\ Droppable(Of(r)[p]) /\ \A j \in 1 .. p - 1 : ~Droppable(Of(r)[j])
             /\ \A i \in 1 .. Cap - 1 : Of(t)[i] = IF i < p THEN Of(r)[i] ELSE Of(r)[i + 1]
             /\ Of(t)[Cap] = m

\* enqueue() does one of the three, and leaves a ring.
LEMMA EnqueueFits ==
    ASSUME NEW r, RingFits(r), NEW m \in Messages
    PROVE  RingFits(Enqueue(r, m)) /\ Took(r, Enqueue(r, m), m)
<1>1. r.count \in 0 .. Cap /\ Cap \in Nat \ {0}
  BY OfFacts, ConstantsFit DEF Constants
<1>2. CASE ~Accepts(r)
  BY <1>2 DEF Enqueue, Took
<1>3. CASE Accepts(r) /\ r.count < Cap
  <2>1. Enqueue(r, m) = Behind(r, m)
    <3> DEFINE room == IF r.count = Cap THEN EvictOldest(r) ELSE r
    <3>1. room = r
      BY <1>1, <1>3
    <3>2. Enqueue(r, m) = Behind(room, m)
      BY <1>3 DEF Enqueue, Behind
    <3> HIDE DEF room
    <3> QED  BY <3>1, <3>2
  <2> QED  BY <1>3, <2>1, BehindFits DEF Took
<1>4. CASE Accepts(r) /\ r.count = Cap
  <2> DEFINE e == EvictOldest(r)
             t == Enqueue(r, m)
  <2>1. Evictable(r)
    BY <1>1, <1>4 DEF Accepts
  <2>2. /\ RingFits(e) /\ e.count = Cap - 1
        /\ \E p \in 1 .. Cap :
              /\ Droppable(Of(r)[p]) /\ \A j \in 1 .. p - 1 : ~Droppable(Of(r)[j])
              /\ \A i \in 1 .. Cap - 1 : Of(e)[i] = IF i < p THEN Of(r)[i] ELSE Of(r)[i + 1]
    BY <1>4, <2>1, EvictFacts
  <2>3. t = Behind(e, m)
    BY <1>4 DEF Enqueue, Behind
  <2> HIDE DEF e, t
  <2>4. RingFits(t) /\ t.count = Cap /\ Of(t) = Append(Of(e), m)
    BY <1>1, <2>2, <2>3, BehindFits
  <2>5. Of(e) \in Seq(Messages) /\ Len(Of(e)) = Cap - 1
    BY <2>2, OfFacts
  <2>6. Of(t)[Cap] = m /\ \A i \in 1 .. Cap - 1 : Of(t)[i] = Of(e)[i]
    BY <1>1, <2>4, <2>5
  <2>7. Took(r, t, m)
    BY <1>4, <2>2, <2>4, <2>6 DEF Took
  <2> QED  BY <2>4, <2>7 DEF t
<1> QED  BY <1>1, <1>2, <1>3, <1>4

-----------------------------------------------------------------------------
(* The newest message of a slot. *)

IsFor(m, s) == Droppable(m) /\ m.slot = s

\* The last message the ring holds for a slot shows the slot's baseline.
Newest(r, base) ==
    \A s \in Topics : base[s] # None =>
        \A i \in 1 .. r.count :
            IsFor(Of(r)[i], s) /\ (\A j \in i + 1 .. r.count : ~IsFor(Of(r)[j], s))
                => Of(r)[i].value = base[s]

\* A message taken leaves that so, if the slot it is for has its value for a baseline: what
\* gives way is older than any other, so it uncovers nothing.
LEMMA TookNewest ==
    ASSUME NEW r, NEW t, NEW m \in Messages, NEW base, NEW base2,
           RingFits(r), RingFits(t), Took(r, t, m), Newest(r, base),
           \A s \in Topics : IF Accepts(r) /\ IsFor(m, s) THEN base2[s] = m.value
                                                         ELSE base2[s] = base[s]
    PROVE  Newest(t, base2)
<1>0. r.count \in 0 .. Cap /\ t.count \in 0 .. Cap /\ Cap \in Nat \ {0}
  BY OfFacts, ConstantsFit DEF Constants
<1>1. CASE ~Accepts(r)
  BY <1>1 DEF Took, Newest
<1>2. CASE Accepts(r)
  <2> SUFFICES ASSUME NEW s \in Topics, base2[s] # None, NEW i \in 1 .. t.count, IsFor(Of(t)[i], s),
                      \A j \in i + 1 .. t.count : ~IsFor(Of(t)[j], s)
               PROVE  Of(t)[i].value = base2[s]
    BY DEF Newest
  <2>1. Of(t)[t.count] = m
    <3>1. CASE t.count = r.count + 1 /\ Of(t) = Append(Of(r), m)
      <4>1. Of(r) \in Seq(Messages) /\ Len(Of(r)) = r.count
        BY OfFacts
      <4> QED  BY <3>1, <4>1
    <3>2. CASE t.count = Cap /\ Of(t)[Cap] = m
      BY <3>2
    <3> QED  BY <1>2, <3>1, <3>2 DEF Took
  <2>2. CASE i = t.count
    BY <1>2, <2>1, <2>2
  <2>3. CASE i # t.count
    <3>1. t.count \in i + 1 .. t.count
      BY <1>0, <2>3
    <3>2. base2[s] = base[s]
      BY <2>1, <3>1
    <3>3. CASE t.count = r.count + 1 /\ Of(t) = Append(Of(r), m)
      <4>1. Of(r) \in Seq(Messages) /\ Len(Of(r)) = r.count
        BY OfFacts
      <4>2. \A j \in 1 .. r.count : Of(t)[j] = Of(r)[j]
        BY <3>3, <4>1
      <4>3. i \in 1 .. r.count /\ \A j \in i + 1 .. r.count : j \in i + 1 .. t.count /\ j \in 1 .. r.count
        BY <1>0, <2>3, <3>3
      <4> QED  BY <3>2, <4>2, <4>3 DEF Newest
    <3>4. CASE r.count = Cap /\ t.count = Cap /\
               \E p \in 1 .. Cap :
                  /\ Droppable(Of(r)[p]) /\ \A j \in 1 .. p - 1 : ~Droppable(Of(r)[j])
                  /\ \A k \in 1 .. Cap - 1 : Of(t)[k] = IF k < p THEN Of(r)[k] ELSE Of(r)[k + 1]
      <4>1. PICK p \in 1 .. Cap :
               /\ Droppable(Of(r)[p]) /\ \A j \in 1 .. p - 1 : ~Droppable(Of(r)[j])
               /\ \A k \in 1 .. Cap - 1 : Of(t)[k] = IF k < p THEN Of(r)[k] ELSE Of(r)[k + 1]
        BY <3>4
      <4>2. i \in 1 .. Cap - 1
        BY <1>0, <2>3, <3>4
      <4>3. ~(i < p)
        <5> SUFFICES ASSUME i < p PROVE FALSE
          OBVIOUS
        <5>1. i \in 1 .. p - 1 /\ Of(t)[i] = Of(r)[i]
          BY <4>1, <4>2
        <5> QED  BY <4>1, <5>1 DEF IsFor
      <4>4. Of(t)[i] = Of(r)[i + 1] /\ i + 1 \in 1 .. r.count
        BY <1>0, <3>4, <4>1, <4>2, <4>3
      <4>5. ASSUME NEW j \in i + 2 .. r.count PROVE ~IsFor(Of(r)[j], s)
        <5>1. j - 1 \in 1 .. Cap - 1 /\ j - 1 \in i + 1 .. t.count /\ ~(j - 1 < p) /\ (j - 1) + 1 = j
          BY <1>0, <3>4, <4>2, <4>3
        <5>2. Of(t)[j - 1] = Of(r)[j]
          BY <4>1, <5>1
        <5> QED  BY <5>1, <5>2
      <4>6. (i + 1) + 1 = i + 2
        BY <4>2
      <4> QED  BY <3>2, <4>4, <4>5, <4>6 DEF Newest
    <3> QED  BY <1>2, <3>3, <3>4 DEF Took
  <2> QED  BY <2>2, <2>3
<1> QED  BY <1>1, <1>2

-----------------------------------------------------------------------------
(* A call of tick(). *)

Baselines == [Topics -> Values \cup {None}]

\* What tick() may have reached after some of its slots.
Fine == {st \in [ring : Ring, baseline : Baselines, tried : BOOLEAN] :
            RingFits(st.ring) /\ Newest(st.ring, st.baseline)}

\* A slot offered leaves its baseline at the newest message for it.
LEMMA OfferFits ==
    ASSUME NEW st \in Fine, NEW s \in Topics, NEW force \in BOOLEAN, reading \in [Topics -> Values]
    PROVE  /\ Offer(st, s, force) \in Fine
           /\ \/ Offer(st, s, force).ring = st.ring
              \/ /\ Offer(st, s, force).ring = Enqueue(st.ring, Telemetry(s, reading[s]))
                 /\ Telemetry(s, reading[s]) \in Messages
<1> DEFINE m  == Telemetry(s, reading[s])
           r  == Enqueue(st.ring, m)
           b  == IF Accepts(st.ring) THEN [st.baseline EXCEPT ![s] = reading[s]] ELSE st.baseline
<1>1. /\ RingFits(st.ring) /\ st.baseline \in Baselines /\ Newest(st.ring, st.baseline)
      /\ reading[s] \in Values
  BY DEF Fine
<1>2. m \in Messages /\ Droppable(m) /\ m.slot = s /\ m.value = reading[s]
  BY <1>1, MessageFacts
<1>3. b \in Baselines /\ \A x \in Topics : b[x] = IF Accepts(st.ring) /\ x = s THEN reading[s] ELSE st.baseline[x]
  BY <1>1 DEF Baselines
<1>4. Offer(st, s, force) = st \/ Offer(st, s, force) = [ring |-> r, baseline |-> b, tried |-> TRUE]
  BY DEF Offer
<1> HIDE DEF m, b
<1>5. RingFits(r) /\ Took(st.ring, r, m)
  BY <1>1, <1>2, EnqueueFits
<1> HIDE DEF r
<1>6. \A x \in Topics : IF Accepts(st.ring) /\ IsFor(m, x) THEN b[x] = m.value ELSE b[x] = st.baseline[x]
  BY <1>2, <1>3 DEF IsFor
<1>7. Newest(r, b)
  BY <1>1, <1>2, <1>5, <1>6, TookNewest
<1>8. [ring |-> r, baseline |-> b, tried |-> TRUE] \in Fine
  BY <1>3, <1>5, <1>7 DEF Fine, RingFits
<1> DEFINE o == Offer(st, s, force)
<1>9. (o = st \/ o = [ring |-> r, baseline |-> b, tried |-> TRUE]) => o \in Fine /\ (o.ring = st.ring \/ o.ring = r)
  <2> HIDE DEF o
  <2>1. CASE o = st
    BY <2>1
  <2>2. CASE o = [ring |-> r, baseline |-> b, tried |-> TRUE]
    <3>1. o \in Fine
      BY <1>8, <2>2
    <3>2. o.ring = r
      BY <2>2
    <3> QED  BY <3>1, <3>2
  <2> QED  BY <2>1, <2>2
<1> QED  BY <1>2, <1>4, <1>9 DEF m, r

\* The slots are a sequence of topics.
LEMMA SlotFacts == Len(Slots) \in Nat /\ \A i \in 1 .. Len(Slots) : Slots[i] \in Topics
<1>1. Slots \in Seq(Topics)
  BY PublisherAssumption DEF Topics
<1> QED  BY <1>1

\* tick() goes through its slots one by one.
LEMMA OffersRun ==
    ASSUME RingFits(ring), baseline \in Baselines, Newest(ring, baseline),
           reading \in [Topics -> Values]
    PROVE  /\ AfterOffers \in [0 .. Len(Slots) -> Fine]
           /\ AfterOffers[0] = [ring |-> ring, baseline |-> baseline, tried |-> FALSE]
           /\ \A i \in 1 .. Len(Slots) :
                 \/ AfterOffers[i] = AfterOffers[i - 1]
                 \/ AfterOffers[i] = Offer(AfterOffers[i - 1], Slots[i], HeartbeatDue)
<1> DEFINE n     == Len(Slots)
           start == [ring |-> ring, baseline |-> baseline, tried |-> FALSE]
           Turn(st, i) == IF Slots[i] \in Offered THEN Offer(st, Slots[i], HeartbeatDue) ELSE st
           Whole(g) == [i \in 0 .. n |-> IF i = 0 THEN start ELSE Turn(g[i - 1], i)]
<1>1. start \in Fine /\ n \in Nat /\ HeartbeatDue \in BOOLEAN
  BY SlotFacts DEF Fine, RingFits, HeartbeatDue
<1>2. \A i \in 1 .. n, st \in Fine : Turn(st, i) \in Fine
  BY <1>1, SlotFacts, OfferFits
<1>3. AfterOffers = CHOOSE g : g = Whole(g)
  BY DEF AfterOffers
<1> DEFINE step == [i \in 1 .. n |-> [st \in Fine |-> Turn(st, i)]]
<1>4. step \in [1 .. n -> [Fine -> Fine]]
  <2> HIDE DEF Turn
  <2> QED  BY <1>2
<1>5. PICK f \in [0 .. n -> Fine] : Runs(f, n, start, step)
  <2> HIDE DEF n, start, step
  <2>1. start \in Fine /\ n \in Nat /\ step \in [1 .. n -> [Fine -> Fine]]
    BY <1>1, <1>4
  <2> QED  BY <2>1, StepByStep
<1>6. \A i \in 1 .. n : f[i] = Turn(f[i - 1], i)
  <2> SUFFICES ASSUME NEW i \in 1 .. n PROVE f[i] = Turn(f[i - 1], i)
    OBVIOUS
  <2>1. f[i - 1] \in Fine
    BY <1>1
  <2> HIDE DEF Turn
  <2> QED  BY <1>5, <2>1 DEF Runs
<1>7. f = Whole(f)
  <2> HIDE DEF Turn, start
  <2> QED  BY <1>1, <1>5, <1>6 DEF Runs
<1> DEFINE a == AfterOffers
<1>8. a = Whole(a)
  <2> HIDE DEF Whole
  <2> QED  BY <1>3, <1>7
<1> HIDE DEF a
<1>9. a[0] = start /\ \A i \in 1 .. n : a[i] = Turn(a[i - 1], i)
  <2> HIDE DEF Turn, start
  <2> QED  BY <1>1, <1>8
<1>10. \A i \in 0 .. n : a[i] \in Fine
  <2> DEFINE T == {i \in 0 .. n : a[i] \notin Fine}
  <2> SUFFICES ASSUME T # {} PROVE FALSE
    OBVIOUS
  <2>1. PICK i \in T : \A j \in T : i <= j
    <3>1. T \subseteq Nat
      OBVIOUS
    <3> HIDE DEF T
    <3> QED  BY <3>1, LeastNumber
  <2>2. i \in 1 .. n /\ i - 1 \in 0 .. n /\ i - 1 < i
    BY <1>1, <1>9
  <2>3. a[i - 1] \in Fine
    BY <2>1, <2>2
  <2> HIDE DEF Turn
  <2> QED  BY <1>2, <1>9, <2>2, <2>3
<1>11. a \in [0 .. n -> Fine]
  <2> HIDE DEF Turn, start
  <2> QED  BY <1>8, <1>10
<1> QED  BY <1>9, <1>11 DEF a

-----------------------------------------------------------------------------
(* A burst. *)

Rings == {r \in Ring : RingFits(r)}

\* There are finitely many channels, so a burst has a size.
LEMMA BurstSizeFits ==
    ASSUME inService \subseteq Channels
    PROVE  BurstSize \in Nat
<1>1. Slots \in Seq(Topics) /\ Topics = {Slots[i] : i \in DOMAIN Slots}
  BY PublisherAssumption DEF Topics
<1>2. DOMAIN Slots = 1 .. Len(Slots) /\ Len(Slots) \in Nat /\ Slots \in [1 .. Len(Slots) -> Topics]
  BY <1>1
<1>3. Slots \in Surjection(1 .. Len(Slots), Topics)
  BY <1>1, <1>2 DEF Surjection
<1>4. IsFiniteSet(Topics)
  <2>1. IsFiniteSet(1 .. Len(Slots))
    BY <1>2, FS_Interval
  <2> QED  BY <1>3, <2>1, FS_Surjection
<1>5. inService \in SUBSET Topics
  BY ConstantsFit DEF Constants
<1>6. Cardinality(inService) \in Nat
  BY <1>4, <1>5, FS_Subset, FS_CardinalityType
<1> QED  BY <1>6, ConstantsFit DEF BurstSize, Constants

Flood(after, r) ==
    /\ after \in [0 .. BurstSize -> Rings] /\ after[0] = r
    /\ \A i \in 1 .. BurstSize : after[i] = Enqueue(after[i - 1], Discovery)

\* A burst enqueues its messages one by one.
LEMMA BurstRuns ==
    ASSUME NEW r, RingFits(r), inService \subseteq Channels
    PROVE  \E after : Flood(after, r) /\ Burst(r).ring = after[BurstSize]
<1> DEFINE n == BurstSize
           Whole(g) == [i \in 0 .. n |-> IF i = 0 THEN r ELSE Enqueue(g[i - 1], Discovery)]
           a == CHOOSE g : g = Whole(g)
           step == [i \in 1 .. n |-> [x \in Rings |-> Enqueue(x, Discovery)]]
<1>1. n \in Nat /\ r \in Rings
  BY BurstSizeFits DEF Rings, RingFits
<1>2. \A x \in Rings : Enqueue(x, Discovery) \in Rings
  BY MessageFacts, EnqueueFits DEF Rings, RingFits
<1>3. step \in [1 .. n -> [Rings -> Rings]]
  BY <1>2
<1>4. PICK f \in [0 .. n -> Rings] : Runs(f, n, r, step)
  <2> HIDE DEF n, step
  <2> QED  BY <1>1, <1>3, StepByStep
<1>5. \A i \in 1 .. n : f[i] = Enqueue(f[i - 1], Discovery)
  <2> SUFFICES ASSUME NEW i \in 1 .. n PROVE f[i] = Enqueue(f[i - 1], Discovery)
    OBVIOUS
  <2>1. f[i - 1] \in Rings
    BY <1>1
  <2> QED  BY <1>4, <2>1 DEF Runs
<1>6. f = Whole(f)
  <2> HIDE DEF n
  <2> QED  BY <1>1, <1>4, <1>5 DEF Runs
<1>7. a = Whole(a)
  <2> HIDE DEF Whole
  <2> QED  BY <1>6
<1> HIDE DEF a
<1>8. a[0] = r /\ \A i \in 1 .. n : a[i] = Enqueue(a[i - 1], Discovery)
  BY <1>1, <1>7
<1>9. \A i \in 0 .. n : a[i] \in Rings
  <2> DEFINE T == {i \in 0 .. n : a[i] \notin Rings}
  <2> SUFFICES ASSUME T # {} PROVE FALSE
    OBVIOUS
  <2>1. PICK i \in T : \A j \in T : i <= j
    <3>1. T \subseteq Nat
      OBVIOUS
    <3> HIDE DEF T
    <3> QED  BY <3>1, LeastNumber
  <2>2. i \in 1 .. n /\ i - 1 \in 0 .. n /\ i - 1 < i
    BY <1>1, <1>8
  <2>3. a[i - 1] \in Rings
    BY <2>1, <2>2
  <2> QED  BY <1>2, <1>8, <2>2, <2>3
<1>10. a \in [0 .. n -> Rings]
  BY <1>7, <1>9
<1>11. Burst(r).ring = a[n]
  BY DEF Burst, a
<1> QED  BY <1>8, <1>10, <1>11 DEF Flood

\* What a burst sends is for no slot: what is last for one stays so.
LEMMA FloodNewest ==
    ASSUME NEW after, NEW r, NEW base, Flood(after, r), Newest(r, base), BurstSize \in Nat
    PROVE  Newest(after[BurstSize], base)
<1> DEFINE T == {i \in 0 .. BurstSize : ~Newest(after[i], base)}
<1> SUFFICES ASSUME T # {} PROVE FALSE
  OBVIOUS
<1>1. PICK i \in T : \A j \in T : i <= j
  <2>1. T \subseteq Nat
    OBVIOUS
  <2> HIDE DEF T
  <2> QED  BY <2>1, LeastNumber
<1>2. i \in 1 .. BurstSize /\ i - 1 \in 0 .. BurstSize /\ i - 1 < i
  BY DEF Flood
<1>3. Newest(after[i - 1], base)
  BY <1>1, <1>2
<1>4. /\ RingFits(after[i - 1]) /\ RingFits(after[i]) /\ Took(after[i - 1], after[i], Discovery)
      /\ Discovery \in Messages /\ \A s \in Topics : ~IsFor(Discovery, s)
  BY <1>2, MessageFacts, EnqueueFits DEF Flood, Rings, IsFor
<1>5. Newest(after[i], base)
  BY <1>3, <1>4, TookNewest
<1> QED  BY <1>5

-----------------------------------------------------------------------------
(* The invariant. *)

Policies == [connected : BOOLEAN, published : BOOLEAN, bitmap : SUBSET Channels]

\* The ring is one, and the last it holds for each slot is the slot's baseline.
QueueFits == RingFits(ring) /\ baseline \in Baselines /\ Newest(ring, baseline)

\* The rest has its types.
RestFits ==
    /\ broker \in Baselines /\ reading \in [Topics -> Values]
    /\ forceFull \in BOOLEAN /\ everPublished \in BOOLEAN /\ ticked \in BOOLEAN
    /\ connected \in BOOLEAN /\ upLatched \in BOOLEAN /\ downLatched \in BOOLEAN
    /\ lastFull \in 0 .. Wrap - 1 /\ lastPublish \in 0 .. Wrap - 1 /\ clock \in 0 .. Wrap - 1
    /\ changes \in 0 .. Changes /\ pc \in Steps /\ birth \in BOOLEAN
    /\ ha \in Policies /\ inService \in SUBSET Channels
    /\ whole \in BOOLEAN /\ announced \in SUBSET Channels

\* A loss still to be noticed is one that has not been made good, so noticing it late takes
\* nothing from a later connection.
LinkFits ==
    /\ downLatched => ~connected
    /\ connected /\ ~upLatched => ha.connected

PublisherFits == QueueFits /\ RestFits /\ LinkFits

\* A burst leaves a ring and its last messages, whether it was whole or not.
LEMMA BurstFits ==
    ASSUME NEW r, NEW base, RingFits(r), Newest(r, base), inService \in SUBSET Channels
    PROVE  RingFits(Burst(r).ring) /\ Newest(Burst(r).ring, base) /\ Burst(r).whole \in BOOLEAN
<1>1. PICK after : Flood(after, r) /\ Burst(r).ring = after[BurstSize]
  BY BurstRuns
<1>2. BurstSize \in Nat
  BY BurstSizeFits
<1>3. RingFits(Burst(r).ring)
  <2>1. after[BurstSize] \in Rings
    BY <1>1, <1>2 DEF Flood
  <2> QED  BY <1>1, <2>1 DEF Rings
<1>4. Newest(Burst(r).ring, base)
  BY <1>1, <1>2, FloodNewest
<1>5. Burst(r).whole \in BOOLEAN
  BY DEF Burst
<1> QED  BY <1>3, <1>4, <1>5

\* So it does wherever the pass sends one, and what it announced are channels.
LEMMA BurstIntoFits ==
    ASSUME RestFits, NEW r, RingFits(r), Newest(r, baseline), BurstInto(r)
    PROVE  /\ RingFits(ring') /\ Newest(ring', baseline)
           /\ whole' \in BOOLEAN /\ announced' \in SUBSET Channels
<1>1. inService \in SUBSET Channels /\ announced \in SUBSET Channels
  BY DEF RestFits
<1>2. /\ RingFits(Burst(r).ring) /\ Newest(Burst(r).ring, baseline)
      /\ Burst(r).whole \in BOOLEAN
  BY <1>1, BurstFits
<1>3. /\ ring' = Burst(r).ring /\ whole' = Burst(r).whole
      /\ announced' \in {inService, announced}
  BY DEF BurstInto
<1> QED  BY <1>1, <1>2, <1>3

\* What greets a connection before its burst is for no slot either.
LEMMA GreetedFits ==
    ASSUME QueueFits
    PROVE  RingFits(Greeted) /\ Newest(Greeted, baseline)
<1> DEFINE r1 == Enqueue(ring, Online)
<1>0. RingFits(ring) /\ Newest(ring, baseline)
  BY DEF QueueFits
<1>1. Online \in Messages /\ \A s \in Topics : ~IsFor(Online, s)
  BY MessageFacts DEF IsFor
<1>2. RingFits(r1) /\ Newest(r1, baseline)
  BY <1>0, <1>1, EnqueueFits, TookNewest
<1>3. Greeted = Enqueue(r1, Online)
  BY DEF Greeted
<1> HIDE DEF r1
<1> QED  BY <1>1, <1>2, <1>3, EnqueueFits, TookNewest

\* tick() leaves a ring whose last messages are the baselines it moved.
LEMMA TickFits ==
    ASSUME PublisherFits, Tick
    PROVE  /\ RingFits(ring') /\ baseline' \in Baselines /\ Newest(ring', baseline')
           /\ forceFull' \in BOOLEAN /\ everPublished' \in BOOLEAN
           /\ lastFull' \in 0 .. Wrap - 1 /\ lastPublish' \in 0 .. Wrap - 1
<1>0. /\ RingFits(ring) /\ baseline \in Baselines /\ Newest(ring, baseline)
      /\ forceFull \in BOOLEAN /\ everPublished \in BOOLEAN /\ clock \in 0 .. Wrap - 1
      /\ lastFull \in 0 .. Wrap - 1 /\ lastPublish \in 0 .. Wrap - 1
      /\ reading \in [Topics -> Values]
  BY DEF PublisherFits, QueueFits, RestFits
<1>1. AfterTick \in Fine
  BY <1>0, OffersRun, SlotFacts DEF AfterTick
<1>2. (ring' = AfterTick.ring /\ baseline' = AfterTick.baseline) \/ UNCHANGED <<ring, baseline>>
  BY DEF Tick
<1>3. RingFits(ring') /\ baseline' \in Baselines /\ Newest(ring', baseline')
  BY <1>0, <1>1, <1>2 DEF Fine
<1>4. /\ lastFull' \in {clock, lastFull} /\ forceFull' \in BOOLEAN
      /\ (lastPublish' = clock /\ everPublished' = TRUE) \/ UNCHANGED <<lastPublish, everPublished>>
  <2>1. CASE HeartbeatDue \/ RateCleared
    <3>1. /\ lastFull' = IF HeartbeatDue THEN clock ELSE lastFull
          /\ forceFull' = (forceFull /\ ~HeartbeatDue)
          /\ (lastPublish' = clock /\ everPublished' = TRUE) \/ UNCHANGED <<lastPublish, everPublished>>
      BY <2>1 DEF Tick
    <3> QED  BY <3>1
  <2>2. CASE ~(HeartbeatDue \/ RateCleared)
    BY <1>0, <2>2 DEF Tick, flags
  <2> QED  BY <2>1, <2>2
<1> QED  BY <1>0, <1>3, <1>4

\* pump() takes messages from the head, and the others keep their order.
LEMMA PumpFits ==
    ASSUME PublisherFits, NEW refused, Pump(refused)
    PROVE  /\ RingFits(ring') /\ broker' \in Baselines
           /\ Batch \in 0 .. ring.count /\ ring'.count = ring.count - Batch
           /\ \A i \in 1 .. ring'.count : Of(ring')[i] = Of(ring)[i + Batch]
<1> DEFINE a == [c \in 0 .. Cap - 1 |->
                    IF (c - ring.head) % Cap < Batch THEN Empty ELSE ring.at[c]]
           t == [head |-> Cell(ring, Batch), count |-> ring.count - Batch, at |-> a]
<1>0. /\ RingFits(ring) /\ broker \in Baselines /\ connected \in BOOLEAN
      /\ Cap \in Nat \ {0} /\ PumpMax \in Nat \ {0}
  BY ConstantsFit DEF PublisherFits, QueueFits, RestFits, Constants
<1>1. /\ ring \in Ring /\ ring.head \in 0 .. Cap - 1 /\ ring.count \in 0 .. Cap
      /\ \A i \in 0 .. Cap - 1 :
            IF i < ring.count THEN ring.at[Cell(ring, i)] \in Messages ELSE ring.at[Cell(ring, i)] = Empty
  BY <1>0 DEF RingFits, Ring
<1>2. Batch \in 0 .. ring.count
  BY <1>0, <1>1 DEF Batch
<1>3. ring' = t
  BY DEF Pump
<1>4. t.head = Cell(ring, Batch) /\ t.count = ring.count - Batch /\ t.at = a
  OBVIOUS
<1>5. t.head \in 0 .. Cap - 1 /\ t.count \in 0 .. Cap
      /\ t.head = IF ring.head + Batch < Cap THEN ring.head + Batch ELSE ring.head + Batch - Cap
  <2>1. Batch \in 0 .. Cap
    BY <1>0, <1>1, <1>2
  <2>2. /\ Cell(ring, Batch) \in 0 .. Cap - 1
        /\ Cell(ring, Batch) = IF ring.head + Batch < Cap THEN ring.head + Batch
                                                          ELSE ring.head + Batch - Cap
    BY <1>1, <2>1, CellFacts
  <2>3. ring.count - Batch \in 0 .. Cap
    BY <1>0, <1>1, <1>2
  <2> HIDE DEF t
  <2> QED  BY <1>4, <2>2, <2>3
<1>6. a \in [0 .. Cap - 1 -> Messages \cup {Empty}]
  <2>1. \A c \in 0 .. Cap - 1 : ring.at[c] \in Messages \cup {Empty}
    BY <1>1 DEF Ring
  <2> QED  BY <2>1
<1>7. t \in Ring
  <2> DEFINE h == Cell(ring, Batch)
             n == ring.count - Batch
  <2>1. h \in 0 .. Cap - 1 /\ n \in 0 .. Cap
    BY <1>4, <1>5
  <2> HIDE DEF a, h, n
  <2>2. [head |-> h, count |-> n, at |-> a] \in Ring
    BY <1>6, <2>1 DEF Ring
  <2> QED  BY <2>2 DEF h, n
<1>8. \A c \in 0 .. Cap - 1 :
        t.at[c] = IF (c - ring.head) % Cap < Batch THEN Empty ELSE ring.at[c]
  BY <1>4
<1> HIDE DEF a, t
<1>9. ASSUME NEW i \in 0 .. Cap - 1, i + Batch < Cap
      PROVE  Cell(t, i) = Cell(ring, i + Batch) /\ t.at[Cell(t, i)] = ring.at[Cell(ring, i + Batch)]
  <2>1. i + Batch \in 0 .. Cap - 1 /\ i \in 0 .. Cap /\ i + Batch \in 0 .. Cap
    BY <1>0, <1>1, <1>2, <1>9
  <2>2. Cell(t, i) = IF t.head + i < Cap THEN t.head + i ELSE t.head + i - Cap
    BY <1>5, <2>1, CellFacts
  <2>3. /\ Cell(ring, i + Batch) = IF ring.head + (i + Batch) < Cap THEN ring.head + (i + Batch)
                                                                   ELSE ring.head + (i + Batch) - Cap
        /\ Cell(ring, i + Batch) \in 0 .. Cap - 1
        /\ (Cell(ring, i + Batch) - ring.head) % Cap = i + Batch
    BY <1>1, <2>1, CellFacts
  <2>4. Cell(t, i) = Cell(ring, i + Batch)
    BY <1>0, <1>1, <1>2, <1>5, <2>1, <2>2, <2>3
  <2>5. ~(i + Batch < Batch)
    BY <1>1, <1>2, <2>1
  <2> QED  BY <1>8, <2>3, <2>4, <2>5
<1>10. ASSUME NEW i \in 0 .. Cap - 1, ~(i + Batch < Cap)
       PROVE  t.at[Cell(t, i)] = Empty
  <2>1. i + Batch - Cap \in 0 .. Cap - 1 /\ i \in 0 .. Cap /\ i + Batch - Cap < Batch
    BY <1>0, <1>1, <1>2, <1>10
  <2>2. Cell(t, i) = IF t.head + i < Cap THEN t.head + i ELSE t.head + i - Cap
    BY <1>5, <2>1, CellFacts
  <2> DEFINE k == i + Batch - Cap
  <2>3. /\ Cell(ring, k) = IF ring.head + k < Cap THEN ring.head + k ELSE ring.head + k - Cap
        /\ Cell(ring, k) \in 0 .. Cap - 1
        /\ (Cell(ring, k) - ring.head) % Cap = k
    <3>1. k \in 0 .. Cap - 1 /\ k \in 0 .. Cap
      BY <1>0, <2>1
    <3> HIDE DEF k
    <3> QED  BY <1>1, <3>1, CellFacts
  <2>4. Cell(t, i) = Cell(ring, k)
    BY <1>0, <1>1, <1>2, <1>5, <2>1, <2>2, <2>3
  <2> QED  BY <1>8, <2>1, <2>3, <2>4
<1>11. \A i \in 0 .. Cap - 1 : IF i < t.count THEN t.at[Cell(t, i)] \in Messages
                                              ELSE t.at[Cell(t, i)] = Empty
  <2> SUFFICES ASSUME NEW i \in 0 .. Cap - 1
               PROVE  IF i < t.count THEN t.at[Cell(t, i)] \in Messages ELSE t.at[Cell(t, i)] = Empty
    OBVIOUS
  <2>1. CASE i + Batch < Cap
    <3>1. i + Batch \in 0 .. Cap - 1 /\ (i < t.count <=> i + Batch < ring.count)
      BY <1>0, <1>1, <1>2, <1>4, <2>1
    <3> QED  BY <1>1, <1>9, <2>1, <3>1
  <2>2. CASE ~(i + Batch < Cap)
    <3>1. ~(i < t.count)
      BY <1>0, <1>1, <1>2, <1>4, <2>2
    <3> QED  BY <1>10, <2>2, <3>1
  <2> QED  BY <2>1, <2>2
<1>12. RingFits(t)
  BY <1>7, <1>11 DEF RingFits
<1>13. ASSUME NEW i \in 1 .. t.count PROVE Of(t)[i] = Of(ring)[i + Batch]
  <2>1. i - 1 \in 0 .. Cap - 1 /\ (i - 1) + Batch < Cap /\ (i + Batch) - 1 = (i - 1) + Batch
        /\ i + Batch \in 1 .. ring.count
    BY <1>0, <1>1, <1>2, <1>4
  <2>2. Of(t)[i] = t.at[Cell(t, i - 1)] /\ Of(ring)[i + Batch] = ring.at[Cell(ring, (i + Batch) - 1)]
    BY <1>0, <1>12, <2>1, OfFacts
  <2> QED  BY <1>9, <2>1, <2>2
<1>14. broker' \in Baselines
  <2> DEFINE took(s) == Sent(s) \ refused
             last(s) == CHOOSE i \in took(s) : \A j \in took(s) : j <= i
  <2>1. broker' = [s \in Topics |-> IF took(s) = {} THEN broker[s]
                                    ELSE ring.at[Cell(ring, last(s))].value]
    BY DEF Pump
  <2>2. ASSUME NEW s \in Topics, took(s) # {} PROVE ring.at[Cell(ring, last(s))].value \in Values
    <3>1. Sent(s) \subseteq 0 .. Batch - 1
      BY DEF Sent
    <3>2. Batch - 1 \in Int /\ took(s) \subseteq 0 .. Batch - 1
      BY <1>1, <1>2, <3>1
    <3>3. \E i \in took(s) : \A j \in took(s) : j <= i
      <4> HIDE DEF took
      <4> QED  BY <2>2, <3>2, GreatestNumber
    <3>4. last(s) \in took(s)
      BY <3>3
    <3> DEFINE i == last(s)
    <3> HIDE DEF last
    <3>5. i \in 0 .. Cap - 1 /\ i < ring.count /\ Droppable(ring.at[Cell(ring, i)])
      BY <1>0, <1>1, <1>2, <3>2, <3>4 DEF Sent
    <3> QED  BY <1>1, <3>5, MessageFacts
  <2> HIDE DEF took, last
  <2> QED  BY <1>0, <2>1, <2>2 DEF Baselines
<1> QED  BY <1>2, <1>3, <1>4, <1>12, <1>13, <1>14

\* Nothing that was last for a slot is uncovered by it.
LEMMA PumpNewest ==
    ASSUME PublisherFits, NEW refused, Pump(refused)
    PROVE  Newest(ring', baseline)
<1>1. /\ Batch \in 0 .. ring.count /\ ring'.count = ring.count - Batch /\ ring.count \in Nat
      /\ \A i \in 1 .. ring'.count : Of(ring')[i] = Of(ring)[i + Batch]
      /\ Newest(ring, baseline)
  BY PumpFits, OfFacts DEF PublisherFits, QueueFits
<1> SUFFICES ASSUME NEW s \in Topics, baseline[s] # None, NEW i \in 1 .. ring'.count,
                    IsFor(Of(ring')[i], s), \A j \in i + 1 .. ring'.count : ~IsFor(Of(ring')[j], s)
             PROVE  Of(ring')[i].value = baseline[s]
  BY DEF Newest
<1>2. i + Batch \in 1 .. ring.count /\ Of(ring')[i] = Of(ring)[i + Batch]
  BY <1>1
<1>3. ASSUME NEW j \in (i + Batch) + 1 .. ring.count PROVE ~IsFor(Of(ring)[j], s)
  <2>1. j - Batch \in i + 1 .. ring'.count /\ j - Batch \in 1 .. ring'.count /\ (j - Batch) + Batch = j
    BY <1>1
  <2>2. Of(ring')[j - Batch] = Of(ring)[j]
    BY <1>1, <2>1
  <2> QED  BY <2>1, <2>2
<1> QED  BY <1>1, <1>2, <1>3 DEF Newest

\* The device starts with an empty ring and no connection.
LEMMA InitFits == Init => PublisherFits
<1> SUFFICES ASSUME Init PROVE PublisherFits
  OBVIOUS
<1>0. Cap \in Nat \ {0} /\ Changes \in Nat /\ Wrap \in Nat \ {0}
  BY ConstantsFit DEF Constants
<1>1. RingFits(ring) /\ ring.count = 0
  <2>1. ring.head = 0 /\ ring.count = 0 /\ \A c \in 0 .. Cap - 1 : ring.at[c] = Empty
    BY DEF Init
  <2>2. ring \in Ring
    BY <1>0 DEF Init, Ring
  <2>3. \A i \in 0 .. Cap - 1 : Cell(ring, i) \in 0 .. Cap - 1
    <3>1. \A i \in 0 .. Cap - 1 : i \in 0 .. Cap
      BY <1>0
    <3>2. ring.head \in 0 .. Cap - 1
      BY <1>0, <2>1
    <3> QED  BY <3>1, <3>2, CellFacts
  <2> QED  BY <2>1, <2>2, <2>3 DEF RingFits
<1>2. Newest(ring, baseline)
  BY <1>1 DEF Newest
<1>3. RestFits
  <2>1. broker \in Baselines /\ reading \in [Topics -> Values]
    BY DEF Init, Baselines
  <2>2. ha \in Policies /\ inService \in SUBSET Channels /\ announced \in SUBSET Channels
    BY DEF Init, Policies
  <2>3. 0 \in 0 .. Wrap - 1 /\ Changes \in 0 .. Changes
    BY <1>0
  <2>4. /\ lastFull \in 0 .. Wrap - 1 /\ lastPublish \in 0 .. Wrap - 1 /\ clock \in 0 .. Wrap - 1
        /\ changes \in 0 .. Changes /\ pc \in Steps
    BY <2>3 DEF Init, Steps
  <2>5. /\ forceFull \in BOOLEAN /\ everPublished \in BOOLEAN /\ ticked \in BOOLEAN
        /\ connected \in BOOLEAN /\ upLatched \in BOOLEAN /\ downLatched \in BOOLEAN
        /\ birth \in BOOLEAN /\ whole \in BOOLEAN
    BY DEF Init
  <2> QED  BY <2>1, <2>2, <2>4, <2>5 DEF RestFits
<1>4. baseline \in Baselines /\ LinkFits
  BY DEF Init, Baselines, LinkFits
<1> QED  BY <1>1, <1>2, <1>3, <1>4 DEF PublisherFits, QueueFits

\* Every step of the pass, and of what goes on around it, keeps the three.
LEMMA NextFits == PublisherFits /\ [Next]_vars => PublisherFits'
<1> SUFFICES ASSUME PublisherFits, [Next]_vars PROVE PublisherFits'
  OBVIOUS
<1>0. QueueFits /\ RestFits /\ LinkFits
  BY DEF PublisherFits
<1>c. Wrap \in Nat \ {0} /\ Changes \in Nat
  BY ConstantsFit DEF Constants
<1> USE DEF PublisherFits, QueueFits, LinkFits, link, flags, burst, env
<1>1. CASE TakeConnect
  <2>1. CASE upLatched
    <3>1. BurstInto(Greeted) /\ ha' = OnConnected /\ Restarted
      BY <1>1, <2>1 DEF TakeConnect
    <3>2. /\ RingFits(ring') /\ Newest(ring', baseline)
          /\ whole' \in BOOLEAN /\ announced' \in SUBSET Channels
      BY <1>0, <3>1, GreetedFits, BurstIntoFits
    <3>3. ha' \in Policies /\ ha'.connected = TRUE
      BY <1>0, <3>1 DEF RestFits, Policies, OnConnected
    <3>4. forceFull' \in BOOLEAN /\ everPublished' \in BOOLEAN
      BY <3>1 DEF Restarted
    <3>5. /\ UNCHANGED <<baseline, lastFull, lastPublish, birth, clock, connected, downLatched,
                          broker, env, ticked>>
          /\ upLatched' = FALSE /\ pc' \in Steps
      BY <1>1 DEF TakeConnect, Steps
    <3>6. RestFits'
      BY <1>0, <3>2, <3>3, <3>4, <3>5 DEF RestFits
    <3> QED  BY <1>0, <3>2, <3>3, <3>5, <3>6
  <2>2. CASE ~upLatched
    <3>1. /\ UNCHANGED <<ring, baseline, flags, ha, birth, burst, clock, connected, downLatched,
                          broker, env, ticked>>
          /\ upLatched' = FALSE /\ pc' \in Steps
      BY <1>1, <2>2 DEF TakeConnect, Steps
    <3>2. RestFits'
      BY <1>0, <3>1 DEF RestFits
    <3> QED  BY <1>0, <2>2, <3>1, <3>2
  <2> QED  BY <2>1, <2>2
<1>2. CASE TakeDisconnect
  <2>1. [ha EXCEPT !.connected = FALSE] \in Policies
    BY <1>0 DEF RestFits, Policies
  <2>2. RestFits'
    BY <1>0, <1>2, <2>1 DEF TakeDisconnect, RestFits, Restarted, Steps
  <2>3. QueueFits'
    BY <1>0, <1>2 DEF TakeDisconnect
  <2>4. LinkFits'
    BY <1>0, <1>2 DEF TakeDisconnect
  <2> QED  BY <2>2, <2>3, <2>4
<1>3. CASE TakeBirth \/ Announce
  <2>1. /\ UNCHANGED <<baseline, flags, ha, clock, link, broker, env, ticked>>
        /\ birth' \in {birth, FALSE} /\ pc' \in Steps
        /\ BurstInto(ring) \/ UNCHANGED <<ring, burst>>
    BY <1>3 DEF TakeBirth, Announce, Steps
  <2>2. /\ RingFits(ring') /\ Newest(ring', baseline)
        /\ whole' \in BOOLEAN /\ announced' \in SUBSET Channels
    <3>1. CASE BurstInto(ring)
      BY <1>0, <3>1, BurstIntoFits
    <3>2. CASE UNCHANGED <<ring, burst>>
      BY <1>0, <3>2 DEF RestFits
    <3> QED  BY <2>1, <3>1, <3>2
  <2>3. RestFits'
    BY <1>0, <2>1, <2>2 DEF RestFits
  <2> QED  BY <1>0, <2>1, <2>2, <2>3
<1>13. CASE TestLink \/ TestChannels
  <2>1. /\ UNCHANGED <<ring, baseline, flags, ha, birth, burst, clock, link, broker, env>>
        /\ pc' \in Steps /\ ticked' \in {ticked, FALSE}
    BY <1>13 DEF TestLink, TestChannels, Steps
  <2>2. RestFits'
    BY <1>0, <2>1 DEF RestFits
  <2> QED  BY <1>0, <2>1, <2>2
<1>14. CASE NotePublished
  <2>1. /\ UNCHANGED <<ring, baseline, flags, birth, announced, clock, link, broker, env, ticked>>
        /\ pc' \in Steps /\ whole' = FALSE
        /\ ha' \in {ha, [ha EXCEPT !.published = TRUE, !.bitmap = inService]}
    BY <1>14 DEF NotePublished, AfterNote, Steps
  <2>2. ha' \in Policies /\ ha'.connected = ha.connected
    BY <1>0, <2>1 DEF RestFits, Policies
  <2>3. RestFits'
    BY <1>0, <2>1, <2>2 DEF RestFits
  <2> QED  BY <1>0, <2>1, <2>2, <2>3
<1>4. CASE Tick
  <2>1. /\ RingFits(ring') /\ baseline' \in Baselines /\ Newest(ring', baseline')
        /\ forceFull' \in BOOLEAN /\ everPublished' \in BOOLEAN
        /\ lastFull' \in 0 .. Wrap - 1 /\ lastPublish' \in 0 .. Wrap - 1
    BY <1>4, TickFits
  <2>2. UNCHANGED <<ha, birth, burst, clock, link, broker, env>> /\ pc' \in Steps
        /\ ticked' = FALSE
    BY <1>4 DEF Tick, Steps
  <2>3. RestFits'
    BY <1>0, <2>1, <2>2 DEF RestFits
  <2> QED  BY <1>0, <2>1, <2>2, <2>3
<1>5. CASE PumpStep
  <2>1. PICK refused : Pump(refused) /\ (UNCHANGED changes \/ Change)
    BY <1>5 DEF PumpStep
  <2>2. RingFits(ring') /\ broker' \in Baselines /\ Newest(ring', baseline)
    BY <2>1, PumpFits, PumpNewest
  <2>3. /\ UNCHANGED <<baseline, flags, ha, birth, burst, clock, link, reading, inService, ticked>>
        /\ pc' \in Steps
    BY <2>1 DEF Pump, Steps
  <2>4. changes' \in 0 .. Changes
    BY <1>0, <1>c, <2>1 DEF RestFits, Change
  <2>5. RestFits'
    BY <1>0, <2>2, <2>3, <2>4 DEF RestFits
  <2> QED  BY <1>0, <2>2, <2>3, <2>5
<1>6. CASE RequestFullPublish \/ EspBirth
  <2>1. changes' \in 0 .. Changes
    BY <1>0, <1>c, <1>6 DEF RestFits, Change, RequestFullPublish, EspBirth
  <2>2. /\ UNCHANGED <<ring, baseline, everPublished, lastFull, lastPublish, ha, burst, clock, link,
                       pc, reading, inService, broker, ticked>>
        /\ (forceFull' = TRUE /\ birth' = birth) \/ (birth' = TRUE /\ forceFull' = forceFull)
    BY <1>6 DEF RequestFullPublish, EspBirth
  <2>3. RestFits'
    BY <1>0, <2>1, <2>2 DEF RestFits
  <2> QED  BY <1>0, <2>2, <2>3
<1>7. CASE Configure
  <2>1. changes' \in 0 .. Changes
    BY <1>0, <1>c, <1>7 DEF RestFits, Change, Configure
  <2>2. baseline' \in Baselines /\ Newest(ring, baseline')
    BY <1>7 DEF Configure, Baselines, Newest
  <2> QED  BY <1>0, <1>7, <2>1, <2>2 DEF RestFits, Configure
<1>8. CASE EspConnected \/ EspDisconnected
  <2>1. changes' \in 0 .. Changes
    BY <1>0, <1>c, <1>8 DEF RestFits, Change, EspConnected, EspDisconnected
  <2>2. /\ UNCHANGED <<ring, baseline, flags, ha, birth, burst, clock, pc, reading, inService, broker,
                       ticked>>
        /\ \/ /\ ~downLatched /\ connected' = TRUE /\ upLatched' = TRUE /\ downLatched' = downLatched
           \/ connected' = FALSE /\ downLatched' = TRUE /\ upLatched' = upLatched
    BY <1>8 DEF EspConnected, EspDisconnected
  <2>3. RestFits'
    BY <1>0, <2>1, <2>2 DEF RestFits
  <2> QED  BY <1>0, <2>2, <2>3
<1>9. ASSUME NEW s \in Topics, NEW v \in Values, ReadingChanges(s, v) PROVE PublisherFits'
  <2>1. changes' \in 0 .. Changes
    BY <1>0, <1>c, <1>9 DEF RestFits, Change, ReadingChanges
  <2>2. reading' \in [Topics -> Values]
    BY <1>0, <1>9 DEF RestFits, ReadingChanges
  <2> QED  BY <1>0, <1>9, <2>1, <2>2 DEF RestFits, ReadingChanges
<1>10. ASSUME NEW channels \in SUBSET Channels, ChannelsChange(channels) PROVE PublisherFits'
  <2>1. changes' \in 0 .. Changes
    BY <1>0, <1>c, <1>10 DEF RestFits, Change, ChannelsChange
  <2> QED  BY <1>0, <1>10, <2>1 DEF RestFits, ChannelsChange
<1>11. CASE TimePasses
  <2>1. clock' \in 0 .. Wrap - 1
    <3>1. clock + 1 \in Int
      BY <1>0, <1>c DEF RestFits
    <3> QED  BY <1>c, <1>11, <3>1, Division DEF TimePasses
  <2> QED  BY <1>0, <1>11, <2>1 DEF RestFits, TimePasses
<1>12. CASE UNCHANGED vars
  BY <1>0, <1>12 DEF RestFits, vars
<1> QED
  BY <1>1, <1>2, <1>3, <1>4, <1>5, <1>6, <1>7, <1>8, <1>9, <1>10, <1>11, <1>12,
     <1>13, <1>14 DEF Next

\* However the ring wraps, overflows and gives way, its head and count stay in it and its
\* occupied cells, and no others, hold messages: for any length of it and any size of a burst.
THEOREM TypesAlwaysHold == Spec => []TypeOK
<1>1. PublisherFits => TypeOK
  BY DEF PublisherFits, QueueFits, RestFits, RingFits, Ring, Baselines, Policies, TypeOK
<1> QED
  BY InitFits, NextFits, <1>1, PTL DEF Spec

\* The newest telemetry queued for a slot is what change detection compares the next reading
\* with, for any number of topics and readings and any length of the ring: a message that
\* gives way is older than any that could have been left as the last word.
THEOREM BaselineAlwaysNewest == Spec => []BaselineIsNewest
<1>1. PublisherFits => BaselineIsNewest
  <2> SUFFICES ASSUME PublisherFits, NEW s \in Topics,
                      {i \in DOMAIN Queued : Droppable(Queued[i]) /\ Queued[i].slot = s} # {},
                      baseline[s] # None
               PROVE  LET of == {i \in DOMAIN Queued : Droppable(Queued[i]) /\ Queued[i].slot = s}
                      IN  Queued[CHOOSE i \in of : \A j \in of : j <= i].value = baseline[s]
    BY DEF BaselineIsNewest
  <2> DEFINE of == {i \in DOMAIN Queued : Droppable(Queued[i]) /\ Queued[i].slot = s}
             last == CHOOSE i \in of : \A j \in of : j <= i
  <2>1. Queued = Of(ring) /\ DOMAIN Queued = 1 .. ring.count /\ ring.count \in Nat
        /\ Newest(ring, baseline)
    <3>1. RingFits(ring) /\ Newest(ring, baseline)
      BY DEF PublisherFits, QueueFits
    <3>2. Queued = Of(ring)
      BY DEF Queued, Of
    <3> QED  BY <3>1, <3>2, OfFacts
  <2>2. of \subseteq 0 .. ring.count /\ of # {}
    BY <2>1
  <2>3. last \in of /\ \A j \in of : j <= last
    <3>1. \E i \in of : \A j \in of : j <= i
      <4> HIDE DEF of
      <4>1. ring.count \in Int
        BY <2>1
      <4> QED  BY <2>2, <4>1, GreatestNumber
    <3> HIDE DEF of
    <3> QED  BY <3>1
  <2> HIDE DEF last
  <2>4. last \in 1 .. ring.count /\ IsFor(Of(ring)[last], s)
    BY <2>1, <2>3 DEF IsFor
  <2>5. ASSUME NEW j \in last + 1 .. ring.count PROVE ~IsFor(Of(ring)[j], s)
    BY <2>1, <2>3, <2>4 DEF IsFor
  <2> QED  BY <2>1, <2>4, <2>5 DEF Newest, last
<1> QED
  BY InitFits, NextFits, <1>1, PTL DEF Spec

\* A connection is never overlooked: whenever it is up and its notice was taken, the policy
\* knows of it, whatever losses came before or were noticed late, and whether or not the ring
\* took the burst that greeted it.
THEOREM PolicyAlwaysKnows == Spec => []PolicyKnowsLink
<1>1. PublisherFits => PolicyKnowsLink
  BY DEF PublisherFits, LinkFits, PolicyKnowsLink
<1> QED
  BY InitFits, NextFits, <1>1, PTL DEF Spec

-----------------------------------------------------------------------------
(* The queue that LossyQueue promises. *)

\* A sequence of messages without its oldest telemetry.
LEMMA LighterFacts ==
    ASSUME NEW s \in Seq(Messages), NEW p \in 1 .. Len(s), Droppable(s[p]),
           \A j \in 1 .. p - 1 : ~Droppable(s[j])
    PROVE  /\ Fifo!Lighter(s) \in Seq(Messages) /\ Len(Fifo!Lighter(s)) = Len(s) - 1
           /\ \A i \in 1 .. Len(s) - 1 : Fifo!Lighter(s)[i] = IF i < p THEN s[i] ELSE s[i + 1]
<1> DEFINE Oldest(i) == \A j \in Fifo!Spare(s) : i <= j
           o == CHOOSE i \in Fifo!Spare(s) : Oldest(i)
<1>1. Fifo!Spare(s) = {i \in 1 .. Len(s) : Droppable(s[i])}
  BY DEF Fifo!Spare
<1>2. p \in Fifo!Spare(s) /\ Oldest(p)
  BY <1>1
<1>3. o = p
  <2>1. o \in Fifo!Spare(s) /\ Oldest(o)
    BY <1>2
  <2> HIDE DEF o
  <2> QED  BY <1>1, <1>2, <2>1
<1>4. Fifo!Lighter(s) = SubSeq(s, 1, p - 1) \o SubSeq(s, p + 1, Len(s))
  <2>1. Fifo!Lighter(s) = Fifo!RemoveAt(s, o)
    BY <1>2 DEF Fifo!Lighter
  <2> HIDE DEF o
  <2> QED  BY <1>3, <2>1 DEF Fifo!RemoveAt
<1> HIDE DEF o
<1> DEFINE a == SubSeq(s, 1, p - 1)
           b == SubSeq(s, p + 1, Len(s))
<1>5. a \in Seq(Messages) /\ Len(a) = p - 1 /\ \A i \in 1 .. p - 1 : a[i] = s[i]
  OBVIOUS
<1>6. b \in Seq(Messages) /\ Len(b) = Len(s) - p /\ \A i \in 1 .. Len(s) - p : b[i] = s[i + p]
  OBVIOUS
<1> HIDE DEF a, b
<1>7. a \o b \in Seq(Messages) /\ Len(a \o b) = Len(s) - 1
  <2>1. a \o b \in Seq(Messages) /\ Len(a \o b) = Len(a) + Len(b)
    <3>1. a \in Seq(Messages) /\ b \in Seq(Messages)
      BY <1>5, <1>6
    <3> QED  BY <3>1
  <2>2. Len(a) + Len(b) = Len(s) - 1
    <3>1. Len(s) \in Nat /\ p \in Nat /\ Len(a) = p - 1 /\ Len(b) = Len(s) - p
      BY <1>5, <1>6
    <3> HIDE DEF Messages
    <3> QED  BY <3>1
  <2> QED  BY <2>1, <2>2
<1>8. \A i \in 1 .. Len(s) - 1 : (a \o b)[i] = IF i <= p - 1 THEN a[i] ELSE b[i - (p - 1)]
  <2>1. \A i \in 1 .. Len(a) + Len(b) : (a \o b)[i] = IF i <= Len(a) THEN a[i] ELSE b[i - Len(a)]
    BY <1>5, <1>6
  <2>2. Len(a) + Len(b) = Len(s) - 1
    BY <1>5, <1>6
  <2> QED  BY <1>5, <2>1, <2>2
<1>9. ASSUME NEW i \in 1 .. Len(s) - 1 PROVE (a \o b)[i] = IF i < p THEN s[i] ELSE s[i + 1]
  <2>1. CASE i < p
    BY <1>5, <1>8, <2>1
  <2>2. CASE ~(i < p)
    <3>1. i - (p - 1) \in 1 .. Len(s) - p /\ (i - (p - 1)) + p = i + 1 /\ ~(i <= p - 1)
      BY <2>2
    <3>2. b[i - (p - 1)] = s[i + 1]
      BY <1>6, <3>1
    <3> QED  BY <1>8, <2>2, <3>1, <3>2
  <2> QED  BY <2>1, <2>2
<1> QED  BY <1>4, <1>7, <1>9 DEF a, b

\* Without any telemetry, it has nothing to lose.
LEMMA NothingToLose ==
    ASSUME NEW s \in Seq(Messages), \A i \in 1 .. Len(s) : ~Droppable(s[i])
    PROVE  Fifo!Lighter(s) = s
<1>1. Fifo!Spare(s) = {}
  BY DEF Fifo!Spare
<1> QED  BY <1>1 DEF Fifo!Lighter

\* What is left when the n oldest are lost is a sequence of messages, for each n.
LEMMA WithoutFacts ==
    ASSUME NEW s \in Seq(Messages)
    PROVE  /\ Fifo!Without(s) \in [0 .. Len(s) -> Seq(Messages)] /\ Fifo!Without(s)[0] = s
           /\ \A n \in 1 .. Len(s) : Fifo!Without(s)[n] = Fifo!Lighter(Fifo!Without(s)[n - 1])
<1> DEFINE n == Len(s)
           Whole(g) == [i \in 0 .. n |-> IF i = 0 THEN s ELSE Fifo!Lighter(g[i - 1])]
           a == Fifo!Without(s)
           S == Seq(Messages)
           step == [i \in 1 .. n |-> [x \in S |-> Fifo!Lighter(x)]]
<1>0. n \in Nat
  OBVIOUS
<1>1. ASSUME NEW x \in S PROVE Fifo!Lighter(x) \in S
  <2> DEFINE D == {i \in 1 .. Len(x) : Droppable(x[i])}
  <2>1. CASE D = {}
    BY <2>1, NothingToLose
  <2>2. CASE D # {}
    <3>1. PICK p \in D : \A j \in D : p <= j
      <4>1. D \subseteq Nat
        OBVIOUS
      <4> HIDE DEF D
      <4> QED  BY <2>2, <4>1, LeastNumber
    <3>2. p \in 1 .. Len(x) /\ Droppable(x[p])
      BY <3>1
    <3>3. ASSUME NEW j \in 1 .. p - 1 PROVE ~Droppable(x[j])
      <4>1. j \in 1 .. Len(x) /\ ~(p <= j)
        BY <3>2
      <4> QED  BY <3>1, <4>1
    <3> QED  BY <3>2, <3>3, LighterFacts
  <2> QED  BY <2>1, <2>2
<1>2. a = CHOOSE g : g = Whole(g)
  BY DEF Fifo!Without
<1>3. step \in [1 .. n -> [S -> S]]
  <2> HIDE DEF S
  <2> QED  BY <1>1
<1>4. PICK f \in [0 .. n -> S] : Runs(f, n, s, step)
  <2> HIDE DEF n, step, S
  <2>1. s \in S
    BY DEF S
  <2> QED  BY <1>0, <1>3, <2>1, StepByStep
<1>5. \A i \in 1 .. n : f[i] = Fifo!Lighter(f[i - 1])
  <2> SUFFICES ASSUME NEW i \in 1 .. n PROVE f[i] = Fifo!Lighter(f[i - 1])
    OBVIOUS
  <2>1. f[i - 1] \in S
    BY <1>0
  <2> HIDE DEF S
  <2> QED  BY <1>4, <2>1 DEF Runs
<1>6. f = Whole(f)
  <2> HIDE DEF n, S
  <2> QED  BY <1>0, <1>4, <1>5 DEF Runs
<1>7. a = Whole(a)
  <2> HIDE DEF Whole, a
  <2> QED  BY <1>2, <1>6
<1> HIDE DEF a
<1>8. a[0] = s /\ \A i \in 1 .. n : a[i] = Fifo!Lighter(a[i - 1])
  <2> HIDE DEF n
  <2> QED  BY <1>0, <1>7
<1>9. \A i \in 0 .. n : a[i] \in S
  <2> DEFINE T == {i \in 0 .. n : a[i] \notin S}
  <2> SUFFICES ASSUME T # {} PROVE FALSE
    OBVIOUS
  <2> HIDE DEF n, S
  <2>1. PICK i \in T : \A j \in T : i <= j
    <3>1. T \subseteq Nat
      BY <1>0
    <3> HIDE DEF T
    <3> QED  BY <3>1, LeastNumber
  <2>2. i \in 1 .. n /\ i - 1 \in 0 .. n /\ i - 1 < i
    <3>1. s \in S
      BY DEF S
    <3> QED  BY <1>0, <1>8, <3>1
  <2>3. a[i - 1] \in S
    BY <2>1, <2>2
  <2> QED  BY <1>1, <1>8, <2>2, <2>3
<1>10. a \in [0 .. n -> S]
  <2> HIDE DEF n, S
  <2> QED  BY <1>7, <1>9
<1> QED  BY <1>8, <1>10 DEF a

\* From s the owner's messages have come to t: some of the oldest telemetry of s was given up
\* by a queue that was and stayed full, the rest of s leads t in its order.
Loses(s, t) ==
    \E n \in 0 .. Len(s) :
        LET w == Fifo!Without(s)[n] IN
        /\ Len(w) = Len(s) - n /\ Len(w) <= Len(t) /\ Len(t) <= Cap
        /\ n > 0 => Len(t) = Cap
        /\ \A i \in 1 .. Len(w) : t[i] = w[i]

\* Another message taken, in whichever of the three ways, leaves it so.
LEMMA TookLoses ==
    ASSUME NEW s \in Seq(Messages), Len(s) <= Cap, NEW r, NEW t, NEW m \in Messages,
           RingFits(r), RingFits(t), Took(r, t, m), Loses(s, Of(r))
    PROVE  Loses(s, Of(t))
<1>0. /\ r.count \in 0 .. Cap /\ t.count \in 0 .. Cap /\ Cap \in Nat \ {0}
      /\ Of(r) \in Seq(Messages) /\ Len(Of(r)) = r.count
      /\ Of(t) \in Seq(Messages) /\ Len(Of(t)) = t.count
  BY OfFacts, ConstantsFit DEF Constants
<1>1. PICK n \in 0 .. Len(s) :
         LET w == Fifo!Without(s)[n] IN
         /\ Len(w) = Len(s) - n /\ Len(w) <= Len(Of(r)) /\ Len(Of(r)) <= Cap
         /\ n > 0 => Len(Of(r)) = Cap
         /\ \A i \in 1 .. Len(w) : Of(r)[i] = w[i]
  BY DEF Loses
<1> DEFINE w == Fifo!Without(s)[n]
<1>2. w \in Seq(Messages) /\ Len(s) \in Nat
  BY WithoutFacts
<1>3. /\ Len(w) = Len(s) - n /\ Len(w) <= r.count
      /\ n > 0 => r.count = Cap
      /\ \A i \in 1 .. Len(w) : Of(r)[i] = w[i]
  BY <1>0, <1>1
<1> HIDE DEF w
<1>4. ASSUME t.count >= Len(w), n > 0 => t.count = Cap, \A i \in 1 .. Len(w) : Of(t)[i] = w[i]
      PROVE  Loses(s, Of(t))
  BY <1>0, <1>3, <1>4 DEF Loses, w
<1>5. CASE ~Accepts(r)
  <2>1. t = r
    BY <1>5 DEF Took
  <2> QED  BY <2>1
<1>6. CASE r.count < Cap /\ t.count = r.count + 1 /\ Of(t) = Append(Of(r), m)
  <2>1. \A i \in 1 .. r.count : Of(t)[i] = Of(r)[i]
    BY <1>0, <1>6
  <2>2. n = 0 /\ \A i \in 1 .. Len(w) : i \in 1 .. r.count
    BY <1>0, <1>2, <1>3, <1>6
  <2> QED  BY <1>0, <1>2, <1>3, <1>4, <1>6, <2>1, <2>2
<1>7. CASE r.count = Cap /\ t.count = Cap /\
           \E p \in 1 .. Cap :
              /\ Droppable(Of(r)[p]) /\ \A j \in 1 .. p - 1 : ~Droppable(Of(r)[j])
              /\ \A i \in 1 .. Cap - 1 : Of(t)[i] = IF i < p THEN Of(r)[i] ELSE Of(r)[i + 1]
  <2>1. PICK p \in 1 .. Cap :
           /\ Droppable(Of(r)[p]) /\ \A j \in 1 .. p - 1 : ~Droppable(Of(r)[j])
           /\ \A i \in 1 .. Cap - 1 : Of(t)[i] = IF i < p THEN Of(r)[i] ELSE Of(r)[i + 1]
    BY <1>7
  <2>2. CASE p <= Len(w)
    <3> DEFINE v == Fifo!Without(s)[n + 1]
    <3>1. n + 1 \in 1 .. Len(s) /\ (n + 1) - 1 = n
      BY <1>2, <1>3, <2>2
    <3>2. v = Fifo!Lighter(w)
      BY <3>1, WithoutFacts DEF w
    <3>3. p \in 1 .. Len(w) /\ Droppable(w[p]) /\ \A j \in 1 .. p - 1 : ~Droppable(w[j])
      <4>1. p \in 1 .. Len(w) /\ \A j \in 1 .. p - 1 : j \in 1 .. Len(w)
        BY <1>2, <2>2
      <4> QED  BY <1>3, <2>1, <4>1
    <3> HIDE DEF v
    <3>4. Len(v) = Len(w) - 1 /\ \A i \in 1 .. Len(w) - 1 : v[i] = IF i < p THEN w[i] ELSE w[i + 1]
      BY <1>2, <3>2, <3>3, LighterFacts
    <3>5. ASSUME NEW i \in 1 .. Len(v) PROVE Of(t)[i] = v[i]
      <4>1. i \in 1 .. Len(w) /\ i + 1 \in 1 .. Len(w) /\ i \in 1 .. Cap - 1 /\ i \in 1 .. Len(w) - 1
        BY <1>0, <1>2, <1>3, <1>7, <3>4
      <4> QED  BY <1>3, <2>1, <3>4, <4>1
    <3>6. Len(v) = Len(s) - (n + 1) /\ Len(v) <= Len(Of(t)) /\ Len(Of(t)) = Cap
      BY <1>0, <1>2, <1>3, <1>7, <3>4
    <3>7. n + 1 \in 0 .. Len(s)
      BY <1>2, <3>1
    <3>8. \E k \in 0 .. Len(s) :
             LET u == Fifo!Without(s)[k] IN
             /\ Len(u) = Len(s) - k /\ Len(u) <= Len(Of(t)) /\ Len(Of(t)) <= Cap
             /\ k > 0 => Len(Of(t)) = Cap
             /\ \A i \in 1 .. Len(u) : Of(t)[i] = u[i]
      <4>1. Len(Of(t)) <= Cap
        BY <1>0, <3>6
      <4> WITNESS n + 1 \in 0 .. Len(s)
      <4> QED  BY <3>5, <3>6, <4>1 DEF v
    <3> QED  BY <3>8 DEF Loses
  <2>3. CASE ~(p <= Len(w))
    <3>1. \A i \in 1 .. Len(w) : i \in 1 .. Cap - 1 /\ i < p
      BY <1>0, <1>2, <2>3
    <3> QED  BY <1>0, <1>2, <1>3, <1>4, <1>7, <2>1, <3>1
  <2> QED  BY <2>2, <2>3
<1> QED  BY <1>5, <1>6, <1>7 DEF Took

\* To have come to t is to have stayed or to have taken messages as LossyQueue says.
LEMMA LosesIsTaken ==
    ASSUME NEW s \in Seq(Messages), NEW t \in Seq(Messages), Len(s) <= Cap, Loses(s, t)
    PROVE  t = s \/ Fifo!Taken(s, t)
<1>1. PICK n \in 0 .. Len(s) :
         LET w == Fifo!Without(s)[n] IN
         /\ Len(w) = Len(s) - n /\ Len(w) <= Len(t) /\ Len(t) <= Cap
         /\ n > 0 => Len(t) = Cap
         /\ \A i \in 1 .. Len(w) : t[i] = w[i]
  BY DEF Loses
<1> DEFINE w == Fifo!Without(s)[n]
<1>2. w \in Seq(Messages) /\ Len(s) \in Nat /\ Len(t) \in Nat /\ Cap \in Nat
      /\ Fifo!Without(s)[0] = s
  BY WithoutFacts, ConstantsFit DEF Constants
<1>3. /\ Len(w) = Len(s) - n /\ Len(w) <= Len(t) /\ Len(t) <= Cap
      /\ n > 0 => Len(t) = Cap
      /\ \A i \in 1 .. Len(w) : t[i] = w[i]
  BY <1>1
<1> HIDE DEF w
<1>4. CASE Len(t) > Len(w)
  <2>1. SubSeq(w, 1, Len(w)) = SubSeq(t, 1, Len(w))
    BY <1>2, <1>3
  <2>2. Fifo!IsPrefix(w, t)
    BY <1>3, <2>1 DEF Fifo!IsPrefix
  <2>3. \A i \in Len(s) - n + 1 .. Len(t) : t[i] \in Messages
    <3>1. \A i \in Len(s) - n + 1 .. Len(t) : i \in 1 .. Len(t)
      BY <1>2, <1>3
    <3> QED  BY <3>1
  <2>4. Len(t) > Len(s) - n
    BY <1>3, <1>4
  <2> QED  BY <1>3, <2>2, <2>3, <2>4 DEF Fifo!Taken, w
<1>5. CASE ~(Len(t) > Len(w))
  <2>1. n = 0 /\ Len(t) = Len(w)
    BY <1>2, <1>3, <1>5
  <2>2. t = w
    BY <1>2, <1>3, <2>1, SeqEqual
  <2> QED  BY <1>2, <2>1, <2>2 DEF w
<1> QED  BY <1>4, <1>5

\* To stay is to have come there.
LEMMA StaysLose ==
    ASSUME NEW r, RingFits(r)
    PROVE  Of(r) \in Seq(Messages) /\ Len(Of(r)) <= Cap /\ Loses(Of(r), Of(r))
<1> DEFINE s == Of(r)
<1>1. s \in Seq(Messages) /\ Len(s) \in Nat /\ Len(s) <= Cap
  BY OfFacts, ConstantsFit DEF Constants
<1> HIDE DEF s
<1>2. Fifo!Without(s)[0] = s
  BY <1>1, WithoutFacts
<1>3. \E k \in 0 .. Len(s) :
         LET u == Fifo!Without(s)[k] IN
         /\ Len(u) = Len(s) - k /\ Len(u) <= Len(s) /\ Len(s) <= Cap
         /\ k > 0 => Len(s) = Cap
         /\ \A i \in 1 .. Len(u) : s[i] = u[i]
  <2> WITNESS 0 \in 0 .. Len(s)
  <2> QED  BY <1>1, <1>2
<1>4. Loses(s, s)
  BY <1>3 DEF Loses
<1> QED  BY <1>1, <1>4 DEF s

\* A burst, however many of its messages are refused.
LEMMA BurstLoses ==
    ASSUME NEW s \in Seq(Messages), Len(s) <= Cap, NEW r, RingFits(r),
           Loses(s, Of(r)), inService \subseteq Channels
    PROVE  RingFits(Burst(r).ring) /\ Loses(s, Of(Burst(r).ring))
<1>1. PICK after : Flood(after, r) /\ Burst(r).ring = after[BurstSize]
  BY BurstRuns
<1>2. BurstSize \in Nat
  BY BurstSizeFits
<1> DEFINE T == {i \in 0 .. BurstSize : ~Loses(s, Of(after[i]))}
<1>3. ASSUME T # {} PROVE FALSE
  <2>1. PICK i \in T : \A j \in T : i <= j
    <3>1. T \subseteq Nat
      OBVIOUS
    <3> HIDE DEF T
    <3> QED  BY <1>3, <3>1, LeastNumber
  <2>2. i \in 1 .. BurstSize /\ i - 1 \in 0 .. BurstSize /\ i - 1 < i
    BY <1>1, <1>2 DEF Flood
  <2>3. Loses(s, Of(after[i - 1]))
    BY <2>1, <2>2
  <2>4. /\ RingFits(after[i - 1]) /\ RingFits(after[i]) /\ Took(after[i - 1], after[i], Discovery)
        /\ Discovery \in Messages
    BY <1>1, <2>2, MessageFacts, EnqueueFits DEF Flood, Rings
  <2>5. Loses(s, Of(after[i]))
    BY <2>3, <2>4, TookLoses
  <2> QED  BY <2>5
<1>4. BurstSize \in 0 .. BurstSize /\ after[BurstSize] \in Rings
  BY <1>1, <1>2 DEF Flood
<1> QED  BY <1>1, <1>3, <1>4 DEF Rings

\* tick(), whichever slots it offers.
LEMMA OffersLose ==
    ASSUME PublisherFits
    PROVE  Loses(Of(ring), Of(AfterTick.ring))
<1> DEFINE s == Of(ring)
           n == Len(Slots)
<1>1. /\ RingFits(ring) /\ baseline \in Baselines /\ Newest(ring, baseline)
      /\ reading \in [Topics -> Values] /\ HeartbeatDue \in BOOLEAN
  BY DEF PublisherFits, QueueFits, RestFits, HeartbeatDue
<1>2. s \in Seq(Messages) /\ Len(s) <= Cap /\ Loses(s, s)
  BY <1>1, StaysLose
<1> DEFINE a == AfterOffers
<1>3. /\ a \in [0 .. n -> Fine]
      /\ a[0] = [ring |-> ring, baseline |-> baseline, tried |-> FALSE]
      /\ \A i \in 1 .. n : a[i] = a[i - 1] \/ a[i] = Offer(a[i - 1], Slots[i], HeartbeatDue)
      /\ n \in Nat /\ \A i \in 1 .. n : Slots[i] \in Topics
  BY <1>1, OffersRun, SlotFacts
<1>4. AfterTick = a[n]
  BY DEF AfterTick
<1> HIDE DEF a, n
<1>5. a[0].ring = ring
  BY <1>3
<1> HIDE DEF s
<1> DEFINE T == {i \in 0 .. n : ~Loses(s, Of(a[i].ring))}
<1>6. ASSUME T # {} PROVE FALSE
  <2>1. PICK i \in T : \A j \in T : i <= j
    <3>1. T \subseteq Nat
      BY <1>3
    <3> HIDE DEF T
    <3> QED  BY <1>6, <3>1, LeastNumber
  <2>2. i \in 1 .. n /\ i - 1 \in 0 .. n /\ i - 1 < i
    BY <1>2, <1>3, <1>5, <2>1 DEF s
  <2>3. Loses(s, Of(a[i - 1].ring))
    BY <2>1, <2>2
  <2>4. a[i - 1] \in Fine /\ a[i] \in Fine /\ Slots[i] \in Topics
    BY <1>3, <2>2
  <2>5. RingFits(a[i - 1].ring) /\ RingFits(a[i].ring)
    BY <2>4 DEF Fine
  <2>6. CASE a[i] = a[i - 1]
    BY <2>1, <2>3, <2>6
  <2>7. CASE a[i] = Offer(a[i - 1], Slots[i], HeartbeatDue)
    <3> DEFINE m == Telemetry(Slots[i], reading[Slots[i]])
    <3>1. a[i].ring = a[i - 1].ring \/ (a[i].ring = Enqueue(a[i - 1].ring, m) /\ m \in Messages)
      BY <1>1, <2>4, <2>7, OfferFits
    <3> HIDE DEF m
    <3>2. CASE a[i].ring = Enqueue(a[i - 1].ring, m) /\ m \in Messages
      <4>1. Took(a[i - 1].ring, a[i].ring, m)
        BY <2>5, <3>2, EnqueueFits
      <4>2. Loses(s, Of(a[i].ring))
        BY <1>2, <2>3, <2>5, <3>2, <4>1, TookLoses
      <4> QED  BY <2>1, <4>2
    <3> QED  BY <2>1, <2>3, <3>1, <3>2
  <2> QED  BY <1>3, <2>2, <2>6, <2>7
<1> QED  BY <1>3, <1>4, <1>6 DEF s

\* Wherever the pass sends one.
LEMMA BurstIntoLoses ==
    ASSUME PublisherFits, NEW r, RingFits(r), Loses(Of(ring), Of(r)), BurstInto(r)
    PROVE  Loses(Of(ring), Of(ring'))
<1>1. RingFits(ring) /\ inService \subseteq Channels
  BY DEF PublisherFits, QueueFits, RestFits
<1>2. Of(ring) \in Seq(Messages) /\ Len(Of(ring)) <= Cap
  BY <1>1, StaysLose
<1>3. ring' = Burst(r).ring
  BY DEF BurstInto
<1> QED  BY <1>1, <1>2, <1>3, BurstLoses

\* A connection's greeting: two availabilities before the burst.
LEMMA GreetedLoses ==
    ASSUME PublisherFits
    PROVE  RingFits(Greeted) /\ Loses(Of(ring), Of(Greeted))
<1> DEFINE s  == Of(ring)
           r1 == Enqueue(ring, Online)
           r2 == Enqueue(r1, Online)
<1>1. RingFits(ring) /\ Online \in Messages
  BY MessageFacts DEF PublisherFits, QueueFits
<1>2. s \in Seq(Messages) /\ Len(s) <= Cap /\ Loses(s, Of(ring))
  BY <1>1, StaysLose
<1> HIDE DEF s
<1>3. RingFits(r1) /\ Took(ring, r1, Online)
  BY <1>1, EnqueueFits
<1>4. Loses(s, Of(r1))
  <2> HIDE DEF r1
  <2> QED  BY <1>1, <1>2, <1>3, TookLoses
<1>5. RingFits(r2) /\ Took(r1, r2, Online)
  <2> HIDE DEF r1
  <2> QED  BY <1>1, <1>3, EnqueueFits
<1>6. Loses(s, Of(r2))
  <2> HIDE DEF r1, r2
  <2> QED  BY <1>1, <1>2, <1>3, <1>4, <1>5, TookLoses
<1>7. Greeted = r2
  BY DEF Greeted
<1> HIDE DEF r2
<1> QED  BY <1>5, <1>6, <1>7 DEF s

\* Every step of the pass, and of what goes on around it, is one of the promised queue.
LEMMA NextLoses ==
    ASSUME PublisherFits, [Next]_vars
    PROVE  [Fifo!Next]_Queued
<1> DEFINE s == Of(ring)
           t == Of(ring')
<1>1. Queued = s /\ Queued' = t
  BY DEF Queued, Of, Cell
<1>2. RingFits(ring) /\ s \in Seq(Messages) /\ Len(s) <= Cap /\ Len(s) = ring.count
      /\ ring.count \in Nat
  BY StaysLose, OfFacts DEF PublisherFits, QueueFits
<1>3. RingFits(ring') /\ t \in Seq(Messages) /\ Len(t) = ring'.count /\ ring'.count \in Nat
  <2>1. RingFits(ring')
    <3>1. QueueFits'
      BY NextFits DEF PublisherFits
    <3> QED  BY <3>1 DEF QueueFits
  <2> QED  BY <2>1, OfFacts
<1>4. ASSUME Loses(s, t) PROVE [Fifo!Next]_Queued
  <2>1. t = s \/ Fifo!Taken(s, t)
    <3> HIDE DEF s, t
    <3> QED  BY <1>2, <1>3, <1>4, LosesIsTaken
  <2> HIDE DEF s, t
  <2> QED  BY <1>1, <2>1 DEF Fifo!Next
<1>5. ASSUME ring' = ring PROVE [Fifo!Next]_Queued
  BY <1>1, <1>5
<1>6. CASE TakeConnect
  <2>1. BurstInto(Greeted) \/ ring' = ring
    BY <1>6 DEF TakeConnect
  <2>2. CASE BurstInto(Greeted)
    BY <1>4, <2>2, GreetedLoses, BurstIntoLoses
  <2> QED  BY <1>5, <2>1, <2>2
<1>7. CASE TakeBirth \/ Announce
  <2>1. BurstInto(ring) \/ ring' = ring
    BY <1>7 DEF TakeBirth, Announce
  <2>2. CASE BurstInto(ring)
    <3>1. Loses(Of(ring), Of(ring))
      BY <1>2, StaysLose
    <3> QED  BY <1>2, <1>4, <2>2, <3>1, BurstIntoLoses
  <2> QED  BY <1>5, <2>1, <2>2
<1>8. CASE Tick
  <2>1. ring' = AfterTick.ring \/ ring' = ring
    BY <1>8 DEF Tick
  <2> QED  BY <1>4, <1>5, <2>1, OffersLose
<1>9. CASE PumpStep
  <2>1. PICK refused : Pump(refused)
    BY <1>9 DEF PumpStep
  <2>2. /\ Batch \in 0 .. ring.count /\ ring'.count = ring.count - Batch
        /\ \A i \in 1 .. ring'.count : t[i] = s[i + Batch]
    BY <2>1, PumpFits
  <2> HIDE DEF s, t
  <2>3. t = SubSeq(s, Batch + 1, Len(s))
    <3> DEFINE u == SubSeq(s, Batch + 1, Len(s))
    <3>1. u \in Seq(Messages) /\ Len(u) = Len(s) - Batch
          /\ \A i \in 1 .. Len(s) - Batch : u[i] = s[i + Batch]
      BY <1>2, <2>2
    <3> HIDE DEF u
    <3>2. Len(t) = Len(u) /\ \A i \in 1 .. Len(t) : t[i] = u[i]
      BY <1>2, <1>3, <2>2, <3>1
    <3>3. t = u
      BY <1>3, <3>1, <3>2, SeqEqual
    <3> QED  BY <3>3 DEF u
  <2>4. CASE Batch = 0
    <3>1. SubSeq(s, 1, Len(s)) = s
      BY <1>2
    <3> QED  BY <1>1, <2>3, <2>4, <3>1
  <2>5. CASE Batch # 0
    <3>1. Batch \in 1 .. Len(s)
      BY <1>2, <2>2, <2>5
    <3>2. Fifo!Left(s, t)
      BY <2>3, <3>1 DEF Fifo!Left
    <3> QED  BY <1>1, <3>2 DEF Fifo!Next
  <2> QED  BY <2>4, <2>5
<1>10. CASE TakeDisconnect \/ RequestFullPublish \/ Configure \/ EspConnected \/ EspDisconnected
            \/ EspBirth \/ TimePasses \/ TestLink \/ TestChannels \/ NotePublished
            \/ UNCHANGED vars
  BY <1>5, <1>10 DEF TakeDisconnect, TestLink, TestChannels, NotePublished, RequestFullPublish, Configure, EspConnected,
     EspDisconnected, EspBirth, TimePasses, vars
<1>11. ASSUME NEW x \in Topics, NEW v \in Values, ReadingChanges(x, v) PROVE [Fifo!Next]_Queued
  BY <1>5, <1>11 DEF ReadingChanges
<1>12. ASSUME NEW channels \in SUBSET Channels, ChannelsChange(channels)
       PROVE  [Fifo!Next]_Queued
  BY <1>5, <1>12 DEF ChannelsChange
<1> QED
  BY <1>6, <1>7, <1>8, <1>9, <1>10, <1>11, <1>12 DEF Next

\* The ring, with its wrap-around, its eviction and its refusal, is the queue LossyQueue
\* promises: messages leave it from the front in the order they were taken, and what is lost
\* between is telemetry, the oldest first, given up by a full ring that stays full.
THEOREM QueueLosesOnlyTelemetry == Spec => OnlyTelemetryIsLost
<1>1. Init => Fifo!Init
  <2> SUFFICES ASSUME Init PROVE Queued = << >>
    BY DEF Fifo!Init
  <2>1. ring.count = 0
    BY DEF Init
  <2> QED  BY <2>1 DEF Queued
<1>2. PublisherFits /\ [Next]_vars => [Fifo!Next]_Queued
  BY NextLoses
<1> QED
  BY InitFits, NextFits, <1>1, <1>2, PTL DEF Spec, OnlyTelemetryIsLost, Fifo!Spec
=============================================================================
