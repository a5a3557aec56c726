---------------------------- MODULE MqttPublisher ----------------------------
(***************************************************************************)
(* MqttPublisher: the fixed ring of outgoing messages, the rule for what   *)
(* gives way when it is full, the per-slot baselines, the cadence of       *)
(* tick() and pump() in a logic pass, and the Home Assistant policy whose  *)
(* discovery bursts share the ring.  The logic task drives all of it; the  *)
(* broker connection, the readings and the channels in service are its     *)
(* environment.                                                            *)
(***************************************************************************)
EXTENDS Integers, Sequences, FiniteSets

CONSTANTS
    Slots,          \* a sequence: the telemetry topics, in the order tick() offers them
    Channels,       \* those of them that are a sensor's, offered while it is in service
    PerDevice,      \* discovery messages of a burst, whatever is in service
    PerChannel,     \*   and for each channel in service
    Values,         \* the readings a slot's payload can show
    None,           \* not a value: no baseline, nothing heard
    Cap,            \* kQueueCapacity
    PumpMax,        \* messages per pump() call
    Heartbeat,      \* kHeartbeatMs, in ticks
    Period,         \* publishPeriodS_, in ticks
    Wrap,           \* millis() is a counter modulo Wrap
    Changes         \* bound on what the environment does: connections lost, readings
                    \*   or channels changed, messages refused by the sink, births heard,
                    \*   full publishes asked for

ASSUME PublisherAssumption ==
    /\ Cap \in Nat \ {0} /\ PumpMax \in Nat \ {0} /\ Changes \in Nat
    /\ PerDevice \in Nat /\ PerChannel \in Nat /\ PerDevice + PerChannel > 0
    /\ Slots \in Seq({Slots[i] : i \in DOMAIN Slots})
    /\ Channels \subseteq {Slots[i] : i \in DOMAIN Slots}
    /\ Heartbeat \in Nat \ {0} /\ Period \in Nat \ {0}
    /\ Wrap \in Nat /\ Heartbeat < Wrap /\ Period < Wrap

Topics == {Slots[i] : i \in DOMAIN Slots}

Online    == [cls |-> "availability"]
Discovery == [cls |-> "discovery"]
Telemetry(s, v) == [cls |-> "telemetry", slot |-> s, value |-> v]
Messages  == {Online, Discovery} \cup {Telemetry(s, v) : s \in Topics, v \in Values}
Empty     == [cls |-> "empty"]

\* mqttClassIsDroppable()
Droppable(m) == m.cls = "telemetry"

VARIABLES
    ring,                       \* queue_, head_ and count_ (a vacated cell is Empty)
    baseline,                   \* baseline_ and baselineValid_
    forceFull, everPublished,
    lastFull, lastPublish,
    clock,                      \* millis()
    connected,                  \* the sink's connected(), set by the client's own task
    upLatched, downLatched,     \* mqttConnectLatched, mqttDisconnectLatched
    ha,                         \* HaRepublishPolicy: connected_, published_ and bitmap_
    birth,                      \* haBirthLatched
    inService,                  \* connectedSensorsBitmap, which a frame may change at any moment
    whole,                      \* publishDiscovery(): accepted == count, and there was an entity
    announced,                  \* the channels of the last burst that the ring took whole
    pc,                         \* where the logic pass is, one of Steps
    reading,                    \* what a snapshot taken now would show
    broker,                     \* the last telemetry of each slot the sink accepted
    changes, ticked             \* bounds: environment steps left; a tick since tick()

link  == <<connected, upLatched, downLatched>>
flags == <<forceFull, everPublished, lastFull, lastPublish>>
burst == <<whole, announced>>
env   == <<reading, inService, changes>>
vars  == <<ring, baseline, flags, ha, birth, burst, clock, link, pc, broker, env, ticked>>

\* A burst is noted in a step of its own, "greeted", "answered" or "announced"; without a
\* connection the pass ends before "births".
Steps == {"connects", "greeted", "losses", "link", "births", "answered", "changes", "announce",
          "announced", "tick", "pump"}

-----------------------------------------------------------------------------
(* The ring *)

Cell(r, position) == (r.head + position) % Cap

\* Mutant of EvictOldest: the messages behind the hole do not close up.
EvictLeavesHole(r) ==
    LET p == CHOOSE i \in 0 .. r.count - 1 :
                /\ Droppable(r.at[Cell(r, i)])
                /\ \A j \in 0 .. i - 1 : ~Droppable(r.at[Cell(r, j)])
    IN  [r EXCEPT !.count = @ - 1, !.at[Cell(r, p)] = r.at[Cell(r, r.count - 1)],
                  !.at[Cell(r, r.count - 1)] = Empty]

\* Mutant of EvictOldest: the telemetry nearest the tail gives way.
EvictNewest(r) ==
    LET p == CHOOSE i \in 0 .. r.count - 1 :
                /\ Droppable(r.at[Cell(r, i)])
                /\ \A j \in i + 1 .. r.count - 1 : ~Droppable(r.at[Cell(r, j)])
        shifted(c) == LET i == (c - r.head) % Cap
                      IN  CASE i = r.count - 1 -> Empty
                            [] i >= p /\ i < r.count - 1 -> r.at[Cell(r, i + 1)]
                            [] OTHER -> r.at[c]
    IN  [r EXCEPT !.count = @ - 1, !.at = [c \in 0 .. Cap - 1 |-> shifted(c)]]

\* evictOldestTelemetry(): the messages behind the evicted one close up.
EvictOldest(r) ==
    LET p == CHOOSE i \in 0 .. r.count - 1 :
                /\ Droppable(r.at[Cell(r, i)])
                /\ \A j \in 0 .. i - 1 : ~Droppable(r.at[Cell(r, j)])
        shifted(c) == LET i == (c - r.head) % Cap
                      IN  CASE i = r.count - 1 -> Empty
                            [] i >= p /\ i < r.count - 1 -> r.at[Cell(r, i + 1)]
                            [] OTHER -> r.at[c]
    IN  [r EXCEPT !.count = @ - 1, !.at = [c \in 0 .. Cap - 1 |-> shifted(c)]]

Evictable(r) == \E i \in 0 .. r.count - 1 : Droppable(r.at[Cell(r, i)])
Accepts(r)   == r.count < Cap \/ Evictable(r)

\* Mutant of Enqueue: a message is written past the last one before room is made for it.
EnqueueOverCap(r, m) ==
    IF ~Accepts(r) THEN r
    ELSE [r EXCEPT !.at[Cell(r, r.count)] = m, !.count = @ + 1]

\* enqueue(): a full ring gives up its oldest telemetry, or refuses.
Enqueue(r, m) ==
    LET room == IF r.count = Cap THEN EvictOldest(r) ELSE r
    IN  IF ~Accepts(r) THEN r
        ELSE [room EXCEPT !.at[Cell(room, room.count)] = m, !.count = @ + 1]

\* offer(): a changed or forced slot is enqueued, and its baseline advances only if
\* the ring took it.
Offer(st, s, force) ==
    LET wanted == force \/ st.baseline[s] # reading[s]
        m == Telemetry(s, reading[s])
    IN  IF ~wanted THEN st
        ELSE [ring |-> Enqueue(st.ring, m),
              baseline |-> IF Accepts(st.ring)
                           THEN [st.baseline EXCEPT ![s] = reading[s]] ELSE st.baseline,
              tried |-> TRUE]

-----------------------------------------------------------------------------
(* The cadence *)

Elapsed(since, interval) == (clock - since) % Wrap >= interval

\* Mutant of HeartbeatDue: only a forced publish is a full one.
HeartbeatNever == ~everPublished \/ forceFull

HeartbeatDue == ~everPublished \/ forceFull \/ Elapsed(lastFull, Heartbeat)
RateCleared  == ~everPublished \/ Elapsed(lastPublish, Period)

\* A sensor out of service is offered no topic.
Offered == {s \in Topics : s \in Channels => s \in inService}

\* tick(): the slots are offered in order.  A call that enqueued nothing and was no
\* heartbeat does not restart the publish period.
AfterOffers[n \in 0 .. Len(Slots)] ==
    IF n = 0 THEN [ring |-> ring, baseline |-> baseline, tried |-> FALSE]
    ELSE IF Slots[n] \in Offered THEN Offer(AfterOffers[n - 1], Slots[n], HeartbeatDue)
    ELSE AfterOffers[n - 1]

AfterTick == AfterOffers[Len(Slots)]

Tick ==
    /\ pc = "tick"
    /\ IF HeartbeatDue \/ RateCleared
       THEN LET st == AfterTick IN
            /\ ring' = st.ring /\ baseline' = st.baseline
            /\ lastFull' = IF HeartbeatDue THEN clock ELSE lastFull
            /\ forceFull' = (forceFull /\ ~HeartbeatDue)
            /\ IF HeartbeatDue \/ st.tried
               THEN lastPublish' = clock /\ everPublished' = TRUE
               ELSE UNCHANGED <<lastPublish, everPublished>>
       ELSE UNCHANGED <<ring, baseline, flags>>
    /\ pc' = "pump" /\ ticked' = FALSE
    /\ UNCHANGED <<ha, birth, burst, clock, link, broker, env>>

\* pump(): at most PumpMax messages from the head; one the sink refuses is gone too.
Batch   == IF ~connected THEN 0 ELSE IF ring.count < PumpMax THEN ring.count ELSE PumpMax
Sent(s) == {i \in 0 .. Batch - 1 : LET m == ring.at[Cell(ring, i)]
                                   IN  Droppable(m) /\ m.slot = s}

Pump(refused) ==
    /\ pc = "pump"
    /\ ring' = [head |-> Cell(ring, Batch), count |-> ring.count - Batch,
                at |-> [c \in 0 .. Cap - 1 |->
                            IF (c - ring.head) % Cap < Batch THEN Empty ELSE ring.at[c]]]
    /\ broker' = [s \in Topics |->
            LET took == Sent(s) \ refused
            IN  IF took = {} THEN broker[s]
                ELSE ring.at[Cell(ring, CHOOSE i \in took : \A j \in took : j <= i)].value]
    /\ pc' = "connects"
    /\ UNCHANGED <<baseline, flags, ha, birth, burst, clock, link, reading, inService, ticked>>

-----------------------------------------------------------------------------
(* Connections and discovery *)

\* A burst of publishDiscovery(): one message per entity, none pumped in between.
BurstSize == PerDevice + PerChannel * Cardinality(inService)

Burst(r) ==
    LET after[n \in 0 .. BurstSize] == IF n = 0 THEN r ELSE Enqueue(after[n - 1], Discovery)
    IN  [ring  |-> after[BurstSize],
         whole |-> BurstSize > 0 /\ \A n \in 0 .. BurstSize - 1 : Accepts(after[n])]

BurstInto(r) ==
    /\ ring' = Burst(r).ring /\ whole' = Burst(r).whole
    /\ announced' = IF Burst(r).whole THEN inService ELSE announced

AfterNote == [greeted |-> "losses", answered |-> "changes", announced |-> "tick"]

\* The end of publishDiscovery(): notePublished() is reached only when none was refused, and
\* reads the channels in service again.
NotePublished ==
    /\ pc \in DOMAIN AfterNote /\ pc' = AfterNote[pc]
    /\ ha' = IF whole THEN [ha EXCEPT !.published = TRUE, !.bitmap = inService] ELSE ha
    /\ whole' = FALSE
    /\ UNCHANGED <<ring, baseline, flags, birth, announced, clock, link, broker, env, ticked>>

\* The connect latch: onConnected(), the pass's own second "online", and a burst.
Greeted == Enqueue(Enqueue(ring, Online), Online)

\* Mutant of OnConnected: a policy that has published before is not told again.
OnConnectedOnce == [ha EXCEPT !.connected = ~ha.published]

\* HaRepublishPolicy::onConnected()
OnConnected == [ha EXCEPT !.connected = TRUE]

\* Both notices forget what was published before.
Restarted == forceFull' = TRUE /\ everPublished' = FALSE

\* The top of the pass: the connect latch ...
TakeConnect ==
    /\ pc = "connects"
    /\ IF upLatched
       THEN BurstInto(Greeted) /\ ha' = OnConnected /\ Restarted /\ pc' = "greeted"
       ELSE pc' = "losses" /\ UNCHANGED <<ring, burst, ha, forceFull, everPublished>>
    /\ upLatched' = FALSE
    /\ UNCHANGED <<baseline, lastFull, lastPublish, birth, clock, connected, downLatched,
                   broker, env, ticked>>

\* ... and then the disconnect latch.
TakeDisconnect ==
    /\ pc = "losses"
    /\ IF downLatched
       THEN ha' = [ha EXCEPT !.connected = FALSE] /\ Restarted
       ELSE UNCHANGED <<ha, forceFull, everPublished>>
    /\ downLatched' = FALSE
    /\ pc' = "link"
    /\ UNCHANGED <<ring, baseline, lastFull, lastPublish, birth, burst, clock, connected, upLatched,
                   broker, env, ticked>>

\* What follows is for a connection, asked for once; without one tick() is not called.
TestLink ==
    /\ pc = "link"
    /\ IF connected THEN pc' = "births" /\ UNCHANGED ticked
       ELSE pc' = "connects" /\ ticked' = FALSE
    /\ UNCHANGED <<ring, baseline, flags, ha, birth, burst, clock, link, broker, env>>

\* A birth message is answered with a burst ...
TakeBirth ==
    /\ pc = "births"
    /\ IF birth THEN BurstInto(ring) /\ pc' = "answered"
       ELSE pc' = "changes" /\ UNCHANGED <<ring, burst>>
    /\ birth' = FALSE
    /\ UNCHANGED <<baseline, flags, ha, clock, link, broker, env, ticked>>

\* onSensorBitmap(): nothing is announced again before it was announced once.
SensorsChanged == ha.connected /\ ha.published /\ inService # ha.bitmap

\* ... and a change of channels with another, which reads them again.
TestChannels ==
    /\ pc = "changes"
    /\ pc' = IF SensorsChanged THEN "announce" ELSE "tick"
    /\ UNCHANGED <<ring, baseline, flags, ha, birth, burst, clock, link, broker, env, ticked>>

Announce ==
    /\ pc = "announce" /\ pc' = "announced"
    /\ BurstInto(ring)
    /\ UNCHANGED <<baseline, flags, ha, birth, clock, link, broker, env, ticked>>

-----------------------------------------------------------------------------
(* What the rest of the pass, the client's task and the Modbus task do to it *)

Change == changes > 0 /\ changes' = changes - 1

\* The client waits ten seconds before it connects again: a pass has taken the notice of
\* the loss by then.
EspConnected ==
    /\ ~connected /\ ~downLatched
    /\ connected' = TRUE /\ upLatched' = TRUE
    /\ UNCHANGED <<ring, baseline, flags, ha, birth, burst, clock, downLatched, pc, broker, env,
                   ticked>>

EspDisconnected ==
    /\ Change /\ connected
    /\ connected' = FALSE /\ downLatched' = TRUE
    /\ UNCHANGED <<ring, baseline, flags, ha, birth, burst, clock, upLatched, pc, reading,
                   inService, broker, ticked>>

\* A birth message, or a republish command.
EspBirth ==
    /\ Change /\ connected /\ ~birth
    /\ birth' = TRUE
    /\ UNCHANGED <<ring, baseline, flags, ha, burst, clock, link, pc, reading, inService, broker,
                   ticked>>

\* requestFullPublish(), after every command.
RequestFullPublish ==
    /\ Change /\ pc = "link" /\ connected /\ ~forceFull
    /\ forceFull' = TRUE
    /\ UNCHANGED <<ring, baseline, everPublished, lastFull, lastPublish, ha, birth, burst, clock,
                   link, pc, reading, inService, broker, ticked>>

\* configure(), when the client is recreated: the baselines are forgotten, what is
\* queued is not.
Configure ==
    /\ Change /\ pc = "link" /\ ~connected
    /\ baseline' = [s \in Topics |-> None]
    /\ forceFull' = TRUE /\ everPublished' = FALSE
    /\ UNCHANGED <<ring, lastFull, lastPublish, ha, birth, burst, clock, link, pc, reading,
                   inService, broker, ticked>>

ReadingChanges(s, v) ==
    /\ Change /\ reading[s] # v
    /\ reading' = [reading EXCEPT ![s] = v]
    /\ UNCHANGED <<ring, baseline, flags, ha, birth, burst, clock, link, pc, inService, broker,
                   ticked>>

\* A write to the sensors' bitmap register.
ChannelsChange(channels) ==
    /\ Change /\ inService # channels
    /\ inService' = channels
    /\ UNCHANGED <<ring, baseline, flags, ha, birth, burst, clock, link, pc, reading, broker,
                   ticked>>

\* tick() is called at least once a tick of the clock: a pass is far shorter than either
\* interval it measures.
TimePasses ==
    /\ ~ticked
    /\ ticked' = TRUE
    /\ clock' = (clock + 1) % Wrap
    /\ UNCHANGED <<ring, baseline, flags, ha, birth, burst, link, pc, broker, env>>

Init ==
    /\ ring = [at |-> [c \in 0 .. Cap - 1 |-> Empty], head |-> 0, count |-> 0]
    /\ baseline = [s \in Topics |-> None] /\ broker = [s \in Topics |-> None]
    /\ reading \in [Topics -> Values]
    /\ forceFull = TRUE /\ everPublished = FALSE
    /\ lastFull = 0 /\ lastPublish = 0 /\ clock = 0
    /\ connected = FALSE /\ upLatched = FALSE /\ downLatched = FALSE
    /\ ha = [connected |-> FALSE, published |-> FALSE, bitmap |-> {}]
    /\ birth = FALSE /\ whole = FALSE /\ announced = {} /\ inService \in SUBSET Channels
    /\ pc = "connects" /\ changes = Changes /\ ticked = FALSE

PumpStep ==
    \/ Pump({}) /\ UNCHANGED changes
    \/ \E i \in 0 .. Batch - 1 : Change /\ Pump({i})

Next ==
    \/ TakeConnect \/ TakeDisconnect \/ TestLink \/ TakeBirth \/ TestChannels \/ Announce
    \/ NotePublished \/ Tick \/ PumpStep
    \/ RequestFullPublish \/ Configure
    \/ EspConnected \/ EspDisconnected \/ EspBirth
    \/ \E s \in Topics, v \in Values : ReadingChanges(s, v)
    \/ \E channels \in SUBSET Channels : ChannelsChange(channels)
    \/ TimePasses

\* The logic pass keeps running: a step of it is always enabled, and each moves pc.  Time
\* passes, unless a tick() is due.
PassMoves  == pc' \in Steps \ {pc}
ClockMoves == ~ticked /\ clock' = (clock + 1) % Wrap
Fairness   == WF_pc(PassMoves) /\ WF_clock(ClockMoves)

Spec == Init /\ [][Next]_vars /\ Fairness

-----------------------------------------------------------------------------
(* Properties *)

Queued == [i \in 1 .. ring.count |-> ring.at[Cell(ring, i - 1)]]

\* The ring's head and count stay in it and its occupied cells hold messages (enqueue, pump, evict).
TypeOK ==
    /\ ring.head \in 0 .. Cap - 1 /\ ring.count \in 0 .. Cap
    /\ \A i \in 0 .. Cap - 1 :
          IF i < ring.count THEN ring.at[Cell(ring, i)] \in Messages
                            ELSE ring.at[Cell(ring, i)] = Empty
    /\ baseline \in [Topics -> Values \cup {None}]
    /\ broker \in [Topics -> Values \cup {None}] /\ reading \in [Topics -> Values]
    /\ {forceFull, everPublished, connected, ticked} \subseteq BOOLEAN
    /\ {lastFull, lastPublish, clock} \subseteq 0 .. Wrap - 1 /\ changes \in 0 .. Changes
    /\ {upLatched, downLatched} \subseteq BOOLEAN /\ pc \in Steps
    /\ {ha.connected, ha.published, birth, whole} \subseteq BOOLEAN
    /\ {ha.bitmap, inService, announced} \subseteq SUBSET Channels

\* The newest telemetry queued for a slot is what change detection compares the next
\* reading with: however the ring wrapped, overflowed and gave way, no older message is
\* left to reach the broker after the one the publisher believes was its last word.
BaselineIsNewest ==
    \A s \in Topics :
        LET of == {i \in DOMAIN Queued : Droppable(Queued[i]) /\ Queued[i].slot = s}
        IN  of # {} /\ baseline[s] # None =>
                Queued[CHOOSE i \in of : \A j \in of : j <= i].value = baseline[s]

\* The ring, with its wrap-around, eviction and refusal, is a queue that only ever
\* loses telemetry, oldest first.
Fifo == INSTANCE LossyQueue WITH q <- Queued
OnlyTelemetryIsLost == Fifo!Spec

\* A connection is never overlooked: whenever it is up and its notice was taken, the policy
\* knows of it, whatever losses came before or were noticed late.  Whether it then announces a
\* change of channels also depends on a burst that went out whole before.
PolicyKnowsLink == connected /\ ~upLatched => ha.connected

\* The environment has done all it will, and the connection is up.
Calm == connected /\ changes = 0

\* On a connection that stays up, once the readings settle and no change of channels is
\* left to announce, the broker comes to show the readings, whatever was evicted, refused
\* by the sink or overtaken before.
BrokerCatchesUp == <>[](Calm /\ ~SensorsChanged) => <>[](\A s \in Offered : broker[s] = reading[s])

\* "Publish a full set at least every 60 s regardless of change": telemetry of a topic on
\* offer keeps being queued while the connection is up.  (A burst that is refused in part
\* is asked for again in the next pass, and the next: it leaves telemetry no room.)
FullSetRecurs ==
    \A s \in Topics :
        <>[](Calm /\ s \in Offered)
            => []<>(\E i \in DOMAIN Queued : Droppable(Queued[i]) /\ Queued[i].slot = s)

\* (violated) No entity is missing "with the policy convinced it exists": the channels it holds
\* for announced were in a burst that the ring took whole.
RecordedIsAnnounced == ha.published => ha.bitmap \subseteq announced
=============================================================================
