------------------------------ MODULE MqttCommand ------------------------------
(***************************************************************************)
(* Remote commands: a message on <base>/cmd/<name> is latched by esp-mqtt's *)
(* task (onMqttData of firmware.cpp) and acted on by the logic task         *)
(* (serviceMqttCommand), where net/mqtt_command_router.h decides.  The two  *)
(* tasks share the latch and no lock.  A reset is limited per kind, by      *)
(* millis() within a boot and by an epoch kept in flash across boots.       *)
(*                                                                          *)
(* Time is in whole units; millis() has the width Wrap.                     *)
(***************************************************************************)
EXTENDS Integers

CONSTANTS
  Interval,    \* kResetMinIntervalMs, and kResetMinIntervalS
  Wrap,        \* millis() counts modulo this
  Horizon,     \* bound on the time
  Arrivals,    \* bound on the messages
  Boots        \* bound on the power cuts

VARIABLES
  t, bootAt,            \* the time, and when the device last started
  clockSet, skew,       \* DeviceClock: isSet(), and what it is off by
  online, lost,         \* mqttEnabled() and connected(); mqttDisconnectLatched
  writer, message,      \* where onMqttData is, and what it was called with
  latched,              \* mqttCommandLatched
  latch,                \* mqttCommandTopic; and mqttCommandPayload with mqttCommandRetained
  reader, copy,         \* where serviceMqttCommand is, and what it has copied
  accepted, lastMs,     \* the router: accepted_ and lastAcceptedMs_
  persisted,            \* persistedEpoch_
  flash,                \* the two epoch keys
  last,                 \* the last acceptance of each kind: when, by which clock, and whether it was kept
  arrivals, boots

esp      == <<writer, message, latched, latch, arrivals>>
router   == <<accepted, lastMs, persisted>>
session  == <<online, lost>>
wall     == <<t, bootAt, clockSet, skew, boots>>
cmdVars  == <<esp, reader, copy, router, wall, session, flash, last>>

Kinds    == {"session", "totals"}                  \* the destructive commands
Commands == Kinds \cup {"republish", "none"}
Rests    == [reset : BOOLEAN, retained : BOOLEAN]  \* the payload is RESET; the retain flag
Blank    == [reset |-> FALSE, retained |-> FALSE]
Skews    == {0, 1}

-----------------------------------------------------------------------------
(* esp-mqtt's task.                                                        *)

\* Only one callback runs at a time; a topic under another prefix latches nothing.
Arrive ==
  /\ writer = "idle" /\ arrivals < Arrivals /\ arrivals' = arrivals + 1
  /\ \E c \in Commands, r \in Rests : message' = [topic |-> c, rest |-> r]
  /\ latch' = [latch EXCEPT !.topic = message'.topic]
  /\ writer' = "rest"
  /\ UNCHANGED <<latched, reader, copy, router, wall, session, flash, last>>

\* The flag is set last.
Latch ==
  /\ writer = "rest" /\ writer' = "idle"
  /\ latch' = [latch EXCEPT !.rest = message.rest]
  /\ latched' = TRUE
  /\ message' = [topic |-> "none", rest |-> Blank]
  /\ UNCHANGED <<arrivals, reader, copy, router, wall, session, flash, last>>

-----------------------------------------------------------------------------
(* The logic task.                                                         *)

\* The notice of a loss discards the command that arrived before it.
TakeDisconnect ==
  /\ reader = "idle" /\ lost /\ lost' = FALSE
  /\ latched' = FALSE
  /\ UNCHANGED <<writer, message, latch, arrivals, reader, copy, router, wall, online, flash, last>>

\* The latch is copied, then cleared.
CopyTopic ==
  /\ reader = "idle" /\ latched /\ reader' = "rest"
  /\ copy' = [copy EXCEPT !.topic = latch.topic]
  /\ UNCHANGED <<esp, router, wall, session, flash, last>>

CopyRest ==
  /\ reader = "rest" /\ reader' = "decide"
  /\ copy' = [copy EXCEPT !.rest = latch.rest]
  /\ latched' = FALSE
  /\ UNCHANGED <<writer, message, latch, arrivals, router, wall, session, flash, last>>

millis   == (t - bootAt) % Wrap
nowEpoch == IF clockSet THEN 1 + t + skew ELSE 0

\* static_cast<int32_t>(a - b) < 0
Before(a, b) == (a - b) % Wrap >= Wrap \div 2

\* A mutant: the guard of the boot is left to the clock.
RecentInBootIfUnset(k) == nowEpoch = 0 /\ accepted[k] /\ Before(millis, lastMs[k] + Interval)

RecentInBoot(k) == accepted[k] /\ Before(millis, lastMs[k] + Interval)
RecentByClock(k) ==
  /\ nowEpoch # 0 /\ persisted[k] # 0
  /\ nowEpoch >= persisted[k] /\ nowEpoch - persisted[k] < Interval

\* evaluate
Evaluated ==
  IF copy.topic = "none" THEN "unknown-command"
  ELSE IF copy.rest.retained THEN "retained-ignored"
  ELSE IF copy.topic = "republish" THEN "accepted"
  ELSE IF ~copy.rest.reset THEN "bad-payload"
  ELSE IF RecentInBoot(copy.topic) \/ RecentByClock(copy.topic) THEN "rate-limited"
  ELSE "accepted"

\* A command met while MQTT is off or the link is down is dropped.
Drop ==
  /\ reader = "decide" /\ ~online /\ reader' = "idle"
  /\ copy' = [topic |-> "none", rest |-> Blank]
  /\ UNCHANGED <<esp, router, wall, session, flash, last>>

\* A refusal, or a republish, which is left to the publisher's latch.
Answer ==
  /\ reader = "decide" /\ online /\ reader' = "idle"
  /\ Evaluated = "accepted" => copy.topic = "republish"
  /\ copy' = [topic |-> "none", rest |-> Blank]
  /\ UNCHANGED <<esp, router, wall, session, flash, last>>

\* A reset: recorded by the router, and performed through the register a master writes.
Perform ==
  /\ reader = "decide" /\ online /\ Evaluated = "accepted" /\ copy.topic \in Kinds
  /\ LET k == copy.topic IN
       /\ accepted' = [accepted EXCEPT ![k] = TRUE]
       /\ lastMs' = [lastMs EXCEPT ![k] = millis]
       /\ persisted' = [persisted EXCEPT ![k] = nowEpoch]
       /\ last' = [last EXCEPT ![k] = [at |-> t, skew |-> skew, kept |-> FALSE]]
  /\ reader' = IF nowEpoch # 0 THEN "persist" ELSE "idle"
  /\ copy' = IF nowEpoch # 0 THEN copy ELSE [topic |-> "none", rest |-> Blank]
  /\ UNCHANGED <<esp, wall, session, flash>>

\* The epoch is kept, or the write fails.
Persist ==
  /\ reader = "persist" /\ reader' = "idle"
  /\ LET k == copy.topic IN
       \/ /\ flash' = [flash EXCEPT ![k] = persisted[k]]
          /\ last' = [last EXCEPT ![k].kept = TRUE]
       \/ UNCHANGED <<flash, last>>
  /\ copy' = [topic |-> "none", rest |-> Blank]
  /\ UNCHANGED <<esp, router, wall, session>>

-----------------------------------------------------------------------------
(* Time, the link and power.                                               *)

TimePasses ==
  /\ t < Horizon /\ t' = t + 1
  /\ UNCHANGED <<esp, reader, copy, router, bootAt, clockSet, skew, boots, session, flash, last>>

\* An operator or NTP sets the clock.
SetClock ==
  /\ clockSet' = TRUE /\ skew' \in Skews
  /\ UNCHANGED <<esp, reader, copy, router, t, bootAt, boots, session, flash, last>>

\* A connection that is lost leaves a notice; one that is only turned off may not.
LinkChanges ==
  /\ online' = ~online
  /\ lost' \in {lost, lost \/ online}
  /\ UNCHANGED <<esp, reader, copy, router, wall, flash, last>>

\* setup(): what the router is seeded with.
Seed == [k \in Kinds |-> flash[k]]

\* A power cut at any moment: the RTC may have run on, or not.
PowerCut ==
  /\ boots < Boots /\ boots' = boots + 1
  /\ bootAt' = t
  /\ \E runs \in BOOLEAN : clockSet' = (clockSet /\ runs)
  /\ writer' = "idle" /\ message' = [topic |-> "none", rest |-> Blank]
  /\ latched' = FALSE /\ latch' = [topic |-> "none", rest |-> Blank]
  /\ reader' = "idle" /\ copy' = [topic |-> "none", rest |-> Blank]
  /\ accepted' = [k \in Kinds |-> FALSE] /\ lastMs' = [k \in Kinds |-> 0]
  /\ persisted' = Seed
  /\ online' = FALSE /\ lost' = FALSE
  /\ UNCHANGED <<t, skew, arrivals, flash, last>>

Init ==
  /\ t = 0 /\ bootAt = 0 /\ clockSet = FALSE /\ skew = 0 /\ online = FALSE /\ lost = FALSE
  /\ writer = "idle" /\ message = [topic |-> "none", rest |-> Blank]
  /\ latched = FALSE /\ latch = [topic |-> "none", rest |-> Blank]
  /\ reader = "idle" /\ copy = [topic |-> "none", rest |-> Blank]
  /\ accepted = [k \in Kinds |-> FALSE] /\ lastMs = [k \in Kinds |-> 0]
  /\ persisted = [k \in Kinds |-> 0] /\ flash = [k \in Kinds |-> 0]
  /\ last = [k \in Kinds |-> [at |-> -Interval, skew |-> 0, kept |-> FALSE]]
  /\ arrivals = 0 /\ boots = 0

Next ==
  \/ Arrive \/ Latch
  \/ TakeDisconnect \/ CopyTopic \/ CopyRest \/ Drop \/ Answer \/ Perform \/ Persist
  \/ TimePasses \/ SetClock \/ LinkChanges \/ PowerCut

Spec == Init /\ [][Next]_cmdVars

-----------------------------------------------------------------------------

\* The slot and its copy hold a command's topic, and the clock stands after the boot.
TypeOK ==
  /\ t \in 0..Horizon /\ bootAt \in 0..t /\ clockSet \in BOOLEAN /\ {online, lost} \subseteq BOOLEAN
  /\ writer \in {"idle", "rest"} /\ reader \in {"idle", "rest", "decide", "persist"}
  /\ latch.topic \in Commands /\ copy.topic \in Commands
  /\ lastMs \in [Kinds -> 0..(Wrap - 1)] /\ persisted \in [Kinds -> Nat] /\ flash \in [Kinds -> Nat]

Accepts(k) ==
  /\ reader = "decide" /\ copy.topic = k /\ reader' # "decide" /\ boots' = boots
  /\ online /\ Evaluated = "accepted"

\* Two resets of a kind are at least the interval apart: always within a boot, and across a
\* power cut if the first one's epoch was kept and the clock, set, was not stepped meanwhile.
ResetsSpaced ==
  [][\A k \in Kinds :
       Accepts(k) /\ (accepted[k] \/ (last[k].kept /\ clockSet /\ skew = last[k].skew))
         => t - last[k].at >= Interval]_cmdVars

\* A reset is refused as too early only within the interval: what the router says of its limit.
RefusedOnlyWhenRecent ==
  \A k \in Kinds :
    reader = "decide" /\ copy.topic = k /\ Evaluated = "rate-limited" /\ skew = last[k].skew
      => t - last[k].at < Interval
=============================================================================
