-------------------------- MODULE MqttSessionProofs --------------------------
(***************************************************************************)
(* The connection the transport reports is real, however many changes of   *)
(* settings and of the radio a client lives through.                       *)
(***************************************************************************)
EXTENDS MqttSession, TLAPS

\* What makes ConnectedIsReal inductive: the pass's own flag says whether there is a
\* client, none is replaced while it exists, and an event half reported pins the state the
\* client reports.
EventsMatch ==
    /\ clientUp => client # "none"
    /\ ~clientUp => client = "none"
    /\ pc = "begin" => ~clientUp
    /\ raising \in {"up", "latch up"} => client = "up"
    /\ raising \in {"down", "latch down"} => client = "waiting"


\* The ladder's operations keep an edge to the phase that asked for it.
LadderTyped ==
    /\ phase \in {"cold", "waiting", "attempting", "connected"}
    /\ due \in BOOLEAN /\ deadline \in BOOLEAN
    /\ due => phase = "attempting"

\* The types of everything that is not the ladder's.
OthersTyped ==
    /\ enabled \in BOOLEAN /\ wifi \in BOOLEAN /\ wanted \in BOOLEAN /\ clientUp \in BOOLEAN
    /\ subscribed \in BOOLEAN /\ connectedFlag \in BOOLEAN
    /\ upLatched \in BOOLEAN /\ downLatched \in BOOLEAN
    /\ pc \in Steps
    /\ rev \in Nat /\ configuredRev \in Nat /\ draft \in Nat /\ clientRev \in Nat
    /\ changes \in Nat
    /\ client \in {"none", "connecting", "up", "waiting"}
    /\ raising \in {"none", "up", "down", "latch up", "latch down"}

Session == OthersTyped /\ EventsMatch /\ ConnectedIsReal /\ SessionNotOverlooked

\* The type invariant, split into what the ladder keeps and what everything else keeps.
LEMMA TypeParts == TypeOK <=> OthersTyped /\ LadderTyped
BY DEF TypeOK, OthersTyped, LadderTyped

\* A device boots with a cold ladder and no client.
LEMMA InitHolds == Init => Session /\ LadderTyped
<1> SUFFICES ASSUME Init PROVE Session /\ LadderTyped
  OBVIOUS
<1>1. LadderTyped BY DEF Init, LadderTyped
<1>2. OthersTyped BY ChangesAssumption DEF Init, OthersTyped, Steps
<1>3. EventsMatch /\ ConnectedIsReal /\ SessionNotOverlooked
  BY DEF Init, EventsMatch, ConnectedIsReal, SessionNotOverlooked
<1> QED BY <1>1, <1>2, <1>3 DEF Session

\* Every operation of the backoff ladder leaves it in one of its phases, with a due flag
\* that stands only while an attempt is being made.
LEMMA LadderKeeps ==
    ASSUME LadderTyped,
           \/ noteConnected \/ failOnce \/ reset \/ beginAttempt
           \/ noteDisconnected \/ noteAttemptFailed \/ update \/ UNCHANGED ladder
    PROVE  LadderTyped'
<1> USE DEF LadderTyped, GoTo
<1>1. CASE noteConnected BY <1>1 DEF noteConnected
<1>2. CASE failOnce BY <1>2 DEF failOnce
<1>3. CASE reset BY <1>3 DEF reset
<1>4. CASE beginAttempt BY <1>4 DEF beginAttempt
<1>5. CASE UNCHANGED ladder BY <1>5 DEF ladder
<1>6. CASE noteDisconnected BY <1>2, <1>5, <1>6 DEF noteDisconnected
<1>7. CASE noteAttemptFailed BY <1>2, <1>5, <1>7 DEF noteAttemptFailed
<1>8. CASE update BY <1>2, <1>4, <1>8 DEF update
<1> QED BY <1>1, <1>2, <1>3, <1>4, <1>5, <1>6, <1>7, <1>8

\* Every step either is one of the ladder's operations or leaves the ladder alone, but for
\* a deadline that passes.
LEMMA NextLadder == LadderTyped /\ [Next]_vars => LadderTyped'
<1> SUFFICES ASSUME LadderTyped, [Next]_vars PROVE LadderTyped'
  OBVIOUS
<1> DEFINE Moves == \/ noteConnected \/ failOnce \/ reset \/ beginAttempt
                    \/ noteDisconnected \/ noteAttemptFailed \/ update
                    \/ UNCHANGED ladder
<1>1. ASSUME PassStep PROVE Moves
  <2>1. CASE Top \/ Subscribe \/ Stop \/ BeginDone \/ WifiUpdate
    BY <2>1 DEF Top, Subscribe, Stop, BeginDone, WifiUpdate
  <2>2. CASE TakeConnect \/ TakeDisconnect \/ Update \/ End \/ Attempt \/ BeginRefused
    BY <2>2 DEF TakeConnect, TakeDisconnect, Update, End, Attempt, BeginRefused, ladder
  <2> QED BY <1>1, <2>1, <2>2 DEF PassStep
<1>2. CASE DeadlinePasses
  BY <1>2 DEF DeadlinePasses, LadderTyped
<1>3. ASSUME SettingsChange \/ Raise \/ ClientConnects \/ ClientFails \/ ClientRetries
      PROVE  Moves
  BY <1>3 DEF SettingsChange, Raise, RaiseFlag, RaiseLatch, ClientConnects, ClientFails,
              ClientRetries
<1>4. ASSUME UNCHANGED vars PROVE Moves
  BY <1>4 DEF vars
<1>5. Moves => LadderTyped'
  BY LadderKeeps
<1> QED BY <1>1, <1>2, <1>3, <1>4, <1>5 DEF Next

\* The bound and the revision stay natural numbers.
LEMMA ChangeCounts == ASSUME changes \in Nat, Change PROVE changes' \in Nat
BY DEF Change

\* The settings' revision counts up.
LEMMA RevisionCounts == ASSUME rev \in Nat, rev' = rev + 1 PROVE rev' \in Nat
OBVIOUS

\* A step that touches neither the session nor what the pass remembers of it.
LEMMA StutterKeeps ==
    ASSUME Session,
           UNCHANGED <<settings, wifi, pc, wanted, owned, session, events, changes>>
    PROVE  Session'
<1>1. OthersTyped' BY DEF Session, OthersTyped, settings, owned, session, events
<1>2. EventsMatch' BY DEF Session, EventsMatch, owned, session, events
<1>3. ConnectedIsReal' /\ SessionNotOverlooked'
  BY DEF Session, ConnectedIsReal, SessionNotOverlooked, session, events
<1> QED BY <1>1, <1>2, <1>3 DEF Session

\* No step of the pass or of the client's task, and no change of settings, separates the
\* transport's flag from the session it stands for.
LEMMA NextSession == Session /\ [Next]_vars => Session'
<1> SUFFICES ASSUME Session, [Next]_vars PROVE Session'
  OBVIOUS
<1> USE DEF Session, OthersTyped, EventsMatch, ConnectedIsReal, SessionNotOverlooked, Steps
<1>1. CASE Top BY <1>1 DEF Top, settings, owned, session, events
<1>2. CASE TakeConnect BY <1>2 DEF TakeConnect, settings, owned, session
<1>3. CASE Subscribe BY <1>3 DEF Subscribe, settings, owned, ladder, events
<1>4. CASE TakeDisconnect BY <1>4 DEF TakeDisconnect, settings, owned, session
<1>5. CASE Update BY <1>5 DEF Update, settings, owned, session, events
<1>6. CASE Stop BY <1>6 DEF Stop, settings, owned, ladder, session, events
<1>7. CASE End BY <1>7 DEF End, settings
<1>8. CASE Attempt BY <1>8 DEF Attempt, settings, session, events
<1>9. CASE BeginDone BY <1>9 DEF BeginDone, settings, ladder, events
<1>10. CASE BeginRefused BY <1>10 DEF BeginRefused, settings, owned, session, events
<1>11. CASE WifiUpdate
  <2>1. changes' \in Nat
    <3>1. CASE UNCHANGED <<wifi, changes>> BY <3>1
    <3>2. CASE Change BY <3>2, ChangeCounts
    <3> QED BY <1>11, <3>1, <3>2 DEF WifiUpdate
  <2>2. wifi' \in BOOLEAN
    <3>1. CASE wifi' = wifi BY <3>1
    <3>2. CASE wifi' = ~wifi BY <3>2, Zenon
    <3> QED BY <1>11, <3>1, <3>2 DEF WifiUpdate
  <2> QED BY <1>11, <2>1, <2>2 DEF WifiUpdate, settings, owned, session, events
<1>12. CASE DeadlinePasses
  <2>1. UNCHANGED <<settings, wifi, pc, wanted, owned, session, events, changes>>
    BY <1>12 DEF DeadlinePasses
  <2> QED BY <2>1, StutterKeeps
<1>13. CASE SettingsChange
  <2>1. changes' \in Nat /\ rev' \in Nat
    <3>1. Change /\ rev' = rev + 1 BY <1>13 DEF SettingsChange
    <3>2. changes' \in Nat BY <3>1, ChangeCounts
    <3>3. rev \in Nat OBVIOUS
    <3>4. rev' \in Nat BY <3>1, <3>3, RevisionCounts
    <3> QED BY <3>2, <3>4
  <2>2. enabled' \in BOOLEAN BY <1>13 DEF SettingsChange
  <2>3. UNCHANGED <<wifi, pc, wanted, owned, session, events>> BY <1>13 DEF SettingsChange
  <2>4. OthersTyped' BY <2>1, <2>2, <2>3 DEF owned, session, events
  <2>5. EventsMatch' /\ ConnectedIsReal' /\ SessionNotOverlooked' BY <2>3 DEF owned, session, events
  <2> QED BY <2>4, <2>5
<1>14. CASE ClientConnects BY <1>14 DEF ClientConnects, settings, owned
<1>15. CASE ClientFails BY <1>15 DEF ClientFails, settings, owned
<1>16. CASE ClientRetries BY <1>16 DEF ClientRetries, settings, owned, events
<1>17. CASE RaiseFlag BY <1>17 DEF RaiseFlag, settings, owned, session
<1>18. CASE RaiseLatch BY <1>18 DEF RaiseLatch, settings, owned, session
<1>19. CASE UNCHANGED vars
  <2>1. UNCHANGED <<settings, wifi, pc, wanted, owned, session, events, changes>>
    BY <1>19 DEF vars
  <2> QED BY <2>1, StutterKeeps
<1> QED
  BY <1>1, <1>2, <1>3, <1>4, <1>5, <1>6, <1>7, <1>8, <1>9, <1>10, <1>11, <1>12, <1>13,
     <1>14, <1>15, <1>16, <1>17, <1>18, <1>19 DEF Next, PassStep, Raise

\* Session and LadderTyped are inductive together.
LEMMA SessionAlways == Spec => [](Session /\ LadderTyped)
<1>1. Init => Session /\ LadderTyped BY InitHolds
<1>2. Session /\ LadderTyped /\ [Next]_vars => (Session /\ LadderTyped)'
  BY NextSession, NextLadder
<1> QED BY <1>1, <1>2, PTL DEF Spec

\* Through every interleaving of the pass, the client's task and the tasks that change the
\* settings, the ladder keeps an attempt due only while it is attempting.
THEOREM TypesAlwaysHold == Spec => []TypeOK
<1>1. Session /\ LadderTyped => TypeOK BY TypeParts DEF Session
<1> QED BY <1>1, SessionAlways, PTL

\* However often the settings and the radio change, at whatever point of the pass, and
\* whatever the client reports while it is being stopped, the transport's flag is never
\* left set over a client that is gone.
THEOREM ConnectionIsReal == Spec => []ConnectedIsReal
<1>1. Session => ConnectedIsReal BY DEF Session
<1> QED BY <1>1, SessionAlways, PTL

\* No session is overlooked between its report and its subscription, even one that replaces
\* another before the pass has looked at the latch.
THEOREM SessionsAreNoticed == Spec => []SessionNotOverlooked
<1>1. Session => SessionNotOverlooked BY DEF Session
<1> QED BY <1>1, SessionAlways, PTL
=============================================================================
