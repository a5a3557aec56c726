---------------------------- MODULE DeviceProofs ----------------------------
(***************************************************************************)
(* Proofs about the five parts MCDevice runs: the radio is in the mode the *)
(* reported state says, the page submits only whole bodies of its own, two *)
(* resets of a kind keep their distance, a frame leaves the screen the UI  *)
(* stands on, and a page of the menu is on a ring that works and says what *)
(* it is about.  Each is proved of its part's own next-state relation and  *)
(* then of the device, whose steps are steps of one part.                  *)
(***************************************************************************)
EXTENDS MCDevice, Counting

-----------------------------------------------------------------------------
(* WifiManager: the radio and the reported state. *)

\* Between the two reads of a connection the station's radio is on and the access point off.
JoinIsReady == step = "join" => radioUp /\ ~apActive /\ back \in {"ntp", "portal"}

RadioInv ==
  /\ step \in W!Steps
  /\ apActive \in BOOLEAN /\ radioUp \in BOOLEAN
  /\ W!RadioMatchesState /\ JoinIsReady

\* The device boots with the radio off.
LEMMA InitRadio == W!Init => RadioInv
<1> SUFFICES ASSUME W!Init PROVE RadioInv
  OBVIOUS
<1>1. step = "update" /\ state = "disabled" /\ apActive = FALSE /\ radioUp = FALSE
      /\ page.up = FALSE
  BY DEF W!Init, W!NoPage
<1> QED
  BY <1>1 DEF RadioInv, W!RadioMatchesState, JoinIsReady, W!Steps

\* Every step of the pass moves radio, access point and state together, and no other task
\* touches any of them.
LEMMA NextRadio ==
    ASSUME RadioInv, [W!Next]_(W!wifiVars)
    PROVE  RadioInv'
<1> USE DEF RadioInv, W!RadioMatchesState, JoinIsReady, W!Steps
<1>1. CASE W!TurnedOff
  BY <1>1 DEF W!TurnedOff, W!Updates, W!shutDown, W!Go, W!Ends, W!manager, W!LinkDown
<1>2. CASE W!enterEnabled
  BY <1>2 DEF W!enterEnabled, W!Updates, W!ensureRadioUp, W!Connects, W!beginConnect, W!Fails,
              W!failBackoff, W!raiseAp, W!enterIdle, W!Go, W!Ends, W!LinkDown
<1>3. CASE W!leaveIdle
  BY <1>3 DEF W!leaveIdle, W!Updates, W!ensureRadioUp, W!Connects, W!beginConnect, W!Fails,
              W!failBackoff, W!Waits, W!Go, W!Ends, W!manager, W!LinkDown
<1>4. CASE W!pollConnecting
  BY <1>4 DEF W!pollConnecting, W!Updates, W!Fails, W!failBackoff, W!Waits, W!Go, W!Ends,
              W!manager, W!LinkDown
<1>5. CASE W!pollConnected
  BY <1>5 DEF W!pollConnected, W!Updates, W!Fails, W!failBackoff, W!enterIdle, W!Waits, W!Go,
              W!Ends, W!manager, W!LinkDown
<1>6. CASE W!pollBackoff
  BY <1>6 DEF W!pollBackoff, W!Updates, W!ensureRadioUp, W!Connects, W!beginConnect, W!Fails,
              W!failBackoff, W!enterIdle, W!Waits, W!Go, W!Ends, W!manager, W!LinkDown
<1>7. CASE W!pollApPortal
  BY <1>7 DEF W!pollApPortal, W!Updates, W!beginConnect, W!enterIdle, W!Waits, W!Go, W!Ends,
              W!manager, W!LinkDown
<1>8. CASE W!Join
  BY <1>8 DEF W!Join, W!Go, W!failBackoff, W!LinkDown
<1>9. CASE W!Ntp
  BY <1>9 DEF W!Ntp
<1>10. CASE W!noteProvisioningComplete
  BY <1>10 DEF W!noteProvisioningComplete, W!ensureRadioUp, W!beginConnect, W!failBackoff,
               W!Go, W!LinkDown, W!manager
<1>11. CASE W!drivePortal
  BY <1>11 DEF W!drivePortal, W!NoPage, W!manager
<1>12. CASE \/ W!Apply \/ W!Answered \/ W!DeadlinePasses
            \/ W!TimePasses \/ W!SntpAnswers \/ W!WorldSettles
  BY <1>12 DEF W!Apply, W!Answered, W!DeadlinePasses, W!TimePasses, W!SntpAnswers,
               W!WorldSettles, W!manager
<1>13. CASE UNCHANGED W!wifiVars
  BY <1>13 DEF W!wifiVars, W!manager
<1> QED
  BY <1>1, <1>2, <1>3, <1>4, <1>5, <1>6, <1>7, <1>8, <1>9, <1>10, <1>11, <1>12, <1>13
     DEF W!Next, W!Pass

\* WifiManager never leaves the radio in another mode than its state reports, for any
\* networks, passphrases and number of changes.
LEMMA WifiKeeps == W!Init /\ [][W!Next]_(W!wifiVars) => []W!RadioMatchesState
<1>1. RadioInv /\ [W!Next]_(W!wifiVars) => RadioInv'
  BY NextRadio
<1>2. RadioInv => W!RadioMatchesState
  BY DEF RadioInv
<1> QED
  BY InitRadio, <1>1, <1>2, PTL

\* The records of the manager, and how it makes one of another.
Credentials  == [ssid : Networks \cup {NoName}, psk : Keys \cup {NoName}]
TimeRequests == [associated : BOOLEAN, due : BOOLEAN, inFlight : BOOLEAN, late : BOOLEAN]
PageStates   == [up : BOOLEAN, dns : BOOLEAN]

LEMMA RecordsOfWifi ==
    /\ \A s \in Networks \cup {NoName} : [ssid |-> s, psk |-> NoName] \in Credentials
    /\ \A c \in Credentials, k \in Keys : [c EXCEPT !.psk = k] \in Credentials
    /\ W!NoCreds \in Credentials /\ W!Unasked \in TimeRequests /\ W!NoPage \in PageStates
    /\ \A dns \in BOOLEAN, p \in PageStates : [up |-> TRUE, dns |-> p.dns \/ dns] \in PageStates
  BY DEF Credentials, TimeRequests, PageStates, W!NoCreds, W!Unasked, W!NoPage

\* The manager's types, kind by kind.
Counted ==
  /\ rev \in Nat /\ noticed \in Nat /\ noticed <= rev /\ rev <= Changes
  /\ attempts \in Nat /\ attempts <= Saturated
Switched ==
  /\ wanted \in BOOLEAN /\ late \in BOOLEAN /\ justConnected \in BOOLEAN
  /\ reliable \in BOOLEAN /\ systemTime \in BOOLEAN
  /\ back \in {"ntp", "portal"} /\ state \in W!States /\ link \in {"down", "up", "refused"}
Recorded ==
  /\ ssid \in Networks \cup {NoName} /\ psk \in Keys
  /\ inUse \in Credentials /\ ntp \in TimeRequests /\ page \in PageStates

StationTyped == Counted /\ Switched /\ Recorded

\* What the cases need of the bounds.
LEMMA Bounds ==
    /\ Changes \in Nat /\ Saturated \in Nat /\ Requests \in Nat /\ Horizon \in Nat
    /\ \E k \in Keys : TRUE
  BY DeviceAssumption

\* Together with the modes of the radio they are the types of the module.
LEMMA StationIsTyped == RadioInv /\ StationTyped => W!TypeOK
<1> SUFFICES ASSUME RadioInv, StationTyped PROVE W!TypeOK
  OBVIOUS
<1>1. rev \in 0 .. Changes /\ noticed \in 0 .. rev /\ attempts \in 0 .. Saturated
  BY Bounds DEF StationTyped, Counted
<1>2. {late, radioUp, apActive, justConnected, reliable, systemTime} \subseteq BOOLEAN
  BY DEF RadioInv, StationTyped, Switched
<1> QED
  BY <1>1, <1>2 DEF RadioInv, StationTyped, Switched, Recorded, W!TypeOK, Credentials,
                    TimeRequests, PageStates

\* The values the manager boots with.
LEMMA InitStation == W!Init => StationTyped
<1> SUFFICES ASSUME W!Init PROVE StationTyped
  OBVIOUS
<1>1. Counted
  BY Bounds DEF W!Init, Counted
<1>2. Switched
  BY DEF W!Init, Switched, W!States
<1>3. psk = CHOOSE k \in Keys : TRUE
  BY DEF W!Init
<1>4. psk \in Keys
  BY <1>3, Bounds
<1>5. ssid = NoName /\ inUse = W!NoCreds /\ ntp = W!Unasked /\ page = W!NoPage
  BY DEF W!Init
<1> QED
  BY <1>1, <1>2, <1>4, <1>5, RecordsOfWifi DEF StationTyped, Recorded

\* The time requests' record under what the pass makes of it.
LEMMA RequestsOfTime ==
    ASSUME NEW n \in TimeRequests
    PROVE  /\ W!Rescheduled(n) \in TimeRequests
           /\ W!Associated(n) \in TimeRequests /\ W!Requested(n) \in TimeRequests
           /\ [W!Unasked EXCEPT !.late = n.late] \in TimeRequests
           /\ [n EXCEPT !.late = TRUE] \in TimeRequests
  BY DEF TimeRequests, W!Rescheduled, W!Associated, W!Requested, W!Unasked

\* An attempt is counted up to the ceiling, and a revision is noticed after it was made.
LEMMA NextCounted ==
    ASSUME RadioInv, StationTyped, [W!Next]_(W!wifiVars)
    PROVE  Counted'
<1> USE DEF StationTyped, Counted
<1>0. Saturated \in Nat /\ Changes \in Nat
  BY Bounds
<1>1. CASE W!TurnedOff
  BY <1>0, <1>1 DEF W!TurnedOff, W!Updates, W!shutDown, W!Ends, W!manager, W!settings, W!clock
<1>2. CASE W!enterEnabled
  BY <1>0, <1>2 DEF W!enterEnabled, W!Updates, W!ensureRadioUp, W!Connects, W!beginConnect,
               W!Fails, W!failBackoff, W!raiseAp, W!enterIdle, W!Ends, W!manager, W!settings,
               W!clock
<1>3. CASE W!leaveIdle
  BY <1>0, <1>3 DEF W!leaveIdle, W!Updates, W!ensureRadioUp, W!Connects, W!beginConnect,
               W!Fails, W!failBackoff, W!Waits, W!Ends, W!manager, W!settings, W!clock
<1>4. CASE W!pollConnecting
  BY <1>0, <1>4 DEF W!pollConnecting, W!Updates, W!Fails, W!failBackoff, W!Waits, W!Ends,
               W!manager, W!settings, W!clock
<1>5. CASE W!pollConnected
  BY <1>0, <1>5 DEF W!pollConnected, W!Updates, W!Fails, W!failBackoff, W!enterIdle, W!Waits,
               W!Ends, W!manager, W!settings, W!clock
<1>6. CASE W!pollBackoff
  BY <1>0, <1>6 DEF W!pollBackoff, W!Updates, W!ensureRadioUp, W!Connects, W!beginConnect,
               W!Fails, W!failBackoff, W!enterIdle, W!Waits, W!Ends, W!manager, W!settings,
               W!clock
<1>7. CASE W!pollApPortal
  BY <1>0, <1>7 DEF W!pollApPortal, W!Updates, W!beginConnect, W!enterIdle, W!Waits, W!Ends,
               W!manager, W!settings, W!clock
<1>8. CASE W!Join
  BY <1>0, <1>8 DEF W!Join, W!failBackoff, W!manager, W!settings, W!clock
<1>9. CASE W!Ntp
  BY <1>0, <1>9 DEF W!Ntp, W!manager, W!settings, W!clock
<1>10. CASE W!noteProvisioningComplete
  BY <1>0, <1>10 DEF W!noteProvisioningComplete, W!ensureRadioUp, W!beginConnect, W!failBackoff,
               W!manager, W!settings, W!clock
<1>11. CASE W!drivePortal
  BY <1>0, <1>11 DEF W!drivePortal, W!manager, W!settings, W!clock
<1>12. CASE W!Apply
  BY <1>0, <1>12 DEF W!Apply, W!manager, W!settings, W!clock
<1>13. CASE W!Answered \/ W!DeadlinePasses \/ W!SntpAnswers \/ W!WorldSettles \/ W!TimePasses
  BY <1>0, <1>13 DEF W!Answered, W!DeadlinePasses, W!SntpAnswers, W!WorldSettles, W!TimePasses,
               W!manager, W!settings, W!clock
<1>14. CASE UNCHANGED W!wifiVars
  BY <1>14 DEF W!wifiVars, W!manager, W!settings, W!clock
<1> QED
  BY <1>1, <1>2, <1>3, <1>4, <1>5, <1>6, <1>7, <1>8, <1>9, <1>10, <1>11, <1>12, <1>13,
     <1>14 DEF W!Next, W!Pass

\* No step of the pass or of another task gives the manager another state; a connection under
\* way returns to one of the two steps that may begin one (JoinIsReady).
LEMMA NextSwitched ==
    ASSUME RadioInv, StationTyped, [W!Next]_(W!wifiVars)
    PROVE  Switched'
<1> USE DEF StationTyped, Switched, W!States
<1>1. CASE W!TurnedOff
  BY <1>1 DEF W!TurnedOff, W!Updates, W!shutDown, W!Go, W!Ends, W!LinkDown, W!manager,
               W!settings, W!clock
<1>2. CASE W!enterEnabled
  BY <1>2 DEF W!enterEnabled, W!Updates, W!ensureRadioUp, W!Connects, W!beginConnect, W!Fails,
               W!failBackoff, W!raiseAp, W!enterIdle, W!Go, W!Ends, W!LinkDown, W!manager,
               W!settings, W!clock
<1>3. CASE W!leaveIdle
  BY <1>3 DEF W!leaveIdle, W!Updates, W!ensureRadioUp, W!Connects, W!beginConnect, W!Fails,
               W!failBackoff, W!Waits, W!Go, W!Ends, W!LinkDown, W!manager, W!settings, W!clock
<1>4. CASE W!pollConnecting
  BY <1>4 DEF W!pollConnecting, W!Updates, W!Fails, W!failBackoff, W!Waits, W!Go, W!Ends,
               W!LinkDown, W!manager, W!settings, W!clock
<1>5. CASE W!pollConnected
  BY <1>5 DEF W!pollConnected, W!Updates, W!Fails, W!failBackoff, W!enterIdle, W!Waits, W!Go,
               W!Ends, W!LinkDown, W!manager, W!settings, W!clock
<1>6. CASE W!pollBackoff
  BY <1>6 DEF W!pollBackoff, W!Updates, W!ensureRadioUp, W!Connects, W!beginConnect, W!Fails,
               W!failBackoff, W!enterIdle, W!Waits, W!Go, W!Ends, W!LinkDown, W!manager,
               W!settings, W!clock
<1>7. CASE W!pollApPortal
  BY <1>7 DEF W!pollApPortal, W!Updates, W!beginConnect, W!enterIdle, W!Waits, W!Go, W!Ends,
               W!LinkDown, W!manager, W!settings, W!clock
<1>8. CASE W!Join
  BY <1>8 DEF RadioInv, JoinIsReady, W!Join, W!Go, W!failBackoff, W!LinkDown, W!manager,
               W!settings, W!clock
<1>9. CASE W!Ntp
  BY <1>9 DEF W!Ntp, W!manager, W!settings, W!clock
<1>10. CASE W!noteProvisioningComplete
  BY <1>10 DEF W!noteProvisioningComplete, W!ensureRadioUp, W!beginConnect, W!failBackoff, W!Go,
               W!LinkDown, W!manager, W!settings, W!clock
<1>11. CASE W!drivePortal
  BY <1>11 DEF W!drivePortal, W!manager, W!settings, W!clock
<1>12. CASE W!Apply
  BY <1>12 DEF W!Apply, W!manager, W!settings, W!clock
<1>13. CASE W!Answered \/ W!DeadlinePasses \/ W!SntpAnswers \/ W!WorldSettles \/ W!TimePasses
  BY <1>13 DEF W!Answered, W!DeadlinePasses, W!SntpAnswers, W!WorldSettles, W!TimePasses,
               W!manager, W!settings, W!clock
<1>14. CASE UNCHANGED W!wifiVars
  BY <1>14 DEF W!wifiVars, W!manager, W!settings, W!clock
<1> QED
  BY <1>1, <1>2, <1>3, <1>4, <1>5, <1>6, <1>7, <1>8, <1>9, <1>10, <1>11, <1>12, <1>13,
     <1>14 DEF W!Next, W!Pass

\* What the radio was handed was stored, and the time requests and the page stay what they are.
LEMMA NextRecorded ==
    ASSUME RadioInv, StationTyped, [W!Next]_(W!wifiVars)
    PROVE  Recorded'
<1> USE DEF StationTyped, Recorded
<1>1. CASE W!TurnedOff
  BY <1>1 DEF W!TurnedOff, W!Updates, W!shutDown, W!Ends, W!manager, W!settings, W!clock
<1>2. CASE W!enterEnabled
  BY <1>2, RecordsOfWifi DEF W!enterEnabled, W!Updates, W!ensureRadioUp, W!Connects,
               W!beginConnect, W!Fails, W!failBackoff, W!raiseAp, W!enterIdle, W!Ends,
               W!manager, W!settings, W!clock
<1>3. CASE W!leaveIdle
  BY <1>3, RecordsOfWifi DEF W!leaveIdle, W!Updates, W!ensureRadioUp, W!Connects,
               W!beginConnect, W!Fails, W!failBackoff, W!Waits, W!Ends, W!manager, W!settings,
               W!clock
<1>4. CASE W!pollConnecting
  BY <1>4 DEF W!pollConnecting, W!Updates, W!Fails, W!failBackoff, W!Waits, W!Ends, W!manager,
               W!settings, W!clock
<1>5. CASE W!pollConnected
  BY <1>5 DEF W!pollConnected, W!Updates, W!Fails, W!failBackoff, W!enterIdle, W!Waits, W!Ends,
               W!manager, W!settings, W!clock
<1>6. CASE W!pollBackoff
  BY <1>6, RecordsOfWifi DEF W!pollBackoff, W!Updates, W!ensureRadioUp, W!Connects,
               W!beginConnect, W!Fails, W!failBackoff, W!enterIdle, W!Waits, W!Ends, W!manager,
               W!settings, W!clock
<1>7. CASE W!pollApPortal
  BY <1>7, RecordsOfWifi DEF W!pollApPortal, W!Updates, W!beginConnect, W!enterIdle, W!Waits,
               W!Ends, W!manager, W!settings, W!clock
<1>8. CASE W!Join
  BY <1>8, RecordsOfWifi DEF W!Join, W!failBackoff, W!manager, W!settings, W!clock
<1>9. CASE W!Ntp
  BY <1>9, RequestsOfTime DEF W!Ntp, W!manager, W!settings, W!clock
<1>10. CASE W!noteProvisioningComplete
  BY <1>10, RecordsOfWifi DEF W!noteProvisioningComplete, W!ensureRadioUp, W!beginConnect,
               W!failBackoff, W!manager, W!settings, W!clock
<1>11. CASE W!drivePortal
  BY <1>11, RecordsOfWifi DEF W!drivePortal, W!manager, W!settings, W!clock
<1>12. CASE W!Apply
  BY <1>12 DEF W!Apply, W!manager, W!settings, W!clock
<1>13. CASE W!Answered \/ W!DeadlinePasses \/ W!SntpAnswers \/ W!WorldSettles \/ W!TimePasses
  BY <1>13, RequestsOfTime DEF W!Answered, W!DeadlinePasses, W!SntpAnswers, W!WorldSettles,
               W!TimePasses, W!manager, W!settings, W!clock
<1>14. CASE UNCHANGED W!wifiVars
  BY <1>14 DEF W!wifiVars, W!manager, W!settings, W!clock
<1> QED
  BY <1>1, <1>2, <1>3, <1>4, <1>5, <1>6, <1>7, <1>8, <1>9, <1>10, <1>11, <1>12, <1>13,
     <1>14 DEF W!Next, W!Pass

\* The manager's values are those of its types, whatever the bounds.
LEMMA WifiTyped == W!Init /\ [][W!Next]_(W!wifiVars) => []W!TypeOK
<1>1. RadioInv /\ StationTyped /\ [W!Next]_(W!wifiVars) => (RadioInv /\ StationTyped)'
  BY NextRadio, NextCounted, NextSwitched, NextRecorded DEF StationTyped
<1> QED
  BY InitRadio, InitStation, StationIsTyped, <1>1, PTL

-----------------------------------------------------------------------------
(* PortalRequest: the body that is submitted. *)

\* The first n chunks of request r.
Chunks(r, n) == [i \in 1 .. n |-> <<r.id, i>>]

Submission == [id : Nat \ {0}, kind : {"raw", "multipart", "bare"}, declared : Nat, login : BOOLEAN,
            got : Nat, phase : {"headers", "body", "handler"}]

\* The buffer between two requests, and before a body.
Released == body = <<>> /\ ~allocated /\ ~complete /\ ~refused

\* What the buffer holds at each point of a request.
BufferFits ==
  /\ served \in Nat
  /\ request = P!NoRequest \/ request \in Submission
  /\ request = P!NoRequest \/ P!At("headers") => Released
  /\ P!At("headers") => request.got = 0
  /\ P!At("body") => /\ request.got <= request.declared /\ ~complete
                     /\ ~refused => /\ allocated /\ capacity = request.declared
                                    /\ body = Chunks(request, request.got)
  /\ P!At("handler") /\ complete => /\ ~refused /\ allocated
                                    /\ body = Chunks(request, request.declared)

\* A request is a record of its own, never the absence of one.
LEMMA RequestIsOne == \A r \in Submission : r # P!NoRequest
  BY DEF Submission, P!NoRequest

\* Changing the phase or the count of a request leaves a request.
LEMMA RequestUpdate ==
    ASSUME NEW r \in Submission
    PROVE  /\ \A p \in {"headers", "body", "handler"} : [r EXCEPT !.phase = p] \in Submission
           /\ [r EXCEPT !.got = @ + 1] \in Submission
  BY DEF Submission

\* A chunk appended to the first n of a request makes its first n + 1.
LEMMA NextChunk ==
    ASSUME NEW r \in Submission, NEW n \in Nat
    PROVE  Append(Chunks(r, n), <<r.id, n + 1>>) = Chunks(r, n + 1)
<1> DEFINE s == Chunks(r, n)
<1>1. s \in Seq(Nat \X Nat) /\ Len(s) = n
  <2>1. s \in [1 .. n -> Nat \X Nat]
    BY DEF Chunks, Submission
  <2> QED
    BY <2>1
<1>2. Append(s, <<r.id, n + 1>>) = [i \in 1 .. n + 1 |-> IF i <= n THEN s[i] ELSE <<r.id, n + 1>>]
  BY <1>1
<1> QED
  BY <1>2 DEF Chunks

\* The server boots with no request and an empty buffer.
LEMMA InitBuffer == P!Init => BufferFits
  BY DEF P!Init, BufferFits, Released, P!At, P!NoRequest

\* No callback of the web server and no handler leaves the buffer of one request to another.
LEMMA NextBuffer ==
    ASSUME MaxSubmit \in Nat, BufferFits, [P!Next]_(P!portalVars)
    PROVE  BufferFits'
<1> USE DEF BufferFits
<1>1. CASE P!Arrives
  <2> PICK kind \in {"raw", "multipart", "bare"}, declared \in 0 .. (MaxSubmit + 1),
           login \in BOOLEAN :
        request' = [id |-> served + 1, kind |-> kind, declared |-> declared, login |-> login,
                    got |-> 0, phase |-> "headers"]
    BY <1>1 DEF P!Arrives
  <2>1. request' \in Submission /\ request'.phase = "headers"
    BY DEF Submission
  <2> QED
    BY <1>1, <2>1 DEF P!Arrives, P!At, Released, P!buffer
<1>2. CASE P!RawStart
  <2>1. /\ request \in Submission /\ request' = [request EXCEPT !.phase = "body"]
        /\ request.got = 0
    BY <1>2 DEF P!RawStart, P!At, P!Phase
  <2>2. /\ request' \in Submission /\ request'.phase = "body" /\ request' # P!NoRequest
        /\ request'.got = 0 /\ request'.declared = request.declared
        /\ request'.got <= request'.declared
    BY <2>1, RequestUpdate, RequestIsOne DEF Submission
  <2>3. ~refused' => allocated' /\ capacity' = request.declared
    <3>1. \/ refused' = TRUE
          \/ /\ capacity' = request.declared
             /\ \E allocates \in BOOLEAN : allocated' = allocates /\ refused' = ~allocates
      BY <1>2, Zenon DEF P!RawStart
    <3>2. ASSUME NEW allocates \in BOOLEAN, allocated' = allocates, refused' = ~allocates
          PROVE  ~refused' => allocated'
      <4>1. CASE allocates = TRUE
        BY <3>2, <4>1
      <4>2. CASE allocates = FALSE
        <5>1. refused' = TRUE
          BY <3>2, <4>2
        <5> QED
          BY <5>1
      <4> QED
        BY <4>1, <4>2
    <3> QED
      BY <3>1, <3>2, Zenon
  <2>4. body' = Chunks(request', request'.got) /\ ~complete'
    BY <1>2, <2>2 DEF P!RawStart, Chunks
  <2> QED
    BY <1>2, <2>2, <2>3, <2>4 DEF P!RawStart, P!At
<1>3. CASE P!RawWrite
  <2>1. /\ request \in Submission /\ request' = [request EXCEPT !.got = @ + 1]
        /\ request.phase = "body" /\ request.got < request.declared
    BY <1>3 DEF P!RawWrite, P!At
  <2>2. /\ request' \in Submission /\ request'.phase = "body" /\ request'.id = request.id
        /\ request'.declared = request.declared /\ request'.got = request.got + 1
    BY <2>1, RequestUpdate DEF Submission
  <2>3. request' # P!NoRequest
    BY <2>2, RequestIsOne
  <2>4. request'.got <= request'.declared
    BY <2>1, <2>2 DEF Submission
  <2>5. PICK nul \in BOOLEAN :
          \/ (refused \/ ~allocated) /\ UNCHANGED P!buffer
          \/ ~complete' /\ refused'
          \/ /\ ~refused /\ body' = Append(body, <<request.id, request.got + 1>>)
             /\ UNCHANGED <<allocated, capacity, complete, refused>>
    BY <1>3 DEF P!RawWrite
  <2>6. CASE (refused \/ ~allocated) /\ UNCHANGED P!buffer
    BY <1>3, <2>2, <2>3, <2>4, <2>6 DEF P!RawWrite, P!At, P!buffer
  <2>7. CASE ~complete' /\ refused'
    BY <1>3, <2>2, <2>3, <2>4, <2>7 DEF P!RawWrite, P!At
  <2>8. CASE /\ ~refused /\ body' = Append(body, <<request.id, request.got + 1>>)
             /\ UNCHANGED <<allocated, capacity, complete, refused>>
    <3>1. body = Chunks(request, request.got) /\ allocated /\ ~complete
          /\ capacity = request.declared
      BY <1>3, <2>8 DEF P!RawWrite
    <3>2. body' = Chunks(request, request.got + 1)
      BY <2>1, <2>8, <3>1, NextChunk DEF Submission
    <3>3. body' = Chunks(request', request'.got)
      BY <2>2, <3>2 DEF Chunks
    <3> QED
      BY <1>3, <2>2, <2>3, <2>4, <2>8, <3>1, <3>3 DEF P!RawWrite, P!At
  <2> QED
    BY <2>5, <2>6, <2>7, <2>8
<1>4. CASE P!RawEnd
  <2>1. /\ request \in Submission /\ request' = [request EXCEPT !.phase = "handler"]
        /\ request.got = request.declared
    BY <1>4 DEF P!RawEnd, P!At, P!Phase
  <2>2. /\ request' \in Submission /\ request'.phase = "handler" /\ request'.id = request.id
        /\ request'.declared = request.declared
    BY <2>1, RequestUpdate DEF Submission
  <2>3. complete' => ~refused' /\ allocated' /\ body' = Chunks(request, request.declared)
    BY <1>4, <2>1 DEF P!RawEnd
  <2>4. complete' => body' = Chunks(request', request'.declared)
    BY <2>2, <2>3 DEF Chunks
  <2>5. request' # P!NoRequest
    BY <2>2, RequestIsOne
  <2> QED
    BY <1>4, <2>2, <2>3, <2>4, <2>5 DEF P!RawEnd, P!At
<1>5. CASE P!RawAborted
  BY <1>5 DEF P!RawAborted, P!releaseBody, Released, P!At
<1>6. CASE P!Multipart
  <2>1. request' = P!NoRequest \/ /\ request' \in Submission /\ request'.phase = "handler"
                                  /\ request' # P!NoRequest
    <3>1. request \in Submission
      BY <1>6 DEF P!Multipart, P!At
    <3>2. request' = P!NoRequest \/ request' = [request EXCEPT !.phase = "handler"]
      BY <1>6 DEF P!Multipart, P!Phase
    <3> QED
      BY <3>1, <3>2, RequestUpdate, RequestIsOne DEF Submission
  <2> QED
    BY <1>6, <2>1 DEF P!Multipart, P!releaseBody, Released, P!At
<1>7. CASE P!Bare
  <2>1. request \in Submission /\ request' = [request EXCEPT !.phase = "handler"]
    BY <1>7 DEF P!Bare, P!At, P!Phase
  <2>2. request' \in Submission /\ request'.phase = "handler" /\ request' # P!NoRequest
    BY <2>1, RequestUpdate, RequestIsOne DEF Submission
  <2> QED
    BY <1>7, <2>2 DEF P!Bare, P!At, Released, P!buffer
<1>8. CASE P!handlePost
  BY <1>8 DEF P!handlePost, P!releaseBody, Released, P!At
<1>9. CASE UNCHANGED P!portalVars
  BY <1>9 DEF P!portalVars, P!buffer, P!At, Released
<1> QED
  BY <1>1, <1>2, <1>3, <1>4, <1>5, <1>6, <1>7, <1>8, <1>9 DEF P!Next

\* A step that serves a complete, authorized request submits that request's whole body.
LEMMA StepSubmitsOwn ==
    ASSUME BufferFits, [P!Next]_(P!portalVars), P!At("handler"), request.login, complete, ~refused,
           ~UNCHANGED P!portalVars
    PROVE  submitted' = [i \in 1 .. request.declared |-> <<request.id, i>>]
<1>1. P!handlePost
  <2>1. P!Arrives => FALSE
    BY DEF P!Arrives, P!At
  <2>2. P!RawStart \/ P!Multipart \/ P!Bare => FALSE
    BY DEF P!RawStart, P!Multipart, P!Bare, P!At
  <2>3. P!RawWrite \/ P!RawEnd \/ P!RawAborted => FALSE
    BY DEF P!RawWrite, P!RawEnd, P!RawAborted, P!At
  <2> QED
    BY <2>1, <2>2, <2>3 DEF P!Next
<1>2. allocated /\ body = Chunks(request, request.declared)
  BY DEF BufferFits
<1> QED
  BY <1>1, <1>2 DEF P!handlePost, Chunks

\* ArduinoPortalServer hands PortalForm::submit the whole body of the request being served,
\* never one cut short, refused, aborted or left over, for any number of requests and any
\* limit on a body.
LEMMA RequestKeeps == P!Init /\ [][P!Next]_(P!portalVars) => P!SubmitsOwnWholeBody
<1>1. BufferFits /\ [P!Next]_(P!portalVars) => BufferFits'
  BY NextBuffer, DeviceAssumption
<1>2. BufferFits /\ [P!Next]_(P!portalVars)
        => [P!At("handler") /\ request.login /\ complete /\ ~refused
             => submitted' = [i \in 1 .. request.declared |-> <<request.id, i>>]]_(P!portalVars)
  BY StepSubmitsOwn
<1> QED
  BY InitBuffer, <1>1, <1>2, PTL DEF P!SubmitsOwnWholeBody

\* What BufferFits leaves open: the request is one of those begun, and what is kept fits.
Begun ==
  request.id \in Nat /\ served \in Nat /\ request.id <= served /\ served <= Requests
Kept ==
  /\ body \in Seq(Nat \X Nat) /\ capacity \in Nat
  /\ Len(body) <= capacity /\ capacity <= MaxSubmit
Flagged ==
  allocated \in BOOLEAN /\ complete \in BOOLEAN /\ refused \in BOOLEAN

RequestTyped == Begun /\ Kept /\ Flagged

\* A request keeps its number as it is served.
LEMMA SameRequest ==
    ASSUME BufferFits, NEW phase, NEW r, r = request, P!At(phase)
    PROVE  /\ r \in Submission /\ r.id \in Nat /\ r.got \in Nat /\ r.declared \in Nat
           /\ \A p \in {"headers", "body", "handler"} : [r EXCEPT !.phase = p].id = r.id
           /\ [r EXCEPT !.got = @ + 1].id = r.id
  BY DEF BufferFits, P!At, Submission

\* No callback writes past the buffer it allocated, nor allocates more than a body may have.
LEMMA NextTyped ==
    ASSUME BufferFits, RequestTyped, [P!Next]_(P!portalVars)
    PROVE  RequestTyped'
<1> USE DEF RequestTyped
<1>0. /\ <<>> \in Seq(Nat \X Nat) /\ Len(<<>>) = 0 /\ P!NoRequest.id = 0
      /\ MaxSubmit \in Nat /\ Requests \in Nat
  BY DeviceAssumption, Bounds DEF P!NoRequest
<1>1. Begun'
  <2>1. CASE P!Arrives
    BY <1>0, <2>1 DEF Begun, P!Arrives
  <2>2. CASE request' = P!NoRequest /\ served' = served
    BY <1>0, <2>2 DEF Begun
  <2>3. CASE request'.id = request.id /\ served' = served
    BY <2>3 DEF Begun
  <2>4. CASE P!RawStart \/ P!RawWrite \/ P!RawEnd \/ P!RawAborted \/ P!Multipart \/ P!Bare
               \/ P!handlePost
    BY <2>2, <2>3, <2>4, SameRequest
       DEF P!RawStart, P!RawWrite, P!RawEnd, P!RawAborted, P!Multipart, P!Bare, P!handlePost,
           P!Phase
  <2> QED
    BY <2>1, <2>3, <2>4 DEF P!Next, P!portalVars
<1>2. Kept'
  <2>1. CASE body' = <<>> /\ capacity' \in Nat /\ capacity' <= MaxSubmit
    BY <1>0, <2>1 DEF Kept
  <2>2. CASE UNCHANGED <<body, capacity>>
    BY <2>2 DEF Kept
  <2>3. CASE P!RawStart
    <3>1. request.declared \in Nat
      BY <2>3, SameRequest DEF P!RawStart
    <3> QED
      BY <1>0, <2>1, <2>3, <3>1 DEF P!RawStart
  <2>4. CASE P!RawWrite
    <3>1. CASE Len(body) < capacity /\ body' = Append(body, <<request.id, request.got + 1>>)
                 /\ capacity' = capacity
      <4>1. <<request.id, request.got + 1>> \in Nat \X Nat
        BY <2>4, SameRequest DEF P!RawWrite
      <4>2. body' \in Seq(Nat \X Nat) /\ Len(body') = Len(body) + 1
        BY <3>1, <4>1 DEF Kept
      <4> QED
        BY <3>1, <4>2 DEF Kept
    <3> QED
      BY <1>0, <2>1, <2>2, <2>4, <3>1 DEF P!RawWrite, P!buffer
  <2>5. CASE P!RawAborted \/ P!Multipart \/ P!handlePost
    BY <1>0, <2>1, <2>5 DEF P!RawAborted, P!Multipart, P!handlePost, P!releaseBody
  <2>6. CASE P!Arrives \/ P!RawEnd \/ P!Bare
    BY <2>2, <2>6 DEF P!Arrives, P!RawEnd, P!Bare, P!buffer
  <2> QED
    BY <2>2, <2>3, <2>4, <2>5, <2>6 DEF P!Next, P!portalVars, P!buffer
<1>3. Flagged'
  BY DEF Flagged, P!Next, P!portalVars, P!buffer, P!Arrives, P!RawStart, P!RawWrite, P!RawEnd,
         P!RawAborted, P!Multipart, P!Bare, P!handlePost, P!releaseBody
<1> QED
  BY <1>1, <1>2, <1>3

\* The body kept never exceeds the buffer allocated for it, nor that buffer the limit on a body.
LEMMA BodyFits == P!Init /\ [][P!Next]_(P!portalVars) => []P!TypeOK
<1>0. MaxSubmit \in Nat /\ Requests \in Nat
  BY DeviceAssumption, Bounds
<1>1. P!Init => RequestTyped
  <2> SUFFICES ASSUME P!Init PROVE RequestTyped
    OBVIOUS
  <2>1. Begun
    BY <1>0 DEF P!Init, P!NoRequest, Begun
  <2>2. body = <<>> /\ capacity = 0
    BY DEF P!Init
  <2>3. Kept
    BY <1>0, <2>2 DEF Kept
  <2>4. Flagged
    BY DEF P!Init, Flagged
  <2> QED
    BY <2>1, <2>3, <2>4 DEF RequestTyped
<1>2. BufferFits /\ RequestTyped /\ [P!Next]_(P!portalVars) => (BufferFits /\ RequestTyped)'
  BY <1>0, NextBuffer, NextTyped
<1>3. RequestTyped => P!TypeOK
  <2> SUFFICES ASSUME RequestTyped PROVE P!TypeOK
    OBVIOUS
  <2>1. request.id \in 0 .. served /\ served \in 0 .. Requests
    BY <1>0 DEF RequestTyped, Begun
  <2>2. Len(body) <= capacity /\ capacity \in 0 .. MaxSubmit
    BY <1>0 DEF RequestTyped, Kept
  <2> QED
    BY <2>1, <2>2 DEF RequestTyped, Flagged, P!TypeOK
<1> QED
  BY InitBuffer, <1>1, <1>2, <1>3, PTL

-----------------------------------------------------------------------------
(* MqttCommand: two resets of a kind. *)

\* What the code's constants satisfy: 60 s against a counter of 32 bits.
Constants == Interval \in Nat /\ Wrap \in Nat \ {0} /\ Interval <= Wrap \div 2

Acceptance == [at : Int, skew : Nat, kept : BOOLEAN]

\* The epoch an acceptance was given.
EpochOf(a) == 1 + a.at + a.skew

CommandTyped ==
  /\ t \in Nat /\ bootAt \in Nat /\ skew \in Nat
  /\ last \in [C!Kinds -> Acceptance]
  /\ accepted \in [C!Kinds -> BOOLEAN] /\ lastMs \in [C!Kinds -> Int]
  /\ persisted \in [C!Kinds -> Nat] /\ flash \in [C!Kinds -> Nat]

\* What the router remembers of the last acceptance of a kind.
Remembers(k) ==
  /\ last[k].at <= t
  /\ accepted[k] => lastMs[k] = (last[k].at - bootAt) % Wrap
  /\ last[k].kept => /\ last[k].at \in Nat
                     /\ persisted[k] = EpochOf(last[k]) /\ flash[k] = EpochOf(last[k])

\* The epoch about to be written is the one of the acceptance just made.
WritesLatest ==
  reader = "persist" => /\ copy.topic \in C!Kinds /\ last[copy.topic].at \in Nat
                        /\ persisted[copy.topic] = EpochOf(last[copy.topic])

Spaced == CommandTyped /\ (\A k \in C!Kinds : Remembers(k)) /\ WritesLatest

-----------------------------------------------------------------------------
(* Counting modulo Wrap. *)

\* Less than Interval after c, the router's comparison says "before c + Interval", however
\* often the counter came round in between and whenever it was started.
LEMMA TooEarlyIsSeen ==
    ASSUME Constants, NEW a \in Int, NEW c \in Int, NEW b \in Int, 0 <= a - c, a - c < Interval
    PROVE  C!Before((a - b) % Wrap, ((c - b) % Wrap) + Interval)
<1> DEFINE qa == (a - b) \div Wrap
           qc == (c - b) \div Wrap
           ra == (a - b) % Wrap
           rc == (c - b) % Wrap
           q  == qc - qa - 1
           r  == a - c - Interval + Wrap
           x  == ra - (rc + Interval)
<1>1. /\ a - b = Wrap * qa + ra /\ ra \in Int /\ qa \in Int
      /\ c - b = Wrap * qc + rc /\ rc \in Int /\ qc \in Int
  BY Division DEF Constants
<1>2. r \in 0 .. Wrap - 1 /\ r >= Wrap \div 2
  BY DEF Constants
<1>3. x \in Int /\ q \in Int
  <2> HIDE DEF qa, qc, ra, rc
  <2> QED
    BY <1>1 DEF Constants
<1>4. x = Wrap * q + r
  <2> HIDE DEF qa, qc, ra, rc
  <2>1. Wrap * q = Wrap * qc - Wrap * qa - Wrap
    BY <1>1 DEF Constants
  <2>2. Wrap * qa \in Int /\ Wrap * qc \in Int /\ Wrap \in Int /\ Interval \in Int
    BY <1>1 DEF Constants
  <2> QED
    BY <1>1, <2>1, <2>2
<1>5. x % Wrap = r
  <2> HIDE DEF q, r, x
  <2> QED
    BY <1>2, <1>3, <1>4, Remainder DEF Constants
<1> QED
  BY <1>2, <1>5 DEF C!Before

-----------------------------------------------------------------------------
(* The invariant. *)

\* The router has accepted nothing when the device boots for the first time.
LEMMA InitSpaced == Constants /\ C!Init => Spaced
  BY DEF Constants, C!Init, Spaced, CommandTyped, Remembers, WritesLatest, Acceptance, C!Kinds

\* No step of either task, of the clock or of the power makes the router forget the last
\* acceptance of a kind while a guard still depends on it.
LEMMA NextSpaced ==
    ASSUME Constants, Spaced, [C!Next]_(C!cmdVars)
    PROVE  Spaced'
<1> USE DEF Spaced
<1>1. CASE C!Arrive
  BY <1>1 DEF C!Arrive, C!router, C!wall, CommandTyped, Remembers, WritesLatest, EpochOf
<1>2. CASE C!Latch
  BY <1>2 DEF C!Latch, C!router, C!wall, CommandTyped, Remembers, WritesLatest, EpochOf
<1>3. CASE C!CopyTopic
  BY <1>3 DEF C!CopyTopic, C!router, C!wall, CommandTyped, Remembers, WritesLatest, EpochOf
<1>4. CASE C!CopyRest
  BY <1>4 DEF C!CopyRest, C!router, C!wall, CommandTyped, Remembers, WritesLatest, EpochOf
<1>5. CASE C!Drop
  BY <1>5 DEF C!Drop, C!router, C!wall, CommandTyped, Remembers, WritesLatest, EpochOf
<1>6. CASE C!Answer
  BY <1>6 DEF C!Answer, C!router, C!wall, CommandTyped, Remembers, WritesLatest, EpochOf
<1>7. CASE C!Perform
  <2>1. PICK k \in C!Kinds : k = copy.topic
    BY <1>7 DEF C!Perform
  <2>2. PICK now \in Nat : now = C!nowEpoch
    BY DEF C!nowEpoch, CommandTyped
  <2>3. /\ accepted' = [accepted EXCEPT ![k] = TRUE]
        /\ lastMs' = [lastMs EXCEPT ![k] = C!millis]
        /\ persisted' = [persisted EXCEPT ![k] = now]
        /\ last' = [last EXCEPT ![k] = [at |-> t, skew |-> skew, kept |-> FALSE]]
        /\ UNCHANGED <<t, bootAt, skew, flash>>
        /\ reader' = IF now # 0 THEN "persist" ELSE "idle"
        /\ now # 0 => copy' = copy /\ now = 1 + t + skew
    BY <1>7, <2>1, <2>2 DEF C!Perform, C!wall, C!nowEpoch
  <2>4. C!millis \in Int
    BY Division DEF C!millis, CommandTyped, Constants
  <2>5. /\ last' \in [C!Kinds -> Acceptance]
        /\ last'[k].at = t /\ last'[k].skew = skew /\ last'[k].kept = FALSE
        /\ \A j \in C!Kinds \ {k} : last'[j] = last[j]
    BY <2>3 DEF CommandTyped, Acceptance
  <2>6. CommandTyped'
    BY <2>1, <2>3, <2>4, <2>5 DEF CommandTyped
  <2>7. \A j \in C!Kinds : Remembers(j)'
    <3>1. /\ last'[k].at <= t' /\ ~last'[k].kept
          /\ lastMs'[k] = (last'[k].at - bootAt') % Wrap
      BY <2>1, <2>3, <2>5 DEF CommandTyped, C!millis
    <3>2. \A j \in C!Kinds \ {k} : Remembers(j)'
      BY <2>1, <2>3, <2>5 DEF CommandTyped, Remembers, EpochOf
    <3> QED
      BY <3>1, <3>2 DEF Remembers
  <2>8. WritesLatest'
    BY <2>1, <2>3, <2>5 DEF CommandTyped, WritesLatest, EpochOf
  <2> QED
    BY <2>6, <2>7, <2>8
<1>8. CASE C!Persist
  <2>1. /\ reader = "persist" /\ reader' = "idle"
        /\ UNCHANGED <<t, bootAt, skew, accepted, lastMs, persisted>>
    BY <1>8 DEF C!Persist, C!router, C!wall
  <2>2. PICK k \in C!Kinds :
          /\ k = copy.topic /\ last[k].at \in Nat /\ persisted[k] = EpochOf(last[k])
    BY <2>1 DEF WritesLatest
  <2>3. CASE UNCHANGED <<flash, last>>
    BY <2>1, <2>3 DEF CommandTyped, Remembers, WritesLatest, EpochOf
  <2>4. CASE /\ flash' = [flash EXCEPT ![k] = persisted[k]]
             /\ last' = [last EXCEPT ![k].kept = TRUE]
    <3>1. /\ last' \in [C!Kinds -> Acceptance]
          /\ last'[k].at = last[k].at /\ last'[k].skew = last[k].skew
          /\ \A j \in C!Kinds \ {k} : last'[j] = last[j] /\ flash'[j] = flash[j]
          /\ flash' \in [C!Kinds -> Nat] /\ flash'[k] = persisted[k]
      BY <2>4 DEF CommandTyped, Acceptance
    <3>2. Remembers(k)'
      BY <2>1, <2>2, <3>1 DEF Remembers, EpochOf
    <3>3. \A j \in C!Kinds \ {k} : Remembers(j)'
      BY <2>1, <3>1 DEF Remembers, EpochOf
    <3> QED
      BY <2>1, <3>1, <3>2, <3>3 DEF CommandTyped, WritesLatest
  <2> QED
    BY <1>8, <2>2, <2>3, <2>4 DEF C!Persist
<1>9. CASE C!TimePasses
  BY <1>9 DEF C!TimePasses, C!router, CommandTyped, Remembers, WritesLatest, EpochOf, Acceptance
<1>10. CASE C!SetClock
  BY <1>10 DEF C!SetClock, C!Skews, C!router, CommandTyped, Remembers, WritesLatest, EpochOf
<1>11. CASE C!LinkChanges \/ C!TakeDisconnect
  BY <1>11 DEF C!LinkChanges, C!TakeDisconnect, C!router, C!wall, CommandTyped, Remembers, WritesLatest, EpochOf
<1>12. CASE C!PowerCut
  BY <1>12 DEF C!PowerCut, C!Seed, CommandTyped, Remembers, WritesLatest, EpochOf
<1>13. CASE UNCHANGED C!cmdVars
  BY <1>13 DEF C!cmdVars, C!esp, C!router, C!wall, CommandTyped, Remembers, WritesLatest,
               EpochOf
<1> QED
  BY <1>1, <1>2, <1>3, <1>4, <1>5, <1>6, <1>7, <1>8, <1>9, <1>10, <1>11, <1>12, <1>13 DEF C!Next

\* A reset that is accepted comes late enough: the counter guards it within a boot, and the
\* epoch across boots where one was kept and the clock was left alone.
LEMMA AcceptedLate ==
    ASSUME Constants, Spaced, NEW k \in C!Kinds, copy.topic = k, C!Evaluated = "accepted",
           accepted[k] \/ (last[k].kept /\ clockSet /\ skew = last[k].skew)
    PROVE  t - last[k].at >= Interval
<1>1. t \in Nat /\ bootAt \in Nat /\ last[k].at \in Int /\ last[k].skew \in Nat
      /\ last[k].at <= t /\ Interval \in Nat
  BY DEF Spaced, CommandTyped, Remembers, Acceptance, Constants
<1> SUFFICES ASSUME t - last[k].at < Interval PROVE FALSE
  BY <1>1
<1>2. ~C!RecentInBoot(k) /\ ~C!RecentByClock(k)
  BY DEF C!Evaluated, C!Kinds
<1>3. CASE accepted[k]
  <2>1. lastMs[k] = (last[k].at - bootAt) % Wrap
    BY <1>3 DEF Spaced, Remembers
  <2>2. C!Before((t - bootAt) % Wrap, ((last[k].at - bootAt) % Wrap) + Interval)
    <3>1. /\ t \in Int /\ last[k].at \in Int /\ bootAt \in Int
          /\ 0 <= t - last[k].at /\ t - last[k].at < Interval
      BY <1>1
    <3> QED
      BY <3>1, TooEarlyIsSeen, Zenon
  <2> QED
    BY <1>2, <1>3, <2>1, <2>2 DEF C!RecentInBoot, C!millis
<1>4. CASE last[k].kept /\ clockSet /\ skew = last[k].skew
  <2>1. persisted[k] = 1 + last[k].at + last[k].skew /\ last[k].at \in Nat
    BY <1>4 DEF Spaced, Remembers, EpochOf
  <2>2. C!nowEpoch = 1 + t + last[k].skew
    BY <1>4 DEF C!nowEpoch
  <2> QED
    BY <1>1, <1>2, <2>1, <2>2 DEF C!RecentByClock
<1> QED
  BY <1>3, <1>4

\* Two resets of a kind are at least kResetMinIntervalMs apart, within a boot and, where the
\* first one's epoch was kept and the clock not stepped, across boots: for any interval up
\* to half the range of millis(), any number of messages and of power cuts.
LEMMA CommandKeeps == C!Init /\ [][C!Next]_(C!cmdVars) => C!ResetsSpaced
<1>0. Constants
  BY DeviceAssumption DEF Constants
<1>1. Spaced /\ [C!Next]_(C!cmdVars) => Spaced'
  BY <1>0, NextSpaced
<1>2. Spaced /\ [C!Next]_(C!cmdVars)
        => [\A k \in C!Kinds :
              C!Accepts(k) /\ (accepted[k] \/ (last[k].kept /\ clockSet /\ skew = last[k].skew))
                => t - last[k].at >= Interval]_(C!cmdVars)
  BY <1>0, AcceptedLate DEF C!Accepts
<1> QED
  BY <1>0, InitSpaced, <1>1, <1>2, PTL DEF C!ResetsSpaced

\* What Spaced leaves open: where the tasks are, and what is latched and copied.
Clocked ==
  t \in Nat /\ t <= Horizon /\ bootAt \in Nat /\ bootAt <= t
Tasks ==
  /\ clockSet \in BOOLEAN /\ online \in BOOLEAN /\ lost \in BOOLEAN
  /\ writer \in {"idle", "rest"} /\ reader \in {"idle", "rest", "decide", "persist"}
Messages == [topic : C!Commands, rest : C!Rests]
Slots    == message \in Messages /\ latch \in Messages /\ copy \in Messages
Stamped  == lastMs \in [C!Kinds -> 0 .. Wrap - 1]

CommandStands == Clocked /\ Tasks /\ Slots /\ Stamped

\* Messages as the two tasks put them together.
LEMMA MessagesStay ==
    /\ [topic |-> "none", rest |-> C!Blank] \in Messages
    /\ \A c \in C!Commands, r \in C!Rests : [topic |-> c, rest |-> r] \in Messages
    /\ \A m \in Messages : m.topic \in C!Commands /\ m.rest \in C!Rests
    /\ \A m \in Messages, n \in Messages : /\ [m EXCEPT !.topic = n.topic] \in Messages
                                         /\ [m EXCEPT !.rest = n.rest] \in Messages
  BY DEF Messages, C!Blank, C!Rests, C!Commands, C!Kinds

\* No step of either task, of the clock or of the power leaves them.
LEMMA NextStands ==
    ASSUME CommandStands, [C!Next]_(C!cmdVars)
    PROVE  CommandStands'
<1> USE DEF CommandStands
<1>1. Clocked'
  BY Bounds
     DEF Clocked, C!Next, C!cmdVars, C!wall, C!Arrive, C!Latch, C!CopyTopic, C!CopyRest, C!Drop,
         C!Answer, C!Perform, C!Persist, C!TimePasses, C!SetClock, C!LinkChanges, C!PowerCut,
         C!TakeDisconnect
<1>2. Tasks'
  BY DEF Tasks, C!Next, C!cmdVars, C!esp, C!session, C!wall, C!TakeDisconnect, C!Arrive, C!Latch, C!CopyTopic, C!CopyRest,
         C!Drop, C!Answer, C!Perform, C!Persist, C!TimePasses, C!SetClock, C!LinkChanges, C!PowerCut
<1>3. Slots'
  <2> USE DEF Slots
  <2>1. CASE C!Arrive
    BY <2>1, MessagesStay DEF C!Arrive
  <2>2. CASE C!Latch
    BY <2>2, MessagesStay DEF C!Latch
  <2>3. CASE C!CopyTopic \/ C!CopyRest
    BY <2>3, MessagesStay DEF C!CopyTopic, C!CopyRest, C!esp
  <2>4. CASE C!Drop \/ C!Answer \/ C!Perform \/ C!Persist
    BY <2>4, MessagesStay DEF C!Drop, C!Answer, C!Perform, C!Persist, C!esp
  <2>5. CASE C!TimePasses \/ C!SetClock \/ C!LinkChanges \/ C!TakeDisconnect
    BY <2>5 DEF C!TimePasses, C!SetClock, C!LinkChanges, C!TakeDisconnect, C!esp
  <2>6. CASE C!PowerCut
    BY <2>6, MessagesStay DEF C!PowerCut
  <2> QED
    BY <2>1, <2>2, <2>3, <2>4, <2>5, <2>6 DEF C!Next, C!cmdVars, C!esp
<1>4. Stamped'
  <2> USE DEF Stamped
  <2>0. Wrap \in Nat \ {0}
    BY DeviceAssumption
  <2>1. CASE C!Perform
    <3>1. t - bootAt \in Int
      BY DEF Clocked
    <3>2. C!millis \in 0 .. Wrap - 1
      BY <2>0, <3>1, Division DEF C!millis
    <3>3. lastMs' = [lastMs EXCEPT ![copy.topic] = C!millis]
      BY <2>1 DEF C!Perform
    <3> QED
      BY <3>2, <3>3
  <2>2. CASE C!PowerCut
    BY <2>0, <2>2 DEF C!PowerCut
  <2>3. CASE UNCHANGED lastMs
    BY <2>3
  <2> QED
    BY <2>1, <2>2, <2>3
       DEF C!Next, C!cmdVars, C!router, C!Arrive, C!Latch, C!CopyTopic, C!CopyRest, C!Drop,
           C!Answer, C!Persist, C!TimePasses, C!SetClock, C!LinkChanges, C!TakeDisconnect
<1> QED
  BY <1>1, <1>2, <1>3, <1>4

\* The slot and its copy hold a command's topic, a stamp is a value of the counter, and the clock
\* stands after the boot.
LEMMA CommandsTyped == C!Init /\ [][C!Next]_(C!cmdVars) => []C!TypeOK
<1>0. Constants
  BY DeviceAssumption DEF Constants
<1>1. C!Init => CommandStands
  <2> SUFFICES ASSUME C!Init PROVE CommandStands
    OBVIOUS
  <2>1. Clocked
    BY Bounds DEF C!Init, Clocked
  <2>2. Tasks
    BY DEF C!Init, Tasks
  <2>3. Slots
    BY MessagesStay DEF C!Init, Slots
  <2>4. Stamped
    BY <1>0 DEF C!Init, Stamped, Constants
  <2> QED
    BY <2>1, <2>2, <2>3, <2>4 DEF CommandStands
<1>2. Spaced /\ CommandStands /\ [C!Next]_(C!cmdVars) => (Spaced /\ CommandStands)'
  BY <1>0, NextSpaced, NextStands
<1>3. Spaced /\ CommandStands => C!TypeOK
  <2> SUFFICES ASSUME Spaced, CommandStands PROVE C!TypeOK
    OBVIOUS
  <2>1. t \in 0 .. Horizon /\ bootAt \in 0 .. t
    BY Bounds DEF CommandStands, Clocked
  <2>2. latch.topic \in C!Commands /\ copy.topic \in C!Commands
    BY MessagesStay DEF CommandStands, Slots
  <2> QED
    BY <2>1, <2>2 DEF Spaced, CommandTyped, CommandStands, Tasks, Stamped, C!TypeOK
<1> QED
  BY <1>0, InitSpaced, <1>1, <1>2, <1>3, PTL

-----------------------------------------------------------------------------
(* MenuCard: the frame on the panel. *)

CardTyped ==
  /\ owner \in {"display", "card", "resuming"} /\ repaintOwed \in BOOLEAN
  /\ selecting \in BOOLEAN /\ idlePainted \in BOOLEAN
  /\ screen \in {"home", "other", "idle"}

\* The screen remembered as drawn is on the panel, unless a handover spoilt it; then a
\* repaint is owed, or the bus is not given back.
MemoryIsTrue ==
  lastScreen # K!Nothing /\ ~repaintOwed /\ owner # "card" => shown = lastScreen

Current == CardTyped /\ MemoryIsTrue

\* The device starts with nothing remembered.
LEMMA InitCurrent == K!Init => Current
  BY DEF K!Init, Current, CardTyped, MemoryIsTrue

\* A card operation owes a repaint, and a restart forgets.
LEMMA NextCurrent ==
    ASSUME Current, [K!Next]_(K!cardVars)
    PROVE  Current'
<1> USE DEF Current, CardTyped, MemoryIsTrue, K!Nothing, K!arbiter, K!sdcard, K!loader, K!ui,
            K!memory, K!renderer
<1>1. CASE K!Guard
  <2>1. UNCHANGED <<selecting, idlePainted, screen, lastScreen>>
    BY <1>1 DEF K!Guard
  <2>2. (owner' = "resuming" /\ repaintOwed' = TRUE) \/ UNCHANGED <<owner, repaintOwed, shown>>
    BY <1>1, Zenon DEF K!Guard, K!CardOperation, K!releaseCard
  <2> QED
    BY <2>1, <2>2
<1>2. CASE K!NothingToLoad
  BY <1>2 DEF K!NothingToLoad, K!CardOperation, K!releaseCard
<1>3. CASE K!Try
  BY <1>3 DEF K!Try, K!CardOperation, K!releaseCard
<1>4. CASE K!Validate
  BY <1>4 DEF K!Validate, K!CardOperation, K!releaseCard
<1>5. CASE K!Render
  <2>1. CASE K!mayBeginFrame
    BY <1>5, <2>1 DEF K!Render, K!Frame, K!mayBeginFrame
  <2>2. CASE ~K!mayBeginFrame
    BY <1>5, <2>2 DEF K!Render
  <2> QED
    BY <2>1, <2>2
<1>6. CASE K!Confirm
  BY <1>6 DEF K!Confirm
<1>7. CASE K!Confirmed
  BY <1>7 DEF K!Confirmed
<1>8. CASE K!OpenSelector
  BY <1>8 DEF K!OpenSelector, K!CardOperation, K!releaseCard, K!Woken
<1>9. CASE K!CommitSelection
  BY <1>9 DEF K!CommitSelection, K!Storable, K!Restart, K!releaseCard, K!Woken
<1>10. CASE K!NoMenu
  BY <1>10 DEF K!NoMenu
<1>11. CASE K!Led
  BY <1>11 DEF K!Led
<1>12. CASE K!Crash \/ K!PowerCut
  BY <1>12 DEF K!Crash, K!PowerCut, K!Restart
<1>13. CASE K!EditCard \/ K!AskSelector
  BY <1>13 DEF K!EditCard, K!AskSelector
<1>14. CASE K!Choose
  BY <1>14 DEF K!Choose, K!Woken
<1>15. CASE K!ScreenChanges
  BY <1>15 DEF K!ScreenChanges
<1>16. CASE UNCHANGED K!cardVars
  BY <1>16 DEF K!cardVars
<1> QED
  BY <1>1, <1>2, <1>3, <1>4, <1>5, <1>6, <1>7, <1>8, <1>9, <1>10, <1>11, <1>12, <1>13, <1>14,
     <1>15, <1>16 DEF K!Next, K!Device

\* A frame the bus allows leaves the screen the UI stands on, if the panel is awake.
LEMMA FrameIsCurrent ==
    ASSUME Current, [K!Next]_(K!cardVars), pc = "render", pc' = "confirm", K!mayBeginFrame,
           K!Wanted # "blank"
    PROVE  shown' = K!Wanted
<1>1. K!Render
  BY DEF K!Next, K!Device, K!cardVars, K!Guard, K!NothingToLoad, K!Try, K!Validate, K!Confirm,
         K!Confirmable, K!Confirmed, K!OpenSelector, K!CommitSelection, K!NoMenu, K!Led,
         K!Crash, K!PowerCut, K!Restart, K!EditCard, K!AskSelector, K!Choose, K!ScreenChanges,
         K!loader
<1>2. K!Frame
  BY <1>1 DEF K!Render
<1> QED
  BY <1>2 DEF K!Frame, K!Wanted, Current, CardTyped, MemoryIsTrue, K!mayBeginFrame, K!Nothing

\* UiRenderer::update leaves the panel on the current screen whenever it may draw, for any
\* number of edits of the card and of writes that fail.
LEMMA CardKeeps == K!Init /\ [][K!Next]_(K!cardVars) => K!PanelIsCurrent
<1>1. Current /\ [K!Next]_(K!cardVars) => Current'
  BY NextCurrent
<1>2. Current /\ [K!Next]_(K!cardVars)
        => [pc = "render" /\ pc' = "confirm" /\ K!mayBeginFrame /\ K!Wanted # "blank"
              => shown' = K!Wanted]_(K!cardVars)
  BY FrameIsCurrent
<1> QED
  BY InitCurrent, <1>1, <1>2, PTL DEF K!PanelIsCurrent

\* What Current leaves open; a boot that counts an attempt has counted fewer than it may.
CardStands ==
  /\ pc \in {"boot", "try", "render", "confirm", "menu", "led"}
  /\ packTries \in {0, 1, 2} /\ pack \in K!PackKinds /\ led \in BOOLEAN
  /\ shown \in {"old", "blank", "selector", "home", "other"}

\* No step of the pass, of the operator or of the power leaves them.
LEMMA NextCardStands ==
    ASSUME Current, CardStands, [K!Next]_(K!cardVars)
    PROVE  CardStands'
<1> USE DEF CardStands
<1>1. pc' \in {"boot", "try", "render", "confirm", "menu", "led"} /\ led' \in BOOLEAN
  BY DEF K!Next, K!Device, K!cardVars, K!loader, K!Guard, K!NothingToLoad, K!Try, K!Validate,
         K!Render, K!Confirm, K!Confirmed, K!OpenSelector, K!CommitSelection, K!NoMenu, K!Led,
         K!Crash, K!PowerCut, K!Restart, K!EditCard, K!AskSelector, K!Choose, K!ScreenChanges
<1>2. packTries' \in {0, 1, 2}
  BY DEF K!Next, K!Device, K!cardVars, K!loader, K!Guard, K!NothingToLoad, K!Try, K!Validate,
         K!Render, K!Confirm, K!Confirmed, K!OpenSelector, K!CommitSelection, K!NoMenu, K!Led,
         K!Crash, K!PowerCut, K!Restart, K!EditCard, K!AskSelector, K!Choose, K!ScreenChanges,
         K!kMaxAttempts
<1>3. pack' \in K!PackKinds
  BY DEF K!Next, K!Device, K!cardVars, K!sdcard, K!Guard, K!NothingToLoad, K!Try, K!Validate,
         K!Render, K!Confirm, K!Confirmed, K!OpenSelector, K!CommitSelection, K!NoMenu, K!Led,
         K!Crash, K!PowerCut, K!EditCard, K!AskSelector, K!Choose, K!ScreenChanges
<1>4. shown' \in {"old", "blank", "selector", "home", "other"}
  <2>1. CASE K!Render
    BY <2>1 DEF K!Render, K!Frame, K!renderer, Current, CardTyped
  <2> QED
    BY <2>1 DEF K!Next, K!Device, K!cardVars, K!renderer, K!CardOperation, K!Guard, K!NothingToLoad,
         K!Try, K!Validate, K!Confirm, K!Confirmed, K!OpenSelector, K!CommitSelection, K!NoMenu,
         K!Led, K!Crash, K!PowerCut, K!Restart, K!EditCard, K!AskSelector, K!Choose,
         K!ScreenChanges
<1> QED
  BY <1>1, <1>2, <1>3, <1>4

\* The boot counts no more attempts than the guard allows, whatever the card holds and whichever
\* writes fail.
LEMMA CardIsTyped == K!Init /\ [][K!Next]_(K!cardVars) => []K!TypeOK
<1>1. K!Init => CardStands
  BY DEF K!Init, CardStands, K!PackKinds
<1>2. Current /\ CardStands /\ [K!Next]_(K!cardVars) => (Current /\ CardStands)'
  BY NextCurrent, NextCardStands
<1>3. Current /\ CardStands => K!TypeOK
  BY DEF Current, CardTyped, CardStands, K!TypeOK, K!kMaxAttempts
<1> QED
  BY InitCurrent, <1>1, <1>2, <1>3, PTL

-----------------------------------------------------------------------------
(* Navigation: the walks along a level.  A walk is a recursive function, of which *)
(* StepByStep gives the values, turn by turn. *)

Pages == DOMAIN ScreenOf

\* What a set of pages has whose members lead to one another only.
Closed(pages) ==
  /\ pages \subseteq Pages
  /\ \A id \in pages : N!rawNextWithTail(id) \in pages \cup {N!None}

\* One turns of the walk to the next visible sibling.
Step(from, at) ==
  IF at \in {N!None, from} \/ N!screenVisible(at) THEN at ELSE N!rawNextWithTail(at)

Walks(w, from) ==
  /\ w[0] = N!rawNextWithTail(from)
  /\ \A h \in 1 .. N!kMaxRing : w[h] = Step(from, w[h - 1])

\* The walk exists, stays among the pages it started in, and its end is the answer.
LEMMA WalkEnds ==
    ASSUME NEW pages, Closed(pages), NEW from \in pages
    PROVE  \E w \in [0 .. N!kMaxRing -> pages \cup {N!None}] :
              /\ Walks(w, from)
              /\ N!nextVisibleSibling(from) =
                   IF w[N!kMaxRing] = from /\ ~N!screenVisible(from) THEN N!None ELSE w[N!kMaxRing]
<1> DEFINE n == N!kMaxRing
           S == pages \cup {N!None}
           base == N!rawNextWithTail(from)
           Turn(at) == IF at \in {N!None, from} \/ N!screenVisible(at) THEN at
                       ELSE N!rawNextWithTail(at)
           Whole(g) == [h \in 0 .. n |-> IF h = 0 THEN base ELSE Turn(g[h - 1])]
           a == CHOOSE g : g = Whole(g)
           turns == [h \in 1 .. n |-> [at \in S |-> Turn(at)]]
<1>1. n \in Nat /\ base \in S
  BY DEF N!kMaxRing, Closed
<1>2. \A at \in S : Turn(at) \in S
  BY DEF Closed
<1>3. turns \in [1 .. n -> [S -> S]]
  <2> HIDE DEF Turn, S
  <2> QED  BY <1>2
<1>4. PICK f \in [0 .. n -> S] : Runs(f, n, base, turns)
  <2> HIDE DEF n, base, turns, S
  <2> QED  BY <1>1, <1>3, StepByStep
<1>5. \A h \in 1 .. n : f[h] = Turn(f[h - 1])
  <2> SUFFICES ASSUME NEW h \in 1 .. n PROVE f[h] = Turn(f[h - 1])
    OBVIOUS
  <2>1. f[h - 1] \in S
    BY <1>1
  <2> HIDE DEF Turn, S
  <2> QED  BY <1>4, <2>1 DEF Runs
<1>6. f = Whole(f)
  <2> HIDE DEF base, Turn, n, S
  <2> QED  BY <1>1, <1>4, <1>5 DEF Runs
<1>7. a = Whole(a)
  <2> HIDE DEF Whole
  <2> QED  BY <1>6
<1>8. N!nextVisibleSibling(from) = IF a[n] = from /\ ~N!screenVisible(from) THEN N!None ELSE a[n]
  BY DEF N!nextVisibleSibling
<1> HIDE DEF a
<1>9. a[0] = base /\ \A h \in 1 .. n : a[h] = Turn(a[h - 1])
  <2> HIDE DEF base, Turn
  <2> QED  BY <1>1, <1>7
<1>10. \A h \in 0 .. n : a[h] \in S
  <2> DEFINE Wrong == {h \in 0 .. n : a[h] \notin S}
  <2> SUFFICES ASSUME Wrong # {} PROVE FALSE
    OBVIOUS
  <2>1. PICK h \in Wrong : \A j \in Wrong : h <= j
    <3>1. Wrong \subseteq Nat
      BY <1>1
    <3> HIDE DEF Wrong
    <3> QED  BY <3>1, LeastNumber
  <2>2. h \in 0 .. n /\ a[h] \notin S /\ h # 0
    BY <1>1, <1>9
  <2>3. h \in 1 .. n /\ h - 1 \in 0 .. n /\ a[h - 1] \in S
    <3>1. h \in 1 .. n /\ h - 1 \in 0 .. n /\ ~(h <= h - 1)
      BY <1>1, <2>2
    <3> QED  BY <2>1, <3>1
  <2> HIDE DEF Turn, S, Wrong
  <2> QED  BY <1>2, <1>9, <2>2, <2>3
<1>11. a \in [0 .. n -> S]
  <2>1. a = [h \in 0 .. n |-> a[h]]
    <3> HIDE DEF base, Turn
    <3> QED  BY <1>7
  <2> HIDE DEF S
  <2> QED  BY <1>10, <2>1
<1>12. Walks(a, from)
  BY <1>9 DEF Walks, Step
<1> QED  BY <1>8, <1>11, <1>12

\* The next sibling is one of the pages the walk started in, or none.
LEMMA NextStays ==
    ASSUME NEW pages, Closed(pages), NEW from \in pages
    PROVE  N!nextVisibleSibling(from) \in pages \cup {N!None}
<1>1. PICK w \in [0 .. N!kMaxRing -> pages \cup {N!None}] :
        N!nextVisibleSibling(from) =
          IF w[N!kMaxRing] = from /\ ~N!screenVisible(from) THEN N!None ELSE w[N!kMaxRing]
  BY WalkEnds
<1> QED  BY <1>1 DEF N!kMaxRing

\* One step forward of the members met so far.
Meet(from, h, met) ==
  IF Len(met) < h \/ N!nextVisibleSibling(met[Len(met)]) \in {N!None, from} THEN met
  ELSE Append(met, N!nextVisibleSibling(met[Len(met)]))

Meets(w, from) ==
  /\ w[0] = <<from>>
  /\ \A h \in 1 .. N!kMaxRing : w[h] = Meet(from, h, w[h - 1])

Lines(pages) == Seq(pages) \ {<<>>}

\* The walk once round exists, and its end is what ringPosition and UP go by.
LEMMA ForwardEnds ==
    ASSUME NEW pages, Closed(pages), NEW from \in pages
    PROVE  \E w \in [0 .. N!kMaxRing -> Lines(pages)] :
              Meets(w, from) /\ N!Forward(from) = w[N!kMaxRing]
<1> DEFINE n == N!kMaxRing
           S == Lines(pages)
           base == <<from>>
           Turn(met, h) ==
             IF Len(met) < h \/ N!nextVisibleSibling(met[Len(met)]) \in {N!None, from} THEN met
             ELSE Append(met, N!nextVisibleSibling(met[Len(met)]))
           Whole(g) == [h \in 0 .. n |-> IF h = 0 THEN base ELSE Turn(g[h - 1], h)]
           a == CHOOSE g : g = Whole(g)
           turns == [h \in 1 .. n |-> [met \in S |-> Turn(met, h)]]
<1>1. n \in Nat /\ base \in S
  BY DEF N!kMaxRing, Lines
<1>2. \A met \in S, h \in 1 .. n : Turn(met, h) \in S
  <2> SUFFICES ASSUME NEW met \in S, NEW h \in 1 .. n PROVE Turn(met, h) \in S
    OBVIOUS
  <2>1. met \in Seq(pages) /\ met # <<>> /\ Len(met) \in 1 .. Len(met)
    BY DEF Lines
  <2>2. met[Len(met)] \in pages
    BY <2>1
  <2> DEFINE next == N!nextVisibleSibling(met[Len(met)])
  <2>3. next \in pages \cup {N!None}
    BY <2>2, NextStays
  <2> HIDE DEF next
  <2>4. next \in pages => Append(met, next) \in Seq(pages) /\ Append(met, next) # <<>>
    BY <2>1
  <2>5. CASE Len(met) < h \/ next \in {N!None, from}
    BY <2>5 DEF next
  <2>6. CASE ~(Len(met) < h \/ next \in {N!None, from})
    <3>1. Turn(met, h) = Append(met, next)
      BY <2>6 DEF next
    <3> HIDE DEF Turn
    <3> QED  BY <2>3, <2>4, <2>6, <3>1 DEF Lines
  <2> QED  BY <2>5, <2>6
<1>3. turns \in [1 .. n -> [S -> S]]
  <2> HIDE DEF Turn, S
  <2> QED  BY <1>2
<1>4. PICK f \in [0 .. n -> S] : Runs(f, n, base, turns)
  <2> HIDE DEF n, base, turns, S
  <2> QED  BY <1>1, <1>3, StepByStep
<1>5. \A h \in 1 .. n : f[h] = Turn(f[h - 1], h)
  <2> SUFFICES ASSUME NEW h \in 1 .. n PROVE f[h] = Turn(f[h - 1], h)
    OBVIOUS
  <2>1. f[h - 1] \in S
    BY <1>1
  <2> HIDE DEF Turn, S
  <2> QED  BY <1>4, <2>1 DEF Runs
<1>6. f = Whole(f)
  <2> HIDE DEF base, Turn, n, S
  <2> QED  BY <1>1, <1>4, <1>5 DEF Runs
<1>7. a = Whole(a)
  <2> HIDE DEF Whole
  <2> QED  BY <1>6
<1>8. N!Forward(from) = a[n]
  BY DEF N!Forward
<1> HIDE DEF a
<1>9. a[0] = base /\ \A h \in 1 .. n : a[h] = Turn(a[h - 1], h)
  <2> HIDE DEF base, Turn
  <2> QED  BY <1>1, <1>7
<1>10. \A h \in 0 .. n : a[h] \in S
  <2> DEFINE Wrong == {h \in 0 .. n : a[h] \notin S}
  <2> SUFFICES ASSUME Wrong # {} PROVE FALSE
    OBVIOUS
  <2>1. PICK h \in Wrong : \A j \in Wrong : h <= j
    <3>1. Wrong \subseteq Nat
      BY <1>1
    <3> HIDE DEF Wrong
    <3> QED  BY <3>1, LeastNumber
  <2>2. h \in 0 .. n /\ a[h] \notin S /\ h # 0
    BY <1>1, <1>9
  <2>3. h \in 1 .. n /\ h - 1 \in 0 .. n /\ a[h - 1] \in S
    <3>1. h \in 1 .. n /\ h - 1 \in 0 .. n /\ ~(h <= h - 1)
      BY <1>1, <2>2
    <3> QED  BY <2>1, <3>1
  <2> HIDE DEF Turn, S, Wrong
  <2> QED  BY <1>2, <1>9, <2>2, <2>3
<1>11. a \in [0 .. n -> S]
  <2>1. a = [h \in 0 .. n |-> a[h]]
    <3> HIDE DEF base, Turn
    <3> QED  BY <1>7
  <2> HIDE DEF S
  <2> QED  BY <1>10, <2>1
<1>12. Meets(a, from)
  <2>1. \A h \in 1 .. n : a[h] = Meet(from, h, a[h - 1])
    <3>1. \A h, met : Turn(met, h) = Meet(from, h, met)
      BY DEF Meet
    <3> HIDE DEF Turn
    <3> QED  BY <1>9, <3>1
  <2> QED  BY <1>9, <2>1 DEF Meets
<1> QED  BY <1>8, <1>11, <1>12

\* UP, too, stays among the pages that lead to one another.
LEMMA PreviousStays ==
    ASSUME NEW pages, Closed(pages), NEW from \in pages
    PROVE  N!previousVisibleSibling(from) \in pages \cup {N!None}
<1>1. N!Forward(from) \in Lines(pages)
  BY ForwardEnds DEF N!kMaxRing
<1>2. N!Forward(from) \in Seq(pages) /\ Len(N!Forward(from)) \in 1 .. Len(N!Forward(from))
  BY <1>1 DEF Lines
<1>3. N!LastOf(N!Forward(from)) \in pages
  BY <1>2 DEF N!LastOf
<1> QED  BY <1>3 DEF N!previousVisibleSibling

-----------------------------------------------------------------------------
(* Navigation: where the operator stands. *)

\* The screens passed on the way down, the one shown last.
Trail(k) == IF k > Len(stack) THEN current ELSE stack[k]
Deepest  == Len(stack) + 1

Places(k) ==
  Trail(k) \in Pages /\ Level[Trail(k)] = k - 1

\* A setting of a sensor is reached through that sensor's page.
SensorKnown(k) ==
  Trail(k) \in SensorScreens =>
    /\ sensorIndex \in N!Sensors
    /\ \E j \in 1 .. k - 1 : Trail(j) = N!SensorIds[sensorIndex]
    /\ \A l \in k .. Deepest : Trail(l) \in SensorScreens

EditorOf(id) == N!EditedBy(ScreenOf[id])

EditorFits ==
  /\ editing = EditorOf(current)
  /\ \A k \in 1 .. Len(stack) : EditorOf(stack[k]) = N!None
  /\ editing # N!None => stack # <<>> /\ N!SettingOf(ScreenOf[stack[Len(stack)]]) = editing

Standing ==
  /\ stack \in Seq(Pages) /\ current \in Pages
  /\ sensorIndex \in {0} \cup N!Sensors
  /\ form \in [N!Sensors -> N!AnyForm]
  /\ prompt \in DOMAIN N!Asked
  /\ \A k \in 1 .. Deepest : Places(k) /\ SensorKnown(k)
  /\ EditorFits

\* What GeneratedMenu says, in the words of the proofs.
LEMMA MenuLevels ==
  /\ Level \in [Pages -> 0 .. N!kMaxDepth] /\ N!None \notin Pages
  /\ N!root \in Pages /\ N!RootTail.id \in Pages /\ N!root # N!RootTail.id
  /\ Level[N!root] = 0 /\ Level[N!RootTail.id] = 0
  /\ \A id \in Pages :
       /\ N!rawNextSibling(id) # N!None =>
            N!rawNextSibling(id) \in Pages /\ Level[N!rawNextSibling(id)] = Level[id]
       /\ \A action \in N!Beside : \A to \in N!Leads(id, action) :
            to # N!None => to \in Pages /\ Level[to] = Level[id]
       /\ \A action \in N!Resets : N!None \notin N!Leads(id, action)
       /\ \A to \in N!Leads(id, "nav.descend") : to \in Pages /\ Level[to] = Level[id] + 1
<1>1. N!LevelsNest(Level)
  BY GeneratedMenu
<1> HIDE DEF Level
<1> QED  BY <1>1 DEF N!LevelsNest, Pages

\* The same of the editors.
LEMMA MenuEditors ==
  /\ EditorOf(N!root) = N!None /\ EditorOf(N!RootTail.id) = N!None
  /\ \A id \in Pages :
       /\ EditorOf(id) = N!None \/ EditorOf(id) \in N!Settings \ N!TextSettings
       /\ N!rawNextSibling(id) \in Pages => EditorOf(N!rawNextSibling(id)) = N!None
       /\ \A action \in N!Beside : \A to \in N!Leads(id, action) :
            to \in Pages => EditorOf(to) = N!None
       /\ \A to \in N!Leads(id, "nav.descend") :
            to \in Pages /\ EditorOf(to) # N!None => N!SettingOf(ScreenOf[id]) = EditorOf(to)
       /\ EditorOf(id) # N!None =>
            \A action \in N!Beside \cup {"nav.descend"} : N!Leads(id, action) = {}
<1>1. N!EditorsApart
  BY GeneratedMenu
<1>2. N!root \in Pages /\ N!RootTail.id \in Pages
  BY MenuLevels
<1> QED  BY <1>1, <1>2 DEF N!EditorsApart, Pages, EditorOf

SensorPages == {N!SensorIds[n] : n \in N!Sensors}

\* And of the menu of a sensor.
LEMMA MenuSensors ==
  /\ N!root \notin SensorScreens /\ N!RootTail.id \notin SensorScreens
  /\ \A id \in SensorScreens : id \in Pages /\ id \notin SensorPages
  /\ \A id \in Pages :
       /\ N!rawNextSibling(id) # N!None =>
            (N!rawNextSibling(id) \in SensorScreens <=> id \in SensorScreens)
       /\ \A action \in N!Beside : \A to \in N!Leads(id, action) :
            to # N!None => (to \in SensorScreens <=> id \in SensorScreens)
       /\ \A to \in N!Leads(id, "nav.descend") :
            to \in SensorScreens <=> id \in SensorScreens \cup SensorPages
       /\ N!Answerable(ScreenOf[id], id \in SensorScreens)
<1>1. N!SensorMenu(SensorScreens)
  BY GeneratedMenu
<1> HIDE DEF SensorScreens
<1>2. SensorScreens \subseteq Pages \ ({N!root, N!RootTail.id} \cup SensorPages)
  BY <1>1 DEF N!SensorMenu, Pages, SensorPages
<1>3. \A id \in Pages : N!Answerable(ScreenOf[id], id \in SensorScreens)
  BY <1>1 DEF N!SensorMenu, Pages
<1> QED  BY <1>1, <1>2, <1>3 DEF N!SensorMenu, Pages, SensorPages

\* The pages of the level shown, in the same menu.
Company ==
  {id \in Pages : /\ Level[id] = Level[current] /\ EditorOf(id) = N!None
                  /\ id \in SensorScreens <=> current \in SensorScreens}

\* At the root level the root and the tail are among them.
LEMMA RootIsCompany ==
    Standing /\ N!depth = 0 => N!root \in Company /\ N!RootTail.id \in Company
<1> SUFFICES ASSUME Standing, N!depth = 0 PROVE N!root \in Company /\ N!RootTail.id \in Company
  OBVIOUS
<1>1. Len(stack) = 0 /\ Deepest = 1 /\ Trail(1) = current
  BY DEF N!depth, Deepest, Trail
<1>2. Level[current] = 0 /\ current \notin SensorScreens
  BY <1>1 DEF Standing, Places, SensorKnown
<1> QED  BY <1>2, MenuLevels, MenuEditors, MenuSensors DEF Company

\* Walks along the level stay in it.
LEMMA CompanyIsClosed == Standing => Closed(Company)
<1> SUFFICES ASSUME Standing, NEW id \in Company
             PROVE  N!rawNextWithTail(id) \in Company \cup {N!None}
  BY DEF Closed, Company
<1> DEFINE raw == N!rawNextSibling(id)
<1>1. id \in Pages /\ Level[id] = Level[current] /\ (id \in SensorScreens <=> current \in SensorScreens)
  BY DEF Company
<1>2. raw # N!None => raw \in Company
  BY <1>1, MenuLevels, MenuEditors, MenuSensors DEF Company
<1>3. N!depth = 0 => N!root \in Company /\ N!RootTail.id \in Company
  BY RootIsCompany
<1>4. \/ N!rawNextWithTail(id) = raw
      \/ N!depth = 0 /\ N!rawNextWithTail(id) \in {raw, N!root, N!RootTail.id}
  BY DEF N!rawNextWithTail, N!ByTheTail, N!Splice
<1> QED  BY <1>2, <1>3, <1>4

\* UP and DOWN stay in the level, and no editor has them.
LEMMA SiblingsStay ==
    ASSUME Standing, NEW action \in {"page.next", "page.previous"},
           NEW declared \in N!Leads(current, action)
    PROVE  /\ EditorOf(current) = N!None
           /\ N!siblingAfter(current, declared) \in Company \cup {N!None}
           /\ N!siblingBefore(current, declared) \in Company \cup {N!None}
<1>1. current \in Pages /\ action \in N!Beside
  BY DEF Standing, N!Beside
<1>2. EditorOf(current) = N!None /\ current \in Company
  BY <1>1, MenuEditors DEF Company
<1>3. declared # N!None => declared \in Company
  BY <1>1, MenuLevels, MenuEditors, MenuSensors DEF Company
<1>4. Closed(Company)
  BY CompanyIsClosed
<1>5. N!nextVisibleSibling(current) \in Company \cup {N!None}
  BY <1>2, <1>4, NextStays
<1>6. N!previousVisibleSibling(current) \in Company \cup {N!None}
  BY <1>2, <1>4, PreviousStays
<1>7. declared # N!None => N!nextVisibleSibling(declared) \in Company \cup {N!None}
  BY <1>3, <1>4, NextStays
<1>8. N!depth = 0 => N!root \in Company /\ N!RootTail.id \in Company
  BY RootIsCompany
<1> DEFINE chosen == IF declared # N!None /\ N!screenVisible(declared) THEN declared
                     ELSE IF (IF declared = N!None THEN N!None ELSE N!nextVisibleSibling(declared)) = N!None
                            THEN N!nextVisibleSibling(current)
                            ELSE (IF declared = N!None THEN N!None ELSE N!nextVisibleSibling(declared))
<1>9. chosen \in Company \cup {N!None}
  BY <1>3, <1>5, <1>7
<1>10. N!siblingAfter(current, declared) = N!ByTheTail(current, chosen)
  BY DEF N!siblingAfter
<1>11. N!siblingAfter(current, declared) \in Company \cup {N!None}
  <2> HIDE DEF chosen
  <2> QED  BY <1>8, <1>9, <1>10 DEF N!ByTheTail, N!Splice
<1>12. N!siblingBefore(current, declared) \in Company \cup {N!None}
  BY <1>3, <1>6 DEF N!siblingBefore
<1> QED  BY <1>2, <1>11, <1>12

\* What holds wherever the operator stands is more than its types.
LEMMA StandingTyped == Standing => N!TypeOK
<1> SUFFICES ASSUME Standing PROVE N!TypeOK
  OBVIOUS
<1>1. stack \in Seq(Pages) /\ Len(stack) \in Nat /\ Trail(Deepest) = current
  BY DEF Standing, Trail, Deepest
<1>2. Level[current] = Len(stack) /\ current \in Pages
  BY <1>1 DEF Standing, Places, Deepest
<1>3. Len(stack) <= N!kMaxDepth
  BY <1>2, MenuLevels DEF N!kMaxDepth
<1>4. editing \in N!Settings \cup {N!None}
  BY <1>2, MenuEditors DEF Standing, EditorFits
<1> QED  BY <1>2, <1>3, <1>4 DEF Standing, N!TypeOK, N!depth, Pages

\* A restart stands on the root.
LEMMA InitStanding == N!Init => Standing
<1> SUFFICES ASSUME N!Init PROVE Standing
  OBVIOUS
<1>1. /\ current = N!root /\ stack = <<>> /\ sensorIndex = 0 /\ editing = N!None /\ prompt = "none"
      /\ form \in [N!Sensors -> N!AnyForm]
  BY DEF N!Init, N!AnyForm
<1>2. stack \in Seq(Pages) /\ Len(stack) = 0 /\ Deepest = 1 /\ Trail(1) = current
  BY <1>1 DEF Deepest, Trail
<1>3. \A k \in 1 .. Deepest : Places(k) /\ SensorKnown(k)
  BY <1>1, <1>2, MenuLevels, MenuSensors DEF Places, SensorKnown
<1>4. EditorFits
  BY <1>1, <1>2, MenuEditors DEF EditorFits
<1>5. prompt \in DOMAIN N!Asked
  BY <1>1 DEF N!Asked
<1> QED  BY <1>1, <1>2, <1>3, <1>4, <1>5, MenuLevels DEF Standing

\* The way to the root, out of whatever was open.
LEMMA EscapeStanding ==
    ASSUME N!escape, N!endEdit, form' \in [N!Sensors -> N!AnyForm]
    PROVE  Standing'
<1>1. current' = N!root /\ stack' = <<>> /\ sensorIndex' = 0 /\ editing' = N!None /\ prompt' = "none"
  BY DEF N!escape, N!endEdit
<1>2. stack' \in Seq(Pages) /\ Len(stack') = 0 /\ Deepest' = 1 /\ Trail(1)' = current'
  BY <1>1 DEF Deepest, Trail
<1>3. \A k \in 1 .. Deepest' : Places(k)' /\ SensorKnown(k)'
  BY <1>1, <1>2, MenuLevels, MenuSensors DEF Places, SensorKnown
<1>4. EditorFits'
  BY <1>1, <1>2, MenuEditors DEF EditorFits, EditorOf
<1>5. prompt' \in DOMAIN N!Asked
  BY <1>1 DEF N!Asked
<1> QED  BY <1>1, <1>2, <1>3, <1>4, <1>5, MenuLevels DEF Standing

\* A step that leaves the operator where he was.
LEMMA StayStanding ==
    ASSUME Standing, UNCHANGED <<current, stack, sensorIndex, editing>>,
           form' \in [N!Sensors -> N!AnyForm], prompt' \in DOMAIN N!Asked
    PROVE  Standing'
  BY DEF Standing, Places, SensorKnown, EditorFits, Trail, Deepest

\* A step to a page of the level.
LEMMA BesideStanding ==
    ASSUME Standing, current' \in Company, EditorOf(current) = N!None,
           UNCHANGED <<stack, sensorIndex, editing>>,
           form' \in [N!Sensors -> N!AnyForm], prompt' \in DOMAIN N!Asked
    PROVE  Standing'
<1>1. current' \in Pages /\ Level[current'] = Level[current] /\ EditorOf(current') = N!None
      /\ (current' \in SensorScreens <=> current \in SensorScreens)
  BY DEF Company
<1>2. Len(stack) \in Nat /\ Deepest' = Deepest /\ Deepest = Len(stack) + 1
  BY DEF Standing, Deepest
<1>3. \A k \in 1 .. Deepest : k \in Int /\
        IF k = Deepest THEN Trail(k) = current /\ Trail(k)' = current' ELSE Trail(k)' = Trail(k)
  BY <1>2 DEF Trail
<1>4. \A k \in 1 .. Deepest : Places(k) /\ SensorKnown(k)
  BY DEF Standing
<1>5. \A k \in 1 .. Deepest : Trail(k)' \in SensorScreens <=> Trail(k) \in SensorScreens
  BY <1>1, <1>3
<1>6. ASSUME NEW k \in 1 .. Deepest PROVE Places(k)'
  BY <1>1, <1>3, <1>4 DEF Places
<1>7. ASSUME NEW k \in 1 .. Deepest, Trail(k)' \in SensorScreens
      PROVE  /\ sensorIndex' \in N!Sensors
             /\ \E j \in 1 .. k - 1 : Trail(j)' = N!SensorIds[sensorIndex']
             /\ \A l \in k .. Deepest' : Trail(l)' \in SensorScreens
  <2>1. Trail(k) \in SensorScreens /\ SensorKnown(k)
    BY <1>4, <1>5, <1>7
  <2>2. PICK j \in 1 .. k - 1 : Trail(j) = N!SensorIds[sensorIndex]
    BY <2>1 DEF SensorKnown
  <2>3. j \in 1 .. Deepest /\ j # Deepest
    BY <1>2
  <2>4. Trail(j)' = N!SensorIds[sensorIndex']
    BY <1>3, <2>2, <2>3
  <2>5. ASSUME NEW l \in k .. Deepest' PROVE Trail(l)' \in SensorScreens
    <3>1. l \in 1 .. Deepest /\ l \in k .. Deepest
      BY <1>2
    <3> QED  BY <1>5, <2>1, <3>1 DEF SensorKnown
  <2> QED  BY <2>1, <2>4, <2>5 DEF SensorKnown
<1>8. \A k \in 1 .. Deepest' : Places(k)' /\ SensorKnown(k)'
  BY <1>2, <1>6, <1>7 DEF SensorKnown
<1>9. EditorFits'
  <2>1. editing' = N!None
    BY DEF Standing, EditorFits
  <2> QED  BY <1>1, <2>1 DEF Standing, EditorFits, EditorOf
<1> QED  BY <1>1, <1>8, <1>9 DEF Standing

\* A way back.
LEMMA BackStanding ==
    ASSUME Standing, N!ascend, N!endEdit, form' \in [N!Sensors -> N!AnyForm]
    PROVE  Standing'
<1>1. editing' = N!None /\ prompt' \in DOMAIN N!Asked
  BY DEF N!endEdit, N!Asked
<1>2. CASE N!depth = 0
  <2>1. UNCHANGED <<current, stack, sensorIndex>>
    BY <1>2 DEF N!ascend
  <2>2. stack = <<>> /\ editing = N!None
    BY <1>2 DEF Standing, EditorFits, N!depth
  <2> QED  BY <1>1, <2>1, <2>2, StayStanding
<1>3. CASE N!depth # 0
  <2>1. Len(stack) \in Nat \ {0} /\ N!depth = Len(stack) /\ stack \in Seq(Pages)
    BY <1>3 DEF Standing, N!depth
  <2>2. /\ current' = stack[Len(stack)] /\ stack' = SubSeq(stack, 1, Len(stack) - 1)
        /\ sensorIndex' = IF Len(stack) = 1 THEN 0 ELSE sensorIndex
    BY <1>3, <2>1 DEF N!ascend
  <2>3. stack' \in Seq(Pages) /\ Len(stack') = Len(stack) - 1 /\ Deepest' = Len(stack)
        /\ Deepest = Len(stack) + 1
    BY <2>1, <2>2 DEF Deepest
  <2>4. \A k \in 1 .. Len(stack) - 1 : stack'[k] = stack[k]
    BY <2>1, <2>2
  <2>5. \A k \in 1 .. Len(stack) : k \in Int /\ Trail(k) = stack[k] /\ Trail(k)' = Trail(k)
    <3>1. \A k \in 1 .. Len(stack) : k \in Int /\ Trail(k) = stack[k] /\
            (k = Len(stack) => Trail(k)' = current') /\ (k # Len(stack) => Trail(k)' = stack'[k])
      BY <2>1, <2>3 DEF Trail
    <3> QED  BY <2>1, <2>2, <2>4, <3>1
  <2>6. \A k \in 1 .. Len(stack) : Places(k)
    BY <2>3 DEF Standing
  <2>7. \A k \in 1 .. Deepest' : Places(k)'
    BY <2>3, <2>5, <2>6 DEF Places
  <2>8. \A k \in 1 .. Deepest' : SensorKnown(k)'
    <3> SUFFICES ASSUME NEW k \in 1 .. Len(stack), Trail(k) \in SensorScreens
                 PROVE  /\ sensorIndex' \in N!Sensors
                        /\ \E j \in 1 .. k - 1 : Trail(j)' = N!SensorIds[sensorIndex']
                        /\ \A l \in k .. Len(stack) : Trail(l)' \in SensorScreens
      BY <2>3, <2>5 DEF SensorKnown
    <3>1. SensorKnown(k) /\ k \in 1 .. Deepest
      BY <2>3 DEF Standing
    <3>2. PICK j \in 1 .. k - 1 : Trail(j) = N!SensorIds[sensorIndex]
      BY <3>1 DEF SensorKnown
    <3>3. j \in 1 .. Len(stack) /\ Len(stack) # 1
      BY <2>1
    <3>4. sensorIndex' = sensorIndex /\ Trail(j)' = Trail(j)
      BY <2>2, <2>5, <3>3
    <3>5. ASSUME NEW l \in k .. Len(stack) PROVE Trail(l)' \in SensorScreens
      <4>1. l \in 1 .. Len(stack) /\ l \in k .. Deepest
        BY <2>3
      <4> QED  BY <2>5, <3>1, <4>1 DEF SensorKnown
    <3> QED  BY <3>1, <3>2, <3>4, <3>5 DEF SensorKnown
  <2>9. current' \in Pages /\ EditorOf(current') = N!None /\
        \A k \in 1 .. Len(stack') : EditorOf(stack'[k]) = N!None
    <3>1. Len(stack) \in 1 .. Len(stack) /\ \A k \in 1 .. Len(stack') : k \in 1 .. Len(stack)
      BY <2>1, <2>3
    <3> QED  BY <2>1, <2>2, <2>3, <2>4, <3>1 DEF Standing, EditorFits
  <2>10. EditorFits'
    BY <1>1, <2>9 DEF EditorFits, EditorOf
  <2>11. sensorIndex' \in {0} \cup N!Sensors
    BY <2>2 DEF Standing
  <2> QED  BY <1>1, <2>3, <2>7, <2>8, <2>9, <2>10, <2>11 DEF Standing
<1> QED  BY <1>2, <1>3

\* A step down, to a page or to an editor.
LEMMA DownStanding ==
    ASSUME Standing, N!NavDescend
    PROVE  Standing'
<1>1. PICK to \in N!Leads(current, "nav.descend") :
        /\ N!descend(to)
        /\ editing' = IF EditorOf(to) \in N!TextSettings THEN N!None ELSE EditorOf(to)
  BY DEF N!NavDescend, N!Flows, EditorOf
<1>2. prompt' \in DOMAIN N!Asked /\ form' \in [N!Sensors -> N!AnyForm]
  BY DEF N!NavDescend, N!Asked, Standing
<1>3. /\ stack' = Append(stack, current) /\ current' = to
      /\ sensorIndex' = IF N!sensorIndexFromId(current) # 0 THEN N!sensorIndexFromId(current)
                        ELSE sensorIndex
  BY <1>1 DEF N!descend
<1>4. to \in Pages /\ Level[to] = Level[current] + 1 /\ current \in Pages
      /\ (to \in SensorScreens <=> current \in SensorScreens \cup SensorPages)
      /\ (EditorOf(to) # N!None => N!SettingOf(ScreenOf[current]) = EditorOf(to))
      /\ EditorOf(current) = N!None /\ editing' = EditorOf(to)
  BY <1>1, MenuLevels, MenuEditors, MenuSensors DEF Standing
<1>5. PICK m : m = Deepest
  OBVIOUS
<1>6. Len(stack) \in Nat /\ stack \in Seq(Pages) /\ stack' \in Seq(Pages)
      /\ Len(stack') = Len(stack) + 1 /\ m = Len(stack) + 1 /\ Deepest = m /\ Deepest' = m + 1
      /\ stack'[Len(stack) + 1] = current /\ \A k \in 1 .. Len(stack) : stack'[k] = stack[k]
  BY <1>3, <1>4, <1>5 DEF Standing, Deepest
<1>7. /\ Trail(m) = current /\ Trail(m + 1)' = to
      /\ \A k \in 1 .. m : k \in Int /\ Trail(k)' = Trail(k)
  <2>1. Trail(m) = current /\ Trail(m + 1)' = to
    BY <1>3, <1>6 DEF Trail
  <2>2. ASSUME NEW k \in 1 .. m PROVE k \in Int /\ Trail(k)' = Trail(k)
    <3>1. k \in Int /\ ~(k > Len(stack')) /\ Trail(k)' = stack'[k]
      BY <1>6 DEF Trail
    <3>2. CASE k = Len(stack) + 1
      BY <1>6, <2>1, <3>1, <3>2
    <3>3. CASE k # Len(stack) + 1
      <4>1. k \in 1 .. Len(stack) /\ ~(k > Len(stack))
        BY <1>6, <3>1, <3>3
      <4> QED  BY <1>6, <3>1, <4>1 DEF Trail
    <3> QED  BY <3>2, <3>3
  <2> QED  BY <2>1, <2>2
<1>8. \A k \in 1 .. m : Places(k) /\ SensorKnown(k)
  BY <1>5 DEF Standing
<1>9. \A k \in 1 .. m : k \in 1 .. Deepest'
  BY <1>6
<1>10. \A k \in 1 .. Deepest' : k \in 1 .. m \/ k = m + 1
  BY <1>6
<1>11. m \in 1 .. m /\ Level[current] = m - 1
  BY <1>6, <1>7, <1>8 DEF Places
<1>12. \A k \in 1 .. Deepest' : Places(k)'
  BY <1>4, <1>6, <1>7, <1>8, <1>10, <1>11 DEF Places
<1>13. /\ current \in SensorPages => /\ sensorIndex' \in N!Sensors
                                     /\ N!SensorIds[sensorIndex'] = current
       /\ current \notin SensorPages => sensorIndex' = sensorIndex
       /\ sensorIndex' \in {0} \cup N!Sensors
  <2>1. CASE current \in SensorPages
    <3>1. PICK k \in N!Sensors : N!SensorIds[k] = current
      BY <2>1 DEF SensorPages
    <3> DEFINE chosen == CHOOSE n \in N!Sensors : N!SensorIds[n] = current
    <3>2. chosen \in N!Sensors /\ N!SensorIds[chosen] = current
      BY <3>1
    <3>3. N!sensorIndexFromId(current) = chosen
      BY <3>1 DEF N!sensorIndexFromId
    <3> HIDE DEF chosen
    <3>4. chosen # 0
      BY <3>2 DEF N!Sensors
    <3> QED  BY <1>3, <2>1, <3>2, <3>3, <3>4
  <2>2. CASE current \notin SensorPages
    <3>1. N!sensorIndexFromId(current) = 0
      BY <2>2 DEF SensorPages, N!sensorIndexFromId
    <3> QED  BY <1>3, <2>2, <3>1 DEF Standing
  <2> QED  BY <2>1, <2>2
<1>14. ASSUME NEW k \in 1 .. m, Trail(k) \in SensorScreens
       PROVE  current \in SensorScreens /\ sensorIndex' = sensorIndex
  <2>1. m \in k .. m
    BY <1>11
  <2>2. current \in SensorScreens
    BY <1>6, <1>7, <1>8, <1>14, <2>1 DEF SensorKnown
  <2> QED  BY <1>13, <2>2, MenuSensors
<1>15. ASSUME NEW k \in 1 .. m, Trail(k) \in SensorScreens
       PROVE  SensorKnown(k)'
  <2>1. SensorKnown(k) /\ current \in SensorScreens /\ sensorIndex' = sensorIndex
    BY <1>8, <1>14, <1>15
  <2>2. PICK j \in 1 .. k - 1 : Trail(j) = N!SensorIds[sensorIndex]
    BY <1>15, <2>1 DEF SensorKnown
  <2>3. j \in 1 .. m
    BY <1>11
  <2>4. ASSUME NEW l \in k .. Deepest' PROVE Trail(l)' \in SensorScreens
    <3>1. CASE l = m + 1
      BY <1>4, <1>7, <2>1, <3>1
    <3>2. CASE l # m + 1
      <4>1. m \in Nat /\ k \in Nat /\ 1 <= k /\ l \in k .. m + 1
        BY <1>6
      <4>2. l \in 1 .. m /\ l \in k .. m
        BY <3>2, <4>1
      <4> QED  BY <1>6, <1>7, <1>15, <2>1, <4>2 DEF SensorKnown
    <3> QED  BY <3>1, <3>2
  <2> QED  BY <1>7, <1>15, <2>1, <2>2, <2>3, <2>4 DEF SensorKnown
<1>16. ASSUME to \in SensorScreens PROVE SensorKnown(m + 1)'
  <2>1. \A l \in m + 1 .. Deepest' : Trail(l)' \in SensorScreens
    <3>1. \A l \in m + 1 .. Deepest' : l = m + 1
      BY <1>6
    <3> QED  BY <1>7, <1>16, <3>1
  <2>2. sensorIndex' \in N!Sensors /\ \E j \in 1 .. m : Trail(j)' = N!SensorIds[sensorIndex']
    <3>1. CASE current \in SensorPages
      BY <1>7, <1>11, <1>13, <3>1
    <3>2. CASE current \notin SensorPages
      <4>1. current \in SensorScreens
        BY <1>4, <1>16, <3>2
      <4>2. sensorIndex \in N!Sensors
            /\ \E j \in 1 .. m - 1 : Trail(j) = N!SensorIds[sensorIndex]
        BY <1>7, <1>8, <1>11, <4>1 DEF SensorKnown
      <4>3. \A j \in 1 .. m - 1 : j \in 1 .. m
        BY <1>11
      <4> QED  BY <1>7, <1>13, <3>2, <4>2, <4>3
    <3> QED  BY <3>1, <3>2
  <2>3. (m + 1) - 1 = m
    BY <1>6
  <2> QED  BY <2>1, <2>2, <2>3 DEF SensorKnown
<1>17. ASSUME NEW k \in 1 .. Deepest' PROVE SensorKnown(k)'
  <2>1. CASE k = m + 1
    <3>1. CASE to \in SensorScreens
      BY <1>16, <2>1, <3>1
    <3>2. CASE to \notin SensorScreens
      BY <1>7, <2>1, <3>2 DEF SensorKnown
    <3> QED  BY <3>1, <3>2
  <2>2. CASE k # m + 1
    <3>1. k \in 1 .. m
      BY <1>10, <2>2
    <3>2. CASE Trail(k) \in SensorScreens
      BY <1>15, <3>1, <3>2
    <3>3. CASE Trail(k) \notin SensorScreens
      BY <1>7, <3>1, <3>3 DEF SensorKnown
    <3> QED  BY <3>2, <3>3
  <2> QED  BY <2>1, <2>2
<1>18. EditorFits'
  <2>1. editing' = EditorOf(current')
    BY <1>3, <1>4
  <2>2. \A k \in 1 .. Len(stack') : EditorOf(stack'[k]) = N!None
    <3>1. \A k \in 1 .. Len(stack') : k \in 1 .. Len(stack) \/ k = Len(stack) + 1
      BY <1>6
    <3> QED  BY <1>4, <1>6, <3>1 DEF Standing, EditorFits
  <2>3. stack' # <<>> /\ stack'[Len(stack')] = current
    BY <1>6
  <2> QED  BY <1>3, <1>4, <2>1, <2>2, <2>3 DEF EditorFits, EditorOf
<1> QED  BY <1>2, <1>3, <1>4, <1>6, <1>12, <1>13, <1>17, <1>18 DEF Standing

\* Every step of the navigation keeps it.
LEMMA NextStanding ==
    ASSUME Standing, [N!Next]_(N!vars)
    PROVE  Standing'
<1>1. form \in [N!Sensors -> N!AnyForm] /\ prompt \in DOMAIN N!Asked /\ current \in Pages
  BY DEF Standing
<1>2. \A n, type \in N!AnyForm : [form EXCEPT ![n] = type] \in [N!Sensors -> N!AnyForm]
  BY <1>1
<1>3. N!Formula \in N!AnyForm /\ {"none", "failed", "nyquist"} \subseteq DOMAIN N!Asked
  BY DEF N!AnyForm, N!Asked
<1>4. CASE N!PageNext
  <2>1. PICK declared \in N!Leads(current, "page.next") :
          N!goToSibling(N!siblingAfter(current, declared)) /\ UNCHANGED <<form, editing, prompt>>
    BY <1>4 DEF N!PageNext, N!Flows
  <2>2. EditorOf(current) = N!None /\ N!siblingAfter(current, declared) \in Company \cup {N!None}
    BY SiblingsStay
  <2>3. current' \in Company /\ UNCHANGED <<stack, sensorIndex>>
    BY <1>1, <2>1, <2>2 DEF N!goToSibling, Company
  <2> QED  BY <1>1, <2>1, <2>2, <2>3, BesideStanding
<1>5. CASE N!PagePrevious
  <2>1. PICK declared \in N!Leads(current, "page.previous") :
          N!goToSibling(N!siblingBefore(current, declared)) /\ UNCHANGED <<form, editing, prompt>>
    BY <1>5 DEF N!PagePrevious, N!Flows
  <2>2. EditorOf(current) = N!None /\ N!siblingBefore(current, declared) \in Company \cup {N!None}
    BY SiblingsStay
  <2>3. current' \in Company /\ UNCHANGED <<stack, sensorIndex>>
    BY <1>1, <2>1, <2>2 DEF N!goToSibling, Company
  <2> QED  BY <1>1, <2>1, <2>2, <2>3, BesideStanding
<1>6. CASE N!NavDescend
  BY <1>6, DownStanding
<1>7. CASE N!NavBack
  BY <1>1, <1>7, BackStanding DEF N!NavBack
<1>8. CASE N!ValueStep("value.increment") \/ N!ValueStep("value.decrement")
  BY <1>1, <1>3, <1>8, StayStanding DEF N!ValueStep
<1>9. ASSUME N!Saved PROVE Standing'
  <2>1. form' \in [N!Sensors -> N!AnyForm]
    BY <1>1, <1>2, <1>9 DEF N!Saved
  <2> QED  BY <1>9, <2>1, BackStanding DEF N!Saved
<1>10. CASE N!ValueCommit
  <2>1. CASE N!Saved
    BY <1>9, <2>1
  <2>2. CASE ~N!Saved
    <3>1. prompt' \in {"failed", "nyquist"} /\ UNCHANGED <<current, stack, sensorIndex, form, editing>>
      BY <1>10, <2>2 DEF N!ValueCommit
    <3> QED  BY <1>1, <1>3, <3>1, StayStanding
  <2> QED  BY <2>1, <2>2
<1>11. CASE N!SaveAnyway
  BY <1>9, <1>11 DEF N!SaveAnyway
<1>12. CASE N!ValueDiscard
  BY <1>1, <1>12, BackStanding DEF N!ValueDiscard
<1>13. CASE N!HoldCompleted
  <2>1. PICK action \in N!Resets : \E toast \in N!Flows(action) :
          /\ current' = toast
          /\ form' = IF action = "reset-calibration" /\ sensorIndex \in Retyped
                       THEN [form EXCEPT ![sensorIndex] = N!Formula] ELSE form
          /\ UNCHANGED <<stack, sensorIndex, editing, prompt>>
    BY <1>13 DEF N!HoldCompleted
  <2>2. action \in N!Beside /\ N!Leads(current, action) # {}
        /\ current' \in N!Leads(current, action) /\ current' # N!None
    BY <1>1, <2>1, MenuLevels DEF N!Flows, N!Beside
  <2>3. EditorOf(current) = N!None /\ current' \in Company
    BY <1>1, <2>2, MenuLevels, MenuEditors, MenuSensors DEF Company
  <2>4. form' \in [N!Sensors -> N!AnyForm]
    BY <1>1, <1>2, <1>3, <2>1
  <2> QED  BY <1>1, <2>1, <2>3, <2>4, BesideStanding
<1>14. CASE N!EnterIdle
  BY <1>1, <1>14, EscapeStanding DEF N!EnterIdle
<1>15. CASE N!Restart
  <2>1. form' \in [N!Sensors -> N!AnyForm]
    BY <1>1, <1>3, <1>15 DEF N!Restart
  <2> QED  BY <1>15, <2>1, EscapeStanding DEF N!Restart
<1>16. CASE N!BusRetypes
  <2>1. PICK n \in Retyped, type \in N!AnyForm : form' = [form EXCEPT ![n] = type]
    BY <1>16 DEF N!BusRetypes
  <2>2. form' \in [N!Sensors -> N!AnyForm] /\ UNCHANGED <<current, stack, sensorIndex, editing, prompt>>
    BY <1>1, <1>16, <2>1 DEF N!BusRetypes
  <2> QED  BY <1>1, <2>2, StayStanding
<1>17. CASE UNCHANGED N!vars
  BY <1>1, <1>17, StayStanding DEF N!vars
<1> QED
  BY <1>4, <1>5, <1>6, <1>7, <1>8, <1>10, <1>11, <1>12, <1>13, <1>14, <1>15, <1>16, <1>17
     DEF N!Next

-----------------------------------------------------------------------------
(* Navigation: the ring of a level, with screens hidden in it. *)

-----------------------------------------------------------------------------

\* A ring of the level shown.
RingOf(r, n) ==
  /\ n \in 1 .. N!kMaxRing /\ r \in [0 .. n - 1 -> Pages]
  /\ \A i, j \in 0 .. n - 1 : r[i] = r[j] => i = j
  /\ \A i \in 0 .. n - 1 :
       /\ Level[r[i]] = Len(stack)
       /\ N!rawNextWithTail(r[i]) = r[(i + 1) % n]

\* The members of a ring lead to one another.
LEMMA RingIsClosed ==
    ASSUME NEW r, NEW n, RingOf(r, n)
    PROVE  Closed({r[k] : k \in 0 .. n - 1})
<1> DEFINE pages == {r[k] : k \in 0 .. n - 1}
<1>1. n \in Nat \ {0} /\ pages \subseteq Pages
  BY DEF RingOf, N!kMaxRing
<1>2. ASSUME NEW k \in 0 .. n - 1 PROVE N!rawNextWithTail(r[k]) \in pages
  <2>1. k + 1 \in Int /\ N!rawNextWithTail(r[k]) = r[(k + 1) % n]
    BY <1>1 DEF RingOf
  <2>2. (k + 1) % n \in 0 .. n - 1
    BY <1>1, <2>1, Division
  <2> QED  BY <2>1, <2>2
<1> QED  BY <1>1, <1>2 DEF Closed

\* What is d steps on from member i is shown, and nothing between the two is.
Gap(r, n, i, d) ==
  /\ d \in 1 .. n /\ N!screenVisible(r[(i + d) % n])
  /\ \A k \in 1 .. d - 1 : ~N!screenVisible(r[(i + k) % n])

Lesser(a, b) == IF a < b THEN a ELSE b

\* The walk from a member meets the first one shown, d steps on.
LEMMA NextMet ==
    ASSUME NEW r, NEW n, RingOf(r, n), NEW i \in 0 .. n - 1, NEW d, Gap(r, n, i, d)
    PROVE  N!nextVisibleSibling(r[i]) = r[(i + d) % n]
<1> DEFINE pages == {r[k] : k \in 0 .. n - 1}
<1>1. n \in Nat \ {0} /\ n <= 16 /\ N!kMaxRing = 16 /\ d \in 1 .. n /\ d \in Nat
  BY DEF RingOf, Gap, N!kMaxRing
<1>2. \A x \in Int : x % n \in 0 .. n - 1 /\ r[x % n] \in pages /\ r[x % n] \in Pages
  BY <1>1, Division DEF RingOf
<1>3. Closed(pages)
  BY RingIsClosed
<1>4. r[i] \in pages /\ N!None \notin pages
  BY MenuLevels DEF RingOf
<1>5. PICK w \in [0 .. N!kMaxRing -> pages \cup {N!None}] :
        /\ Walks(w, r[i])
        /\ N!nextVisibleSibling(r[i]) =
             IF w[N!kMaxRing] = r[i] /\ ~N!screenVisible(r[i]) THEN N!None ELSE w[N!kMaxRing]
  <2> HIDE DEF pages
  <2> QED  BY <1>3, <1>4, WalkEnds
<1> DEFINE Right(h) == w[h] = r[(i + Lesser(h + 1, d)) % n]
           Wrong == {h \in 0 .. 16 : ~Right(h)}
<1>6. Right(16)
  <2> SUFFICES ASSUME Wrong # {} PROVE FALSE
    OBVIOUS
  <2>1. PICK h \in Wrong : \A k \in Wrong : h <= k
    <3>1. Wrong \subseteq Nat
      OBVIOUS
    <3> HIDE DEF Wrong
    <3> QED  BY <3>1, LeastNumber
  <2>2. h \in 0 .. 16 /\ ~Right(h)
    OBVIOUS
  <2>3. CASE h = 0
    <3>1. Lesser(0 + 1, d) = 1
      BY <1>1 DEF Lesser
    <3>2. w[0] = r[(i + 1) % n]
      BY <1>5 DEF Walks, RingOf
    <3> QED  BY <2>2, <2>3, <3>1, <3>2
  <2>4. CASE h # 0
    <3>1. h \in 1 .. 16 /\ h - 1 \in 0 .. 16 /\ h - 1 \notin Wrong
      <4>1. h \in 1 .. 16 /\ h - 1 \in 0 .. 16 /\ ~(h <= h - 1)
        BY <2>2, <2>4
      <4> HIDE DEF Wrong
      <4> QED  BY <2>1, <4>1
    <3> DEFINE k == Lesser(h, d)
               at == r[(i + k) % n]
    <3>2. w[h - 1] = at
      <4>1. (h - 1) + 1 = h
        BY <3>1
      <4> QED  BY <3>1, <4>1
    <3>3. w[h] = Step(r[i], at)
      <4> HIDE DEF at
      <4> QED  BY <1>1, <1>5, <3>1, <3>2 DEF Walks
    <3>4. CASE h < d
      <4>1. h \in 1 .. d - 1 /\ h \in 0 .. n - 1 /\ h \in 0 .. n /\ i + h \in Int
        BY <1>1, <3>1, <3>4
      <4>2. k = h /\ Lesser(h + 1, d) = h + 1
        BY <1>1, <3>1, <3>4 DEF Lesser
      <4>3. ~N!screenVisible(at)
        BY <4>1, <4>2 DEF Gap
      <4>4. at \in pages /\ (i + h) % n \in 0 .. n - 1
        <5>1. r[(i + h) % n] \in pages /\ (i + h) % n \in 0 .. n - 1
          <6> HIDE DEF pages
          <6> QED  BY <1>2, <4>1
        <5> QED  BY <4>2, <5>1
      <4>5. at # r[i]
        <5> SUFFICES ASSUME r[(i + h) % n] = r[i] PROVE FALSE
          BY <4>2
        <5>1. (i + h) % n = i /\ i \in Int
          BY <4>4 DEF RingOf
        <5>2. (i + h) % n = IF i + h < n THEN i + h ELSE i + h - n
          BY <1>1, <4>1, StepForward
        <5> QED  BY <1>1, <4>1, <5>1, <5>2
      <4>6. w[h] = N!rawNextWithTail(at)
        <5> HIDE DEF at, pages
        <5> QED  BY <1>4, <3>3, <4>3, <4>4, <4>5 DEF Step
      <4>7. N!rawNextWithTail(at) = r[(((i + h) % n) + 1) % n]
        BY <4>1, <4>2, <4>4 DEF RingOf
      <4>8. (((i + h) % n) + 1) % n = (i + (h + 1)) % n
        <5>1. i + h \in Int /\ (i + h) + 1 = i + (h + 1)
          BY <1>1, <4>1
        <5> QED  BY <1>1, <5>1, TwoSteps
      <4> QED  BY <2>2, <4>2, <4>6, <4>7, <4>8
    <3>5. CASE ~(h < d)
      <4>1. k = d /\ Lesser(h + 1, d) = d
        BY <1>1, <3>1, <3>5 DEF Lesser
      <4>2. N!screenVisible(at)
        BY <4>1 DEF Gap
      <4>3. w[h] = at
        <5> HIDE DEF at
        <5> QED  BY <3>3, <4>2 DEF Step
      <4> QED  BY <2>2, <4>1, <4>3
    <3> QED  BY <3>4, <3>5
  <2> QED  BY <2>3, <2>4
<1>7. Lesser(16 + 1, d) = d
  BY <1>1 DEF Lesser
<1>8. w[N!kMaxRing] = r[(i + d) % n] /\ N!screenVisible(r[(i + d) % n])
  BY <1>1, <1>6, <1>7 DEF Gap
<1> HIDE DEF pages
<1> QED  BY <1>5, <1>8

\* The members of a ring that are shown.
Shown(r, n) == {i \in 0 .. n - 1 : N!screenVisible(r[i])}

\* e lists the m of them.
Listed(r, n, e, m) == RingOf(r, n) /\ m \in 1 .. n /\ Lists(e, m, Shown(r, n))

\* What a list of the members shown says of its places.
LEMMA ListedInOrder ==
    ASSUME NEW r, NEW n, NEW e, NEW m, Listed(r, n, e, m)
    PROVE  /\ n \in Nat \ {0} /\ m \in Nat \ {0} /\ m <= n /\ n <= 16 /\ N!kMaxRing = 16
           /\ \A i \in 0 .. m - 1 : e[i] \in 0 .. n - 1 /\ N!screenVisible(r[e[i]])
           /\ \A i, j \in 0 .. m - 1 : e[i] < e[j] => i < j
           /\ \A i, j \in 0 .. m - 1 : e[i] = e[j] => i = j
           /\ \A k \in 0 .. n - 1 : N!screenVisible(r[k]) => \E i \in 0 .. m - 1 : e[i] = k
<1>1. n \in Nat \ {0} /\ m \in Nat \ {0} /\ m <= n /\ n <= 16 /\ N!kMaxRing = 16
  BY DEF Listed, RingOf, N!kMaxRing
<1>2. \A i \in 0 .. m - 1 : e[i] \in 0 .. n - 1 /\ N!screenVisible(r[e[i]])
  BY DEF Listed, Lists, Shown
<1>3. \A i, j \in 0 .. m - 1 : i < j => e[i] < e[j]
  BY DEF Listed, Lists
<1>4. \A i, j \in 0 .. m - 1 : i \in Int /\ j \in Int /\ e[i] \in Int /\ e[j] \in Int
  BY <1>1, <1>2
<1>5. \A i, j \in 0 .. m - 1 : i < j \/ i = j \/ j < i
  BY <1>4
<1>6. \A k \in 0 .. n - 1 : N!screenVisible(r[k]) => \E i \in 0 .. m - 1 : e[i] = k
  BY DEF Listed, Lists, Shown
<1> QED  BY <1>1, <1>2, <1>3, <1>4, <1>5, <1>6

\* Between two neighbours in the list there is a gap.
LEMMA ListGap ==
    ASSUME NEW r, NEW n, NEW e, NEW m, Listed(r, n, e, m), NEW j \in 0 .. m - 1
    PROVE  \E d : Gap(r, n, e[j], d) /\ (e[j] + d) % n = e[(j + 1) % m]
<1>1. /\ n \in Nat \ {0} /\ m \in Nat \ {0} /\ m <= n
      /\ \A i \in 0 .. m - 1 : e[i] \in 0 .. n - 1 /\ N!screenVisible(r[e[i]])
      /\ \A i, k \in 0 .. m - 1 : e[i] < e[k] => i < k
      /\ \A i, k \in 0 .. m - 1 : e[i] = e[k] => i = k
      /\ \A k \in 0 .. n - 1 : N!screenVisible(r[k]) => \E i \in 0 .. m - 1 : e[i] = k
  BY ListedInOrder
<1>2. \A i, k \in 0 .. m - 1 : i < k => e[i] < e[k]
  BY DEF Listed, Lists
<1>3. e[j] \in 0 .. n - 1 /\ j \in Nat
  BY <1>1
<1>4. \A k \in 0 .. n : (e[j] + k) % n = IF e[j] + k < n THEN e[j] + k ELSE e[j] + k - n
  <2> HIDE DEF Gap
  <2> SUFFICES ASSUME NEW k \in 0 .. n
               PROVE  (e[j] + k) % n = IF e[j] + k < n THEN e[j] + k ELSE e[j] + k - n
    OBVIOUS
  <2> QED  BY <1>1, <1>3, StepForward
<1>5. CASE j + 1 < m
  <2> DEFINE d == e[j + 1] - e[j]
  <2>1. j + 1 \in 0 .. m - 1 /\ j < j + 1 /\ (j + 1) % m = j + 1
    <3>1. j + 1 \in 0 .. m - 1 /\ j < j + 1 /\ 1 \in 0 .. m
      BY <1>1, <1>3, <1>5
    <3>2. (j + 1) % m = IF j + 1 < m THEN j + 1 ELSE j + 1 - m
      BY <1>1, <3>1, StepForward
    <3> QED  BY <1>5, <3>1, <3>2
  <2>2. e[j + 1] \in 0 .. n - 1 /\ e[j] < e[j + 1] /\ N!screenVisible(r[e[j + 1]])
    BY <1>1, <1>2, <2>1
  <2>3. d \in 1 .. n /\ e[j] + d = e[j + 1]
    BY <1>1, <1>3, <2>2
  <2>4. (e[j] + d) % n = e[j + 1]
    BY <1>1, <1>4, <2>2, <2>3
  <2>5. ASSUME NEW k \in 1 .. d - 1, N!screenVisible(r[(e[j] + k) % n]) PROVE FALSE
    <3>1. k \in 0 .. n /\ e[j] + k < e[j + 1] /\ e[j] < e[j] + k /\ e[j] + k \in 0 .. n - 1
      BY <1>1, <1>3, <2>2, <2>3
    <3>2. (e[j] + k) % n = e[j] + k
      BY <1>1, <1>4, <3>1
    <3>3. PICK i \in 0 .. m - 1 : e[i] = e[j] + k
      BY <1>1, <2>5, <3>1, <3>2
    <3>4. j < i /\ i < j + 1
      BY <1>1, <2>1, <3>1, <3>3
    <3> QED  BY <1>1, <1>3, <3>4
  <2>6. Gap(r, n, e[j], d)
    <3> HIDE DEF d
    <3> QED  BY <2>2, <2>3, <2>4, <2>5 DEF Gap
  <2> QED  BY <2>1, <2>4, <2>6
<1>6. CASE ~(j + 1 < m)
  <2> DEFINE d == e[0] + n - e[j]
  <2>1. 0 \in 0 .. m - 1 /\ j = m - 1 /\ (j + 1) % m = 0
    <3>1. 0 \in 0 .. m - 1 /\ j = m - 1 /\ 1 \in 0 .. m
      BY <1>1, <1>3, <1>6
    <3>2. (j + 1) % m = IF j + 1 < m THEN j + 1 ELSE j + 1 - m
      BY <1>1, <3>1, StepForward
    <3> QED  BY <1>1, <1>6, <3>1, <3>2
  <2>2. e[0] \in 0 .. n - 1 /\ e[0] <= e[j] /\ N!screenVisible(r[e[0]])
    <3>1. e[0] \in 0 .. n - 1 /\ N!screenVisible(r[e[0]])
      BY <1>1, <2>1
    <3>2. CASE j = 0
      BY <3>1, <3>2
    <3>3. CASE j # 0
      <4>1. 0 < j
        BY <1>3, <3>3
      <4>2. e[0] < e[j]
        BY <1>2, <2>1, <4>1
      <4> QED  BY <1>3, <3>1, <4>2
    <3> QED  BY <3>2, <3>3
  <2>3. d \in 1 .. n /\ e[j] + d = e[0] + n
    BY <1>1, <1>3, <2>2
  <2>4. (e[j] + d) % n = e[0]
    <3> HIDE DEF d
    <3>1. d \in 0 .. n /\ ~(e[j] + d < n) /\ e[j] + d - n = e[0]
      BY <1>1, <2>2, <2>3
    <3> QED  BY <1>4, <3>1
  <2>5. ASSUME NEW k \in 1 .. d - 1, N!screenVisible(r[(e[j] + k) % n]) PROVE FALSE
    <3>1. k \in 0 .. n /\ k \in Int /\ e[j] + k < e[0] + n
      BY <1>1, <1>3, <2>2, <2>3
    <3>2. CASE e[j] + k < n
      <4>1. (e[j] + k) % n = e[j] + k /\ e[j] + k \in 0 .. n - 1 /\ e[j] < e[j] + k
        <5>1. (e[j] + k) % n = e[j] + k
          BY <1>4, <3>1, <3>2
        <5>2. e[j] + k \in 0 .. n - 1 /\ e[j] < e[j] + k
          BY <1>1, <1>3, <3>2
        <5> QED  BY <5>1, <5>2
      <4>2. PICK i \in 0 .. m - 1 : e[i] = e[j] + k
        BY <1>1, <2>5, <4>1
      <4>3. j < i
        BY <1>1, <4>1, <4>2
      <4> QED  BY <1>1, <2>1, <4>3
    <3>3. CASE ~(e[j] + k < n)
      <4>1. /\ (e[j] + k) % n = e[j] + k - n /\ e[j] + k - n \in 0 .. n - 1
            /\ e[j] + k - n < e[0]
        <5>1. (e[j] + k) % n = e[j] + k - n
          BY <1>4, <3>1, <3>3
        <5>2. e[j] + k - n \in 0 .. n - 1 /\ e[j] + k - n < e[0]
          BY <1>1, <1>3, <2>2, <3>1, <3>3
        <5> QED  BY <5>1, <5>2
      <4>2. PICK i \in 0 .. m - 1 : e[i] = e[j] + k - n
        BY <1>1, <2>5, <4>1
      <4>3. i < 0
        BY <1>1, <2>1, <4>1, <4>2
      <4> QED  BY <1>1, <4>3
    <3> QED  BY <3>2, <3>3
  <2>6. Gap(r, n, e[j], d)
    <3> HIDE DEF d
    <3> QED  BY <2>2, <2>3, <2>4, <2>5 DEF Gap
  <2> QED  BY <2>1, <2>4, <2>6
<1> QED  BY <1>5, <1>6

\* The next visible sibling is the next one in the list.
LEMMA NextShown ==
    ASSUME NEW r, NEW n, NEW e, NEW m, Listed(r, n, e, m), NEW j \in 0 .. m - 1
    PROVE  N!nextVisibleSibling(r[e[j]]) = r[e[(j + 1) % m]]
<1>1. PICK d : Gap(r, n, e[j], d) /\ (e[j] + d) % n = e[(j + 1) % m]
  BY ListGap
<1>2. e[j] \in 0 .. n - 1 /\ RingOf(r, n)
  BY ListedInOrder DEF Listed
<1> QED  BY <1>1, <1>2, NextMet

-----------------------------------------------------------------------------
(* Navigation: the rings of the table. *)

\* What the table says of a ring.
Tabled(r, n) ==
  \A i \in 0 .. n - 1 :
    /\ r[(i + 1) % n] = N!Splice(r[i], N!rawNextSibling(r[i]))
    /\ N!Leads(r[i], "page.next") = {N!rawNextSibling(r[i])}
    /\ Level[r[i]] # 0 => N!Leads(r[(i + 1) % n], "page.previous") = {r[i]}
    /\ r[i] # N!RootTail.id => Place[r[i]] \in Nat

RootsShown == N!screenVisible(N!root) /\ N!screenVisible(N!RootTail.id)

\* The forms of the channels hide neither the root nor the tail.
LEMMA RootsAreShown == Standing => RootsShown
<1> SUFFICES ASSUME Standing PROVE RootsShown
  OBVIOUS
<1>1. ScreenOf[N!root].forms = N!AnyForm /\ ScreenOf[N!RootTail.id].forms = N!AnyForm
  <2>1. N!RingsClose(Level, Rings)
    BY GeneratedMenu
  <2> HIDE DEF Level, Rings
  <2> QED  BY <2>1 DEF N!RingsClose
<1>2. N!Calibration \in N!AnyForm
  BY DEF Standing, N!Calibration, N!AnyForm
<1> QED  BY <1>1, <1>2 DEF RootsShown, N!screenVisible

\* The ring of a page that has a next one.
LEMMA RingExists ==
    ASSUME Standing, N!Leads(current, "page.next") # {}
    PROVE  \E r, n : RingOf(r, n) /\ Tabled(r, n) /\ \E p \in 0 .. n - 1 : r[p] = current
<1>1. N!RingsClose(Level, Rings) /\ current \in Pages
  BY GeneratedMenu DEF Standing
<1>2. Level[current] = Len(stack) /\ Len(stack) \in Nat
  <2>1. Len(stack) \in Nat /\ Deepest \in 1 .. Deepest /\ Trail(Deepest) = current
    BY DEF Standing, Deepest, Trail
  <2>2. Level[current] = Deepest - 1
    BY <2>1 DEF Standing, Places
  <2> QED  BY <2>1, <2>2 DEF Deepest
<1> HIDE DEF Level, Rings
<1>3. PICK r \in Rings : \E i \in DOMAIN r : r[i] = current
  BY <1>1 DEF N!RingsClose, Pages
<1>4. PICK n \in 1 .. N!kMaxRing :
       /\ r \in [0 .. n - 1 -> Pages]
       /\ \A i, j \in 0 .. n - 1 : Level[r[i]] = Level[r[j]] /\ (r[i] = r[j] => i = j)
       /\ Tabled(r, n)
  BY <1>1 DEF N!RingsClose, Tabled, Pages
<1>5. PICK p \in 0 .. n - 1 : r[p] = current
  BY <1>3, <1>4
<1>6. \A i \in 0 .. n - 1 : Level[r[i]] = Len(stack)
  BY <1>2, <1>4, <1>5
<1>7. \A i \in 0 .. n - 1 : N!rawNextWithTail(r[i]) = r[(i + 1) % n]
  <2> SUFFICES ASSUME NEW i \in 0 .. n - 1 PROVE N!rawNextWithTail(r[i]) = r[(i + 1) % n]
    OBVIOUS
  <2> DEFINE raw == N!rawNextSibling(r[i])
  <2>1. r[(i + 1) % n] = N!Splice(r[i], raw)
    BY <1>4 DEF Tabled
  <2>2. CASE Len(stack) = 0
    BY <2>1, <2>2 DEF N!rawNextWithTail, N!ByTheTail, N!depth
  <2>3. CASE Len(stack) # 0
    <3>1. r[i] # N!RootTail.id /\ r[i] \in Pages /\ Level[r[i]] # 0
      BY <1>4, <1>6, <2>3, MenuLevels
    <3>2. raw # N!root
      BY <3>1, MenuLevels
    <3>3. N!Splice(r[i], raw) = raw
      BY <3>1, <3>2 DEF N!Splice
    <3> QED  BY <2>1, <2>3, <3>3 DEF N!rawNextWithTail, N!ByTheTail, N!depth
  <2> QED  BY <2>2, <2>3
<1> QED  BY <1>4, <1>5, <1>6, <1>7 DEF RingOf

\* DOWN shows the next member that is shown.
LEMMA AfterShown ==
    ASSUME RootsShown, NEW r, NEW n, NEW e, NEW m, Listed(r, n, e, m), Tabled(r, n),
           NEW j \in 0 .. m - 1, NEW declared \in N!Leads(r[e[j]], "page.next")
    PROVE  N!siblingAfter(r[e[j]], declared) = r[e[(j + 1) % m]]
<1> DEFINE here == r[e[j]]
           i == e[j]
           following == r[(i + 1) % n]
           chosen == IF declared # N!None /\ N!screenVisible(declared) THEN declared
                     ELSE IF (IF declared = N!None THEN N!None ELSE N!nextVisibleSibling(declared)) = N!None
                            THEN N!nextVisibleSibling(here)
                            ELSE (IF declared = N!None THEN N!None ELSE N!nextVisibleSibling(declared))
<1>1. i \in 0 .. n - 1 /\ RingOf(r, n) /\ n \in Nat \ {0} /\ i \in Nat
  BY ListedInOrder DEF Listed
<1>2. declared = N!rawNextSibling(here) /\ following = N!Splice(here, declared)
  BY <1>1 DEF Tabled
<1>3. PICK d : Gap(r, n, i, d) /\ (i + d) % n = e[(j + 1) % m]
  BY ListGap
<1>4. d \in 1 .. n /\ N!screenVisible(r[(i + d) % n])
  BY <1>3 DEF Gap
<1> DEFINE next == r[(i + d) % n]
<1>5. (i + 1) % n \in 0 .. n - 1 /\ (i + d) % n \in 0 .. n - 1 /\ (i + (d - 1)) % n \in 0 .. n - 1
  <2>1. i + 1 \in Int /\ i + d \in Int /\ i + (d - 1) \in Int
    BY <1>1, <1>4
  <2> QED  BY <1>1, <2>1, Division
<1>6. N!siblingAfter(here, declared) = N!ByTheTail(here, chosen)
  BY DEF N!siblingAfter
<1>7. ASSUME N!screenVisible(following) PROVE next = following
  <2> SUFFICES ASSUME d # 1 PROVE FALSE
    OBVIOUS
  <2>1. 1 \in 1 .. d - 1
    BY <1>4
  <2> QED  BY <1>3, <1>7, <2>1 DEF Gap
<1>8. ASSUME ~N!screenVisible(following) PROVE N!nextVisibleSibling(following) = next /\ d # 1
  <2>1. d # 1
    BY <1>4, <1>8
  <2>2. d - 1 \in 1 .. n /\ \A k \in 1 .. (d - 1) - 1 : k + 1 \in 1 .. d - 1 /\ k \in Int
    BY <1>1, <1>4, <2>1
  <2>3. \A k \in Int : (((i + 1) % n) + k) % n = (i + (k + 1)) % n
    <3> SUFFICES ASSUME NEW k \in Int PROVE (((i + 1) % n) + k) % n = (i + (k + 1)) % n
      OBVIOUS
    <3>1. i + 1 \in Int /\ (i + 1) + k = i + (k + 1)
      BY <1>1
    <3> QED  BY <1>1, <3>1, TwoSteps
  <2>4. (((i + 1) % n) + (d - 1)) % n = (i + d) % n
    <3>1. d - 1 \in Int /\ (d - 1) + 1 = d
      BY <1>4
    <3> QED  BY <2>3, <3>1
  <2>5. Gap(r, n, (i + 1) % n, d - 1)
    BY <1>3, <2>2, <2>3, <2>4 DEF Gap
  <2> HIDE DEF i
  <2> QED  BY <1>1, <1>5, <2>1, <2>4, <2>5, NextMet
<1>9. following \in Pages /\ next \in Pages /\ N!None \notin Pages
  BY <1>1, <1>5, MenuLevels DEF RingOf
<1>10. ASSUME declared = following PROVE chosen = next
  <2> HIDE DEF next, following, here
  <2> QED  BY <1>7, <1>8, <1>9, <1>10
<1>11. CASE N!depth # 0
  <2>1. N!rawNextWithTail(here) = declared /\ N!rawNextWithTail(here) = following
    BY <1>1, <1>2, <1>11 DEF N!rawNextWithTail, N!ByTheTail, RingOf
  <2> HIDE DEF chosen
  <2> QED  BY <1>3, <1>6, <1>10, <1>11, <2>1 DEF N!ByTheTail
<1>12. CASE N!depth = 0 /\ here = N!RootTail.id
  <2>1. following = N!root /\ N!ByTheTail(here, chosen) = N!root
    <3> HIDE DEF chosen, here, following
    <3> QED  BY <1>2, <1>12 DEF N!Splice, N!ByTheTail
  <2>2. next = following
    BY <1>7, <2>1 DEF RootsShown
  <2> QED  BY <1>3, <1>6, <2>1, <2>2
<1>13. CASE N!depth = 0 /\ here # N!RootTail.id /\ declared = N!root
  <2>1. following = N!RootTail.id
    BY <1>2, <1>13 DEF N!Splice
  <2>2. next = following
    BY <1>7, <2>1 DEF RootsShown
  <2>3. chosen = declared
    BY <1>13, <1>9, MenuLevels DEF RootsShown
  <2>4. N!ByTheTail(here, chosen) = N!RootTail.id
    <3> HIDE DEF chosen, here
    <3> QED  BY <1>13, <2>3 DEF N!Splice, N!ByTheTail
  <2> QED  BY <1>3, <1>6, <2>1, <2>2, <2>4
<1>14. CASE N!depth = 0 /\ here # N!RootTail.id /\ declared # N!root
  <2>1. following = declared
    <3> HIDE DEF here, following
    <3> QED  BY <1>2, <1>14 DEF N!Splice
  <2>2. chosen = next
    BY <1>10, <2>1
  <2>3. next # N!root
    <3> SUFFICES ASSUME next = N!root PROVE FALSE
      OBVIOUS
    <3>1. d # 1
      <4> SUFFICES ASSUME d = 1 PROVE FALSE
        OBVIOUS
      <4>1. next = following
        OBVIOUS
      <4> HIDE DEF next, following
      <4> QED  BY <1>14, <2>1, <4>1
    <3> DEFINE q == (i + (d - 1)) % n
    <3>2. (q + 1) % n = (i + d) % n
      <4>1. i + (d - 1) \in Int /\ (i + (d - 1)) + 1 = i + d
        BY <1>1, <1>4
      <4> QED  BY <1>1, <4>1, TwoSteps
    <3>3. d - 1 \in 1 .. d - 1
      BY <1>4, <3>1
    <3>4. ~N!screenVisible(r[q])
      BY <1>3, <3>3 DEF Gap
    <3>5. next = N!Splice(r[q], N!rawNextSibling(r[q]))
      BY <1>5, <3>2 DEF Tabled
    <3>6. N!root # N!RootTail.id
      BY MenuLevels
    <3>7. r[q] = N!RootTail.id
      <4> HIDE DEF next, q
      <4> QED  BY <3>5, <3>6 DEF N!Splice
    <3> QED  BY <3>4, <3>7 DEF RootsShown
  <2>4. N!ByTheTail(here, next) = next
    <3> HIDE DEF next, here
    <3> QED  BY <1>14, <2>3 DEF N!Splice, N!ByTheTail
  <2> HIDE DEF chosen
  <2> QED  BY <1>3, <1>6, <2>2, <2>4
<1> QED  BY <1>11, <1>12, <1>13, <1>14

-----------------------------------------------------------------------------
(* Navigation: once round, and back. *)

\* Going forward from a member that is shown meets them all, once, in the order of the ring.
LEMMA ForwardRound ==
    ASSUME NEW r, NEW n, NEW e, NEW m, Listed(r, n, e, m), NEW j \in 0 .. m - 1
    PROVE  /\ Len(N!Forward(r[e[j]])) = m
           /\ \A k \in 1 .. m : N!Forward(r[e[j]])[k] = r[e[(j + (k - 1)) % m]]
<1> DEFINE pages == {r[k] : k \in 0 .. n - 1}
           from == r[e[j]]
<1>1. /\ n \in Nat \ {0} /\ m \in Nat \ {0} /\ m <= n /\ n <= 16 /\ N!kMaxRing = 16
      /\ \A i \in 0 .. m - 1 : e[i] \in 0 .. n - 1
      /\ \A i, k \in 0 .. m - 1 : e[i] = e[k] => i = k
  BY ListedInOrder
<1>2. RingOf(r, n) /\ Closed(pages) /\ from \in pages /\ N!None \notin Pages
  BY <1>1, RingIsClosed, MenuLevels DEF Listed
<1>3. PICK w \in [0 .. N!kMaxRing -> Lines(pages)] :
        Meets(w, from) /\ N!Forward(from) = w[N!kMaxRing]
  <2> HIDE DEF pages, from
  <2> QED  BY <1>2, ForwardEnds
<1>4. \A x \in Int : x % m \in 0 .. m - 1
  BY <1>1, Division
<1> DEFINE Member(x) == r[e[x % m]]
<1>5. \A x \in Int : N!nextVisibleSibling(Member(x)) = Member(x + 1) /\ Member(x) \in Pages
  <2> SUFFICES ASSUME NEW x \in Int
               PROVE  N!nextVisibleSibling(Member(x)) = Member(x + 1) /\ Member(x) \in Pages
    OBVIOUS
  <2>1. x % m \in 0 .. m - 1
    BY <1>4
  <2>2. ((x % m) + 1) % m = (x + 1) % m
    <3>1. m \in Nat \ {0} /\ 1 \in Int
      BY <1>1
    <3> QED  BY <3>1, TwoSteps
  <2>3. e[x % m] \in 0 .. n - 1
    BY <1>1, <2>1
  <2> QED  BY <1>2, <2>1, <2>2, <2>3, NextShown DEF RingOf
<1>6. Member(j) = from /\ Member(j + m) = from /\ j \in Int
  <2>1. j % m = j /\ (j + m) % m = j
    <3>1. j = m * 0 + j /\ j + m = m * 1 + j /\ j \in Int
      BY <1>1
    <3>2. m \in Nat \ {0} /\ 0 \in Int /\ 1 \in Int /\ j + m \in Int
      BY <1>1, <3>1
    <3>3. j % m = j
      BY <3>1, <3>2, Remainder
    <3>4. (j + m) % m = j
      BY <3>1, <3>2, Remainder
    <3> QED  BY <3>3, <3>4
  <2> QED  BY <1>1, <2>1
<1>7. ASSUME NEW h \in 1 .. m - 1 PROVE Member(j + h) # from
  <2>1. j + h \in Int /\ h \in 0 .. m - 1 /\ 0 \in 0 .. m - 1 /\ j + 0 = j
    BY <1>1, <1>6
  <2>2. (j + h) % m \in 0 .. m - 1 /\ j % m \in 0 .. m - 1
    BY <1>4, <1>6, <2>1
  <2>3. (j + h) % m # j % m
    <3> SUFFICES ASSUME (j + h) % m = (j + 0) % m PROVE FALSE
      BY <2>1
    <3>1. m \in Nat \ {0} /\ h # 0
      BY <1>1
    <3> QED  BY <2>1, <3>1, OneRound
  <2>4. e[(j + h) % m] # e[j % m] /\ e[(j + h) % m] \in 0 .. n - 1 /\ e[j % m] \in 0 .. n - 1
    BY <1>1, <2>2, <2>3
  <2>5. Member(j + h) # Member(j)
    BY <1>2, <2>4 DEF RingOf
  <2> HIDE DEF Member
  <2> QED  BY <1>6, <2>5
<1> HIDE DEF Member
<1> DEFINE Right(h) == /\ Len(w[h]) = Lesser(h + 1, m)
                       /\ \A k \in 1 .. Lesser(h + 1, m) : w[h][k] = Member(j + (k - 1))
           Wrong == {h \in 0 .. 16 : ~Right(h)}
<1>8. Right(16)
  <2> SUFFICES ASSUME Wrong # {} PROVE FALSE
    OBVIOUS
  <2>1. PICK h \in Wrong : \A k \in Wrong : h <= k
    <3>1. Wrong \subseteq Nat
      OBVIOUS
    <3> HIDE DEF Wrong
    <3> QED  BY <3>1, LeastNumber
  <2>2. h \in 0 .. 16 /\ ~Right(h)
    OBVIOUS
  <2>3. CASE h = 0
    <3>1. Lesser(0 + 1, m) = 1 /\ w[0] = <<from>>
      BY <1>1, <1>3 DEF Lesser, Meets
    <3>2. \A k \in 1 .. 1 : j + (k - 1) = j /\ k = 1
      BY <1>6
    <3> HIDE DEF from
    <3>3. Len(w[0]) = 1 /\ w[0][1] = from
      BY <3>1
    <3> QED  BY <1>6, <2>2, <2>3, <3>1, <3>2, <3>3
  <2>4. CASE h # 0
    <3>1. h \in 1 .. 16 /\ h - 1 \in 0 .. 16 /\ h - 1 \notin Wrong
      <4>1. h \in 1 .. 16 /\ h - 1 \in 0 .. 16 /\ ~(h <= h - 1)
        BY <2>2, <2>4
      <4> HIDE DEF Wrong
      <4> QED  BY <2>1, <4>1
    <3> DEFINE met == w[h - 1]
    <3>2. Right(h - 1) /\ (h - 1) + 1 = h
      BY <3>1
    <3>3. met \in Seq(pages)
      BY <1>1, <1>3, <3>1 DEF Lines
    <3>4. w[h] = Meet(from, h, met)
      BY <1>1, <1>3, <3>1 DEF Meets
    <3>5. CASE m < h
      <4>1. Lesser(h, m) = m /\ Lesser(h + 1, m) = m
        BY <1>1, <3>1, <3>5 DEF Lesser
      <4>2. Len(met) = m
        BY <3>2, <4>1
      <4>3. w[h] = met
        <5> HIDE DEF met, from
        <5> QED  BY <3>4, <3>5, <4>2 DEF Meet
      <4> QED  BY <2>2, <3>2, <4>1, <4>3
    <3>6. CASE ~(m < h)
      <4>1. Lesser(h, m) = h /\ h \in 1 .. h /\ j + (h - 1) \in Int /\ (j + (h - 1)) + 1 = j + h
        BY <1>1, <1>6, <3>1, <3>6 DEF Lesser
      <4>2. Len(met) = h /\ met[h] = Member(j + (h - 1))
        BY <3>2, <4>1
      <4>3. N!nextVisibleSibling(met[Len(met)]) = Member(j + h)
        BY <1>5, <4>1, <4>2
      <4>4. ~(Len(met) < h)
        BY <4>1, <4>2
      <4>5. CASE h = m
        <5>1. Lesser(h + 1, m) = h
          BY <1>1, <3>1, <4>5 DEF Lesser
        <5>2. w[h] = met
          <6> HIDE DEF met, from
          <6> QED  BY <1>6, <3>4, <4>3, <4>5 DEF Meet
        <5> QED  BY <2>2, <3>2, <4>1, <5>1, <5>2
      <4>6. CASE h # m
        <5>1. Lesser(h + 1, m) = h + 1 /\ h \in 1 .. m - 1 /\ j + h \in Int
          <6>1. h \in Int /\ m \in Int /\ h < m /\ 1 <= h
            BY <1>1, <3>1, <3>6, <4>6
          <6>2. h \in 1 .. m - 1 /\ j + h \in Int
            BY <1>6, <6>1
          <6>3. Lesser(h + 1, m) = h + 1
            BY <6>1 DEF Lesser
          <6> QED  BY <6>2, <6>3
        <5>2. Member(j + h) \in Pages /\ Member(j + h) # N!None /\ Member(j + h) # from
          BY <1>2, <1>5, <1>7, <5>1
        <5>3. w[h] = Append(met, Member(j + h))
          <6> HIDE DEF met, from
          <6> QED  BY <3>4, <4>3, <4>4, <5>2 DEF Meet
        <5>4. /\ Len(w[h]) = h + 1 /\ w[h][h + 1] = Member(j + h)
              /\ \A k \in 1 .. h : w[h][k] = met[k]
          <6> HIDE DEF met, pages
          <6> QED  BY <3>3, <4>2, <5>3
        <5>5. \A k \in 1 .. h + 1 : k \in 1 .. h \/ (k = h + 1 /\ j + (k - 1) = j + h)
          BY <1>6, <3>1
        <5>6. \A k \in 1 .. h : w[h][k] = Member(j + (k - 1))
          BY <3>2, <4>1, <5>4
        <5> QED  BY <2>2, <5>1, <5>4, <5>5, <5>6
      <4> QED  BY <4>5, <4>6
    <3> QED  BY <3>5, <3>6
  <2> QED  BY <2>3, <2>4
<1>9. Lesser(16 + 1, m) = m
  BY <1>1 DEF Lesser
<1> QED  BY <1>1, <1>3, <1>8, <1>9 DEF Member

\* The previous visible sibling is the one before it in the list.
LEMMA PreviousShown ==
    ASSUME NEW r, NEW n, NEW e, NEW m, Listed(r, n, e, m), NEW j \in 0 .. m - 1
    PROVE  N!previousVisibleSibling(r[e[j]]) = r[e[(j + (m - 1)) % m]]
<1>1. m \in Nat \ {0} /\ m \in 1 .. m /\ (j + 1) % m \in 0 .. m - 1
  <2>1. m \in Nat \ {0} /\ m \in 1 .. m /\ j + 1 \in Int
    BY ListedInOrder
  <2> QED  BY <2>1, Division
<1>2. N!nextVisibleSibling(r[e[j]]) \in Pages /\ N!None \notin Pages
  <2>1. e[(j + 1) % m] \in 0 .. n - 1
    BY <1>1, ListedInOrder
  <2>2. r[e[(j + 1) % m]] \in Pages
    BY <2>1 DEF Listed, RingOf
  <2> QED  BY <2>2, NextShown, MenuLevels
<1>3. N!LastOf(N!Forward(r[e[j]])) = r[e[(j + (m - 1)) % m]]
  <2>1. Len(N!Forward(r[e[j]])) = m /\ N!Forward(r[e[j]])[m] = r[e[(j + (m - 1)) % m]]
    <3> DEFINE f == N!Forward(r[e[j]])
    <3>1. Len(f) = m /\ \A k \in 1 .. m : f[k] = r[e[(j + (k - 1)) % m]]
      BY ForwardRound
    <3> HIDE DEF f
    <3>2. m \in 1 .. m
      BY <1>1
    <3>3. f[m] = r[e[(j + (m - 1)) % m]]
      BY <3>1, <3>2
    <3> QED  BY <3>1, <3>3 DEF f
  <2> QED  BY <2>1 DEF N!LastOf
<1> QED  BY <1>2, <1>3 DEF N!previousVisibleSibling

\* UP shows the one before.
LEMMA BeforeShown ==
    ASSUME NEW r, NEW n, NEW e, NEW m, Listed(r, n, e, m), Tabled(r, n), NEW j \in 0 .. m - 1,
           NEW declared, N!depth # 0 => declared \in N!Leads(r[e[j]], "page.previous")
    PROVE  N!siblingBefore(r[e[j]], declared) = r[e[(j + (m - 1)) % m]]
<1>1. /\ n \in Nat \ {0} /\ m \in Nat \ {0} /\ RingOf(r, n)
      /\ \A i \in 0 .. m - 1 : e[i] \in 0 .. n - 1 /\ N!screenVisible(r[e[i]])
      /\ \A i, k \in 0 .. m - 1 : e[i] = e[k] => i = k
      /\ \A k \in 0 .. n - 1 : N!screenVisible(r[k]) => \E i \in 0 .. m - 1 : e[i] = k
  BY ListedInOrder DEF Listed
<1>2. N!previousVisibleSibling(r[e[j]]) = r[e[(j + (m - 1)) % m]]
  BY PreviousShown
<1>3. CASE ~(N!depth # 0 /\ N!screenVisible(declared))
  BY <1>2, <1>3 DEF N!siblingBefore
<1>4. CASE N!depth # 0 /\ N!screenVisible(declared)
  <2> DEFINE q == (e[j] + (n - 1)) % n
  <2>1. q \in 0 .. n - 1 /\ (q + 1) % n = e[j]
    BY <1>1, PlaceBefore
  <2> HIDE DEF q
  <2>2. declared = r[q]
    <3>1. Level[r[q]] # 0
      BY <1>1, <1>4, <2>1 DEF RingOf, N!depth
    <3>2. N!Leads(r[e[j]], "page.previous") = {r[q]}
      BY <2>1, <3>1 DEF Tabled
    <3> QED  BY <1>4, <3>2
  <2>3. PICK l \in 0 .. m - 1 : e[l] = q
    BY <1>1, <1>4, <2>1, <2>2
  <2>4. (l + 1) % m = j
    <3>1. l + 1 \in Int /\ j \in Int /\ (l + 1) % m \in 0 .. m - 1
      <4>1. l + 1 \in Int /\ j \in Int
        BY <1>1
      <4> QED  BY <1>1, <4>1, Division
    <3>2. Gap(r, n, q, 1)
      BY <1>1, <2>1 DEF Gap
    <3>3. N!nextVisibleSibling(r[q]) = r[e[j]]
      BY <1>1, <2>1, <3>2, NextMet
    <3>4. r[e[(l + 1) % m]] = r[e[j]]
      BY <2>3, <3>3, NextShown
    <3>5. e[(l + 1) % m] = e[j]
      BY <1>1, <3>1, <3>4 DEF RingOf
    <3> QED  BY <1>1, <3>1, <3>5
  <2>5. (j + (m - 1)) % m = l
    <3>1. l + 1 \in Int /\ m - 1 \in Int /\ (l + 1) + (m - 1) = m * 1 + l /\ m * 1 + l \in Int
      BY <1>1
    <3>2. (((l + 1) % m) + (m - 1)) % m = ((l + 1) + (m - 1)) % m
      BY <1>1, <3>1, TwoSteps
    <3>3. (m * 1 + l) % m = l
      BY <1>1, <3>1, Remainder
    <3> QED  BY <2>4, <3>1, <3>2, <3>3
  <2>6. declared # N!None
    BY <1>1, <2>1, <2>2, MenuLevels DEF RingOf
  <2> QED  BY <1>4, <2>2, <2>3, <2>5, <2>6 DEF N!siblingBefore
<1> QED  BY <1>3, <1>4

-----------------------------------------------------------------------------
(* Navigation: the position shown. *)

\* The member the position counts from does not depend on where the operator stands.
Anchor(members) ==
  IF N!depth = 0 /\ N!root \in members THEN N!root
  ELSE CHOOSE x \in members : \A other \in members : Place[x] <= Place[other]

\* The anchor is one of the members shown.
LEMMA AnchorExists ==
    ASSUME Standing, NEW r, NEW n, NEW e, NEW m, Listed(r, n, e, m), Tabled(r, n),
           NEW members, \A x : x \in members <=> \E l \in 0 .. m - 1 : x = r[e[l]]
    PROVE  \E a \in 0 .. m - 1 :
             r[e[a]] = Anchor(members)
<1>1. /\ n \in Nat \ {0} /\ m \in Nat \ {0} /\ RingOf(r, n)
      /\ \A l \in 0 .. m - 1 : e[l] \in 0 .. n - 1
      /\ \A k \in 0 .. n - 1 : N!screenVisible(r[k]) => \E l \in 0 .. m - 1 : e[l] = k
  BY ListedInOrder DEF Listed
<1>2. CASE N!depth = 0 /\ N!root \in members
  BY <1>2 DEF Anchor
<1>3. CASE ~(N!depth = 0 /\ N!root \in members)
  <2>1. \A x \in members : Place[x] \in Nat
    <3> SUFFICES ASSUME NEW l \in 0 .. m - 1 PROVE Place[r[e[l]]] \in Nat
      OBVIOUS
    <3>1. e[l] \in 0 .. n - 1
      BY <1>1
    <3>2. r[e[l]] # N!RootTail.id
      <4> SUFFICES ASSUME r[e[l]] = N!RootTail.id PROVE FALSE
        OBVIOUS
      <4> DEFINE q == (e[l] + 1) % n
      <4>1. q \in 0 .. n - 1
        <5>1. e[l] + 1 \in Int
          BY <3>1
        <5> QED  BY <1>1, <5>1, Division
      <4>2. r[q] = N!root
        BY <3>1 DEF Tabled, N!Splice
      <4>3. N!depth = 0
        BY <1>1, <3>1, MenuLevels DEF RingOf, N!depth
      <4> HIDE DEF q
      <4>4. PICK k \in 0 .. m - 1 : e[k] = q
        BY <1>1, <4>1, <4>2, RootsAreShown DEF RootsShown
      <4>5. N!root \in members
        BY <4>2, <4>4
      <4> QED  BY <1>3, <4>3, <4>5
    <3> QED  BY <3>1, <3>2 DEF Tabled
  <2> DEFINE S == {Place[x] : x \in members}
  <2>2. S \subseteq Nat /\ S # {}
    <3>1. r[e[0]] \in members
      BY <1>1
    <3> QED  BY <2>1, <3>1
  <2>3. PICK s \in S : \A y \in S : s <= y
    <3> HIDE DEF S
    <3> QED  BY <2>2, LeastNumber
  <2>4. PICK x \in members : Place[x] = s
    OBVIOUS
  <2>5. \A other \in members : Place[x] <= Place[other]
    BY <2>3, <2>4
  <2> DEFINE least == CHOOSE y \in members : \A other \in members : Place[y] <= Place[other]
  <2>6. least \in members
    BY <2>5
  <2> HIDE DEF least
  <2>7. PICK a \in 0 .. m - 1 : r[e[a]] = least
    BY <2>6
  <2> QED  BY <1>3, <2>7 DEF least, Anchor
<1> QED  BY <1>2, <1>3

\* The position of member j counts from member a.
CountsFrom(r, e, m, a, j) ==
  \E b \in 0 .. m - 1 :
    /\ (j + b) % m = a
    /\ N!ringPosition(r[e[j]]) = [index |-> (m - b) % m, count |-> m]

\* Where a member stands is how far it is from the anchor.
LEMMA Positions ==
    ASSUME Standing, NEW r, NEW n, NEW e, NEW m, Listed(r, n, e, m), Tabled(r, n)
    PROVE  \E a \in 0 .. m - 1 : \A j \in 0 .. m - 1 : CountsFrom(r, e, m, a, j)
<1> DEFINE members == {r[e[l]] : l \in 0 .. m - 1}
<1>1. /\ n \in Nat \ {0} /\ m \in Nat \ {0} /\ m <= 16 /\ N!kMaxRing = 16 /\ RingOf(r, n)
      /\ \A l \in 0 .. m - 1 : e[l] \in 0 .. n - 1
      /\ \A i, k \in 0 .. m - 1 : e[i] = e[k] => i = k
  <2>1. /\ n \in Nat \ {0} /\ m \in Nat \ {0} /\ m <= n /\ n <= 16 /\ N!kMaxRing = 16 /\ RingOf(r, n)
        /\ \A l \in 0 .. m - 1 : e[l] \in 0 .. n - 1
        /\ \A i, k \in 0 .. m - 1 : e[i] = e[k] => i = k
    BY ListedInOrder DEF Listed
  <2>2. m <= 16
    BY <2>1
  <2> QED  BY <2>1, <2>2
<1>2. PICK a \in 0 .. m - 1 : r[e[a]] = Anchor(members)
  <2>1. \A x : x \in members <=> \E l \in 0 .. m - 1 : x = r[e[l]]
    OBVIOUS
  <2> HIDE DEF members
  <2> QED  BY <2>1, AnchorExists
<1>3. m \in Nat \ {0}
  BY <1>1
<1>4. ASSUME NEW j \in 0 .. m - 1
      PROVE  CountsFrom(r, e, m, a, j)
  <2> DEFINE met == N!Forward(r[e[j]])
             at == CHOOSE k \in 1 .. m : met[k] = Anchor(members)
             b == (a - j) % m
  <2>1. Len(met) = m /\ \A k \in 1 .. m : met[k] = r[e[(j + (k - 1)) % m]]
    BY ForwardRound
  <2>2. \A x \in Int : x % m \in 0 .. m - 1
    BY <1>1, Division
  <2>3. b \in 0 .. m - 1 /\ (j + b) % m = a
    BY <1>3, ThereAgain
  <2> HIDE DEF b
  <2>4. \A k \in 1 .. m : k - 1 \in 0 .. m - 1 /\ j + (k - 1) \in Int
    BY <1>1
  <2>5. {met[k] : k \in 1 .. m} = members
    <3>1. ASSUME NEW k \in 1 .. m PROVE met[k] \in members
      <4>1. (j + (k - 1)) % m \in 0 .. m - 1
        BY <2>2, <2>4
      <4> QED  BY <2>1, <4>1
    <3>2. ASSUME NEW l \in 0 .. m - 1 PROVE \E k \in 1 .. m : met[k] = r[e[l]]
      <4> DEFINE k == ((l - j) % m) + 1
      <4>1. (l - j) % m \in 0 .. m - 1 /\ (j + ((l - j) % m)) % m = l
        BY <1>3, ThereAgain
      <4>2. k \in 1 .. m /\ k - 1 = (l - j) % m
        BY <1>3, <4>1
      <4> HIDE DEF k
      <4>3. met[k] = r[e[l]]
        BY <2>1, <4>1, <4>2
      <4> QED  BY <4>2, <4>3
    <3> HIDE DEF met
    <3> QED  BY <3>1, <3>2
  <2>6. met[b + 1] = Anchor(members) /\ b + 1 \in 1 .. m
    <3>1. b + 1 \in 1 .. m /\ j + ((b + 1) - 1) = j + b
      BY <1>1, <2>3
    <3>2. met[b + 1] = r[e[(j + ((b + 1) - 1)) % m]]
      BY <2>1, <3>1
    <3> HIDE DEF met, members
    <3> QED  BY <1>2, <2>3, <3>1, <3>2
  <2>7. at \in 1 .. m /\ met[at] = Anchor(members)
    <3> HIDE DEF met, members
    <3> QED  BY <2>6
  <2> HIDE DEF at
  <2>8. at - 1 = b
    <3>1. r[e[(j + (at - 1)) % m]] = r[e[a]]
      BY <1>2, <2>1, <2>7
    <3>2. (j + (at - 1)) % m \in 0 .. m - 1 /\ at - 1 \in 0 .. m - 1
      BY <2>2, <2>4, <2>7
    <3>3. e[(j + (at - 1)) % m] = e[a]
      BY <1>1, <3>1, <3>2 DEF RingOf
    <3>4. (j + (at - 1)) % m = (j + b) % m
      BY <1>1, <2>3, <3>2, <3>3
    <3> QED  BY <1>1, <2>3, <3>2, <3>4, OneRound
  <2>9. N!ringPosition(r[e[j]]) = [index |-> (m - (at - 1)) % m, count |-> m]
    <3>1. (IF Len(met) > N!kMaxRing THEN N!kMaxRing ELSE Len(met)) = m
      BY <1>1, <2>1
    <3> HIDE DEF members
    <3> QED  BY <2>5, <3>1 DEF N!ringPosition, N!PositionIn, at, Anchor
  <2> QED  BY <2>3, <2>8, <2>9 DEF CountsFrom
<1> QED  BY <1>4

\* Counted down from a member, the next one stands one further on.
LEMMA OneOn ==
    ASSUME NEW m \in Nat \ {0}, NEW j \in 0 .. m - 1, NEW b \in 0 .. m - 1, NEW c \in 0 .. m - 1,
           (j + b) % m = (((j + 1) % m) + c) % m
    PROVE  (m - c) % m = (((m - b) % m) + 1) % m
<1>1. j + 1 \in Int /\ c \in Int /\ (j + 1) + c = j + (c + 1)
  OBVIOUS
<1>2. (j + b) % m = (j + (c + 1)) % m
  BY <1>1, TwoSteps
<1>3. (((m - b) % m) + 1) % m = (m - b + 1) % m
  <2>1. m - b \in Int /\ 1 \in Int
    OBVIOUS
  <2> QED  BY <2>1, TwoSteps
<1>4. CASE c + 1 < m
  <2>1. c + 1 \in 0 .. m - 1
    BY <1>4
  <2>2. b = c + 1
    BY <1>2, <2>1, OneRound
  <2>3. m - b + 1 = m - c
    BY <2>2
  <2> QED  BY <1>3, <2>3
<1>5. CASE ~(c + 1 < m)
  <2>1. c + 1 = m /\ j \in Int /\ j = m * 0 + j /\ j + m = m * 1 + j /\ j + m \in Int
    BY <1>5
  <2>2. (j + m) % m = j
    <3>1. 1 \in Int /\ j + m \in Int /\ j + m = m * 1 + j
      BY <2>1
    <3> QED  BY <3>1, Remainder
  <2>3. 0 \in 0 .. m - 1 /\ j + 0 = j
    BY <2>1
  <2>4. j % m = j
    BY <2>1, Remainder
  <2>5. (j + b) % m = (j + 0) % m
    BY <1>2, <2>1, <2>2, <2>3, <2>4
  <2>6. b = 0
    BY <2>3, <2>5, OneRound
  <2>7. m - b + 1 = m + 1 /\ m - c = 1 /\ m = m * 1 + 0 /\ 1 \in Int /\ 0 + 1 = 1
    BY <2>1, <2>6
  <2>8. m % m = 0
    BY <2>3, <2>7, Remainder
  <2>9. ((m % m) + 1) % m = (m + 1) % m
    BY TwoSteps
  <2> QED  BY <1>3, <2>7, <2>8, <2>9
<1> QED  BY <1>4, <1>5

-----------------------------------------------------------------------------
(* Navigation: DOWN and UP. *)

Declared(id, action) ==
  ScreenOf[id].flows[CHOOSE b \in DOMAIN ScreenOf[id].flows : ScreenOf[id].flows[b][1] = action][2]

After(id)  == N!siblingAfter(id, Declared(id, "page.next"))
Before(id) == N!siblingBefore(id, Declared(id, "page.previous"))

\* The screen a flow declares is one the action leads to.
LEMMA DeclaredLeads ==
    ASSUME NEW id, NEW action, N!Leads(id, action) # {}
    PROVE  Declared(id, action) \in N!Leads(id, action)
<1> DEFINE flows == ScreenOf[id].flows
           b == CHOOSE b \in DOMAIN flows : flows[b][1] = action
<1>1. N!Leads(id, action) = {flows[k][2] : k \in {k \in DOMAIN flows : flows[k][1] = action}}
  BY DEF N!Leads
<1>2. \E k \in DOMAIN flows : flows[k][1] = action
  BY <1>1
<1>3. b \in DOMAIN flows /\ flows[b][1] = action
  BY <1>2
<1>4. Declared(id, action) = flows[b][2]
  BY DEF Declared
<1> HIDE DEF b, flows
<1> QED  BY <1>1, <1>3, <1>4

\* What LevelsWork asks of a page, of the ring it is on.
LEMMA RoundAndBack ==
    ASSUME Standing, NEW r, NEW n, NEW e, NEW m, Listed(r, n, e, m), Tabled(r, n),
           NEW j \in 0 .. m - 1
    PROVE  /\ After(r[e[j]]) = r[e[(j + 1) % m]]
           /\ Before(r[e[j]]) = r[e[(j + (m - 1)) % m]]
<1>1. /\ n \in Nat \ {0} /\ m \in Nat \ {0} /\ RingOf(r, n) /\ e[j] \in 0 .. n - 1
  BY ListedInOrder DEF Listed
<1>2. After(r[e[j]]) = r[e[(j + 1) % m]]
  <2>1. N!Leads(r[e[j]], "page.next") # {}
    BY <1>1 DEF Tabled
  <2> QED  BY <2>1, DeclaredLeads, RootsAreShown, AfterShown DEF After
<1>3. ASSUME N!depth # 0 PROVE N!Leads(r[e[j]], "page.previous") # {}
  <2> DEFINE q == (e[j] + (n - 1)) % n
  <2>1. q \in 0 .. n - 1 /\ (q + 1) % n = e[j]
    BY <1>1, PlaceBefore
  <2>2. Level[r[q]] # 0
    BY <1>1, <1>3, <2>1 DEF RingOf, N!depth
  <2>3. N!Leads(r[(q + 1) % n], "page.previous") = {r[q]}
    <3> HIDE DEF q
    <3> QED  BY <2>1, <2>2 DEF Tabled
  <2> QED  BY <2>1, <2>3
<1>4. Before(r[e[j]]) = r[e[(j + (m - 1)) % m]]
  <2>1. N!depth # 0 => Declared(r[e[j]], "page.previous") \in N!Leads(r[e[j]], "page.previous")
    BY <1>3, DeclaredLeads
  <2> DEFINE declared == Declared(r[e[j]], "page.previous")
             to == r[e[(j + (m - 1)) % m]]
  <2>2. N!depth # 0 => declared \in N!Leads(r[e[j]], "page.previous")
    BY <2>1
  <2> HIDE DEF declared, to
  <2>3. N!siblingBefore(r[e[j]], declared) = to
    BY <2>2, BeforeShown DEF to
  <2> QED  BY <2>3 DEF Before, declared, to
<1> QED  BY <1>2, <1>4

Moved(here, there) ==
  there.count = here.count /\ there.index = (here.index + 1) % here.count

\* On the ring of the screen, DOWN and UP undo one another and the position moves with them.
LEMMA RingWorks ==
    ASSUME Standing, NEW r, NEW n, NEW e, NEW m, Listed(r, n, e, m), Tabled(r, n),
           NEW j \in 0 .. m - 1, NEW id, id = r[e[j]]
    PROVE  /\ N!screenVisible(After(id)) /\ N!screenVisible(Before(id))
           /\ Before(After(id)) = id /\ After(Before(id)) = id
           /\ Moved(N!ringPosition(id), N!ringPosition(After(id)))
<1>1. /\ m \in Nat \ {0} /\ j \in Int /\ m - 1 \in Int /\ 1 \in Int
      /\ \A i \in 0 .. m - 1 : N!screenVisible(r[e[i]])
  BY ListedInOrder
<1> DEFINE a == (j + 1) % m
           b == (j + (m - 1)) % m
<1>2. a \in 0 .. m - 1 /\ b \in 0 .. m - 1
  <2>1. j + 1 \in Int /\ j + (m - 1) \in Int
    BY <1>1
  <2> QED  BY <1>1, <2>1, Division
<1>3. (a + (m - 1)) % m = j /\ (b + 1) % m = j
  <2>1. (b + 1) % m = j
    BY <1>1, PlaceBefore
  <2>2. j + 1 \in Int /\ (j + 1) + (m - 1) = m * 1 + j /\ m * 1 + j \in Int
    BY <1>1
  <2>3. (m * 1 + j) % m = j
    BY <1>1, <2>2, Remainder
  <2>4. (a + (m - 1)) % m = ((j + 1) + (m - 1)) % m
    BY <1>1, <2>2, TwoSteps
  <2> HIDE DEF a, b
  <2> QED  BY <2>1, <2>2, <2>3, <2>4
<1>4. After(id) = r[e[a]] /\ Before(id) = r[e[b]]
  BY RoundAndBack
<1>5. PICK c \in 0 .. m - 1 : \A i \in 0 .. m - 1 : CountsFrom(r, e, m, c, i)
  BY Positions
<1> HIDE DEF a, b
<1>6. Before(r[e[a]]) = id /\ After(r[e[b]]) = id
  <2>1. Before(r[e[a]]) = r[e[(a + (m - 1)) % m]]
    BY <1>2, RoundAndBack
  <2>2. After(r[e[b]]) = r[e[(b + 1) % m]]
    BY <1>2, RoundAndBack
  <2> QED  BY <1>3, <2>1, <2>2
<1>7. Moved(N!ringPosition(r[e[j]]), N!ringPosition(r[e[a]]))
  <2>1. PICK k \in 0 .. m - 1 :
          /\ (j + k) % m = c
          /\ N!ringPosition(r[e[j]]) = [index |-> (m - k) % m, count |-> m]
    BY <1>5 DEF CountsFrom
  <2>2. PICK l \in 0 .. m - 1 :
          /\ (a + l) % m = c
          /\ N!ringPosition(r[e[a]]) = [index |-> (m - l) % m, count |-> m]
    BY <1>2, <1>5 DEF CountsFrom
  <2>3. (m - l) % m = (((m - k) % m) + 1) % m
    <3>1. (j + k) % m = (((j + 1) % m) + l) % m
      BY <2>1, <2>2 DEF a
    <3> QED  BY <1>1, <3>1, OneOn
  <2> QED  BY <2>1, <2>2, <2>3 DEF Moved
<1> QED  BY <1>1, <1>2, <1>4, <1>6, <1>7

\* Every page with a next one is on such a ring.
LEMMA LevelWorks ==
    ASSUME Standing, N!screenVisible(current), N!Flows("page.next") # {}
    PROVE  /\ N!screenVisible(After(current)) /\ N!screenVisible(Before(current))
           /\ Before(After(current)) = current /\ After(Before(current)) = current
           /\ Moved(N!ringPosition(current), N!ringPosition(After(current)))
<1>1. PICK r, n : RingOf(r, n) /\ Tabled(r, n) /\ \E p \in 0 .. n - 1 : r[p] = current
  BY RingExists DEF N!Flows
<1>2. n \in Nat
  BY <1>1 DEF RingOf, N!kMaxRing
<1>3. PICK m \in 0 .. n : \E e : Lists(e, m, Shown(r, n))
  <2>1. Shown(r, n) \subseteq 0 .. n - 1
    BY DEF Shown
  <2> QED  BY <1>2, <2>1, Ascending
<1>4. PICK e : Lists(e, m, Shown(r, n))
  BY <1>3
<1>5. PICK p \in 0 .. n - 1 : r[p] = current
  BY <1>1
<1>6. PICK j \in 0 .. m - 1 : e[j] = p
  BY <1>4, <1>5 DEF Lists, Shown
<1>7. Listed(r, n, e, m)
  <2>1. m \in 1 .. n
    BY <1>2, <1>6
  <2> QED  BY <1>1, <1>4, <2>1 DEF Listed
<1>8. current = r[e[j]]
  BY <1>5, <1>6
<1> QED  BY <1>1, <1>7, <1>8, RingWorks

\* Wherever the operator stands, the level works as a ring.
LEMMA LevelsStand == Standing => N!LevelsWork
<1> SUFFICES ASSUME Standing, N!screenVisible(current), N!Flows("page.next") # {}
             PROVE  /\ N!screenVisible(After(current)) /\ N!screenVisible(Before(current))
                    /\ Before(After(current)) = current /\ After(Before(current)) = current
                    /\ Moved(N!ringPosition(current), N!ringPosition(After(current)))
                    /\ N!Flows("nav.descend") # {} => N!depth < N!kMaxDepth
  BY DEF N!LevelsWork, After, Before, Moved, Declared
<1>1. N!Flows("nav.descend") # {} => N!depth < N!kMaxDepth
  <2> SUFFICES ASSUME NEW to \in N!Leads(current, "nav.descend") PROVE N!depth < N!kMaxDepth
    BY DEF N!Flows
  <2>1. Len(stack) \in Nat /\ Deepest \in 1 .. Deepest /\ Trail(Deepest) = current
    BY DEF Standing, Deepest, Trail
  <2>2. current \in Pages /\ Level[current] = Len(stack)
    BY <2>1 DEF Standing, Places, Deepest
  <2>3. Level[to] = Len(stack) + 1 /\ Level[to] \in 0 .. N!kMaxDepth
    BY <2>2, MenuLevels
  <2> QED  BY <2>1, <2>3 DEF N!depth, N!kMaxDepth
<1> QED  BY <1>1, LevelWorks

-----------------------------------------------------------------------------
(* Navigation: what a page says. *)

\* What PageShowsItsOwn asks of every text a value can be given.
Fine(texts) ==
  \A text \in texts :
    /\ text[1] # "no sensor" /\ text \notin N!Says({N!Unknown})
    /\ text[1] = "sensor" => \E k \in 1 .. N!depth : stack[k] = N!SensorIds[text[2]]
    /\ ScreenOf[current].forms = {N!Formula} => text \notin N!Says({N!NotApplicable})

Tagged == {"no sensor", "sensor", "text"}

\* Texts of a kind of their own are none of the marks, and of no sensor.
LEMMA PlainIsFine ==
    ASSUME NEW texts, NEW head, head \notin Tagged, \A text \in texts : text[1] = head
    PROVE  Fine(texts)
<1>1. \A words : <<"text", words>>[1] = "text"
  OBVIOUS
<1> QED  BY <1>1 DEF Fine, Tagged, N!Says

\* Words are fine when they are not the two marks.
LEMMA WordsAreFine ==
    ASSUME NEW texts, N!Unknown \notin texts,
           ScreenOf[current].forms = {N!Formula} => N!NotApplicable \notin texts
    PROVE  Fine(N!Says(texts))
<1> SUFFICES ASSUME NEW words \in texts
             PROVE  /\ <<"text", words>>[1] # "no sensor" /\ <<"text", words>> \notin N!Says({N!Unknown})
                    /\ <<"text", words>>[1] # "sensor"
                    /\ ScreenOf[current].forms = {N!Formula} =>
                         <<"text", words>> \notin N!Says({N!NotApplicable})
  BY DEF Fine, N!Says
<1>1. \A other : <<"text", words>> = <<"text", other>> => words = other
  <2> SUFFICES ASSUME NEW other, <<"text", words>> = <<"text", other>> PROVE words = other
    OBVIOUS
  <2>1. <<"text", words>>[2] = words /\ <<"text", other>>[2] = other
    OBVIOUS
  <2> QED  BY <2>1
<1>2. <<"text", words>>[1] = "text"
  OBVIOUS
<1> QED  BY <1>1, <1>2 DEF N!Says

\* Either of two answers is fine where both are.
LEMMA FineTogether ==
    ASSUME NEW A, NEW B, Fine(A), Fine(B)
    PROVE  Fine(A \cup B)
  BY DEF Fine

\* A reading is there, and fine.
LEMMA ReadingIsFine ==
    ASSUME NEW name
    PROVE  Fine(N!Reading(name)) /\ N!Reading(name) # {}
<1>1. \A text \in N!Reading(name) : text[1] = "reading"
  BY DEF N!Reading
<1>2. "reading" \notin Tagged
  BY DEF Tagged
<1> QED  BY <1>1, <1>2, PlainIsFine DEF N!Reading

\* Words that are neither of the two marks.
LEMMA OtherWordsAreFine ==
    ASSUME NEW texts, N!Unknown \notin texts, N!NotApplicable \notin texts
    PROVE  Fine(N!Says(texts))
  BY WordsAreFine

\* No answer says nothing wrong.
LEMMA NoneIsFine == Fine({})
  BY DEF Fine

-----------------------------------------------------------------------------

\* The resolvers one by one; the signal is not bound where only a formula shows the screen.
LEMMA NetworkFine ==
    ASSUME NEW name, name = "net.wifi.rssi" => ScreenOf[current].forms # {N!Formula}
    PROVE  Fine(N!resolveNetworkBinding(name))
<1>1. /\ Fine(N!Reading(name)) /\ Fine({})
  BY ReadingIsFine, NoneIsFine
<1>2. Fine(N!Says({"---"})) /\ Fine(N!Says({"(not set)"})) /\ Fine(N!Says({"(inactive)"}))
  BY OtherWordsAreFine DEF N!Unknown, N!NotApplicable
<1>3. name = "net.wifi.rssi" => Fine(N!Says({N!NotApplicable}))
  BY WordsAreFine DEF N!Unknown, N!NotApplicable
<1>4. /\ Fine(N!Reading(name) \cup N!Says({"---"}))
      /\ Fine(N!Reading(name) \cup N!Says({"(not set)"}))
      /\ Fine(N!Reading(name) \cup N!Says({"(inactive)"}))
      /\ name = "net.wifi.rssi" => Fine(N!Reading(name) \cup N!Says({N!NotApplicable}))
  BY <1>1, <1>2, <1>3, FineTogether
<1> QED  BY <1>1, <1>4 DEF N!resolveNetworkBinding

\* The title and the position of a page.
LEMMA PageFine ==
    ASSUME NEW at, NEW name
    PROVE  Fine(N!resolvePageBinding(at, name))
<1>1. \A a : Fine({<<"level", a>>})
  <2>1. \A a : \A text \in {<<"level", a>>} : text[1] = "level"
    OBVIOUS
  <2>2. "level" \notin Tagged
    BY DEF Tagged
  <2> QED  BY <2>1, <2>2, PlainIsFine
<1>2. \A a, b, c : Fine({<<"position", a, b, c>>})
  <2>1. \A a, b, c : \A text \in {<<"position", a, b, c>>} : text[1] = "position"
    OBVIOUS
  <2>2. "position" \notin Tagged
    BY DEF Tagged
  <2> QED  BY <2>1, <2>2, PlainIsFine
<1> QED  BY <1>1, <1>2, ReadingIsFine, NoneIsFine DEF N!resolvePageBinding

\* The totals, the session, the peak and the verdict.
LEMMA TelemetryFine ==
    ASSUME NEW name
    PROVE  Fine(N!resolveTelemetryBinding(name))
<1>1. Fine(N!SessionStart)
  <2>1. Fine(N!Says({"AWAITING CLOCK", "CLOCK UNSET", "UNKNOWN"}))
    BY OtherWordsAreFine DEF N!Unknown, N!NotApplicable
  <2> QED  BY <2>1, ReadingIsFine, FineTogether DEF N!SessionStart
<1>2. Fine(N!MaxFlow)
  <2>1. Fine(N!Says({"Max Flow: --", "Max Flow: 0.00"}))
    BY OtherWordsAreFine DEF N!Unknown, N!NotApplicable
  <2>2. \A text \in {<<"peak", n>> : n \in N!Sensors} : text[1] = "peak"
    OBVIOUS
  <2>3. "peak" \notin Tagged
    BY DEF Tagged
  <2> QED  BY <2>1, <2>2, <2>3, PlainIsFine, FineTogether DEF N!MaxFlow
<1>3. Fine(N!Status)
  <2> DEFINE Both  == {<<"uncalibrated-and-warned", u, w>> : u \in N!Sensors, w \in N!Sensors}
             First == {<<"uncalibrated", u>> : u \in N!Sensors}
             Other == {<<"warned", w>> : w \in N!Sensors}
  <2>1. Fine(N!Says({"No channels in use", "All sensors ready"}))
    BY OtherWordsAreFine DEF N!Unknown, N!NotApplicable
  <2>2. \A text \in Both : text[1] = "uncalibrated-and-warned"
    OBVIOUS
  <2>3. \A text \in First : text[1] = "uncalibrated"
    OBVIOUS
  <2>4. \A text \in Other : text[1] = "warned"
    OBVIOUS
  <2>5. N!Status = N!Says({"No channels in use", "All sensors ready"}) \cup Both \cup First \cup Other
    BY DEF N!Status
  <2>6. "uncalibrated-and-warned" \notin Tagged /\ "uncalibrated" \notin Tagged /\ "warned" \notin Tagged
    BY DEF Tagged
  <2> HIDE DEF Both, First, Other
  <2>7. Fine(Both) /\ Fine(First) /\ Fine(Other)
    BY <2>2, <2>3, <2>4, <2>6, PlainIsFine
  <2>8. Fine(N!Says({"No channels in use", "All sensors ready"}) \cup Both)
    BY <2>1, <2>7, FineTogether
  <2>9. Fine(N!Says({"No channels in use", "All sensors ready"}) \cup Both \cup First)
    BY <2>7, <2>8, FineTogether
  <2> QED  BY <2>5, <2>7, <2>9, FineTogether
<1> QED  BY <1>1, <1>2, <1>3, ReadingIsFine, NoneIsFine DEF N!resolveTelemetryBinding

\* The legend, the diagnostics and the countdown.
LEMMA OthersFine ==
    ASSUME NEW at, NEW name
    PROVE  /\ Fine(N!resolveLegendBinding(name)) /\ Fine(N!resolveDiagnosticsBinding(name))
           /\ Fine(N!resolveCountdownBinding(at, name))
<1>1. Fine(N!Says({"OK"})) /\ Fine(N!Says({"Release to cancel"})) /\ Fine(N!Says({""}))
  BY OtherWordsAreFine DEF N!Unknown, N!NotApplicable
<1>2. Fine(N!Reading(name)) /\ Fine({}) /\ Fine(N!Reading(name) \cup N!Says({"OK"}))
  BY <1>1, ReadingIsFine, NoneIsFine, FineTogether
<1>3. Fine(N!Says({IF at.counting THEN "Release to cancel" ELSE ""}))
  BY <1>1
<1> QED
  BY <1>2, <1>3 DEF N!resolveLegendBinding, N!resolveDiagnosticsBinding, N!resolveCountdownBinding

-----------------------------------------------------------------------------

\* What PageShowsItsOwn supposes of where the operator stands.
Situated(at) ==
  /\ at.screen = ScreenOf[current] /\ at.sensor = sensorIndex /\ at.form = N!Calibration
  /\ at.editing = editing /\ at.prompt = prompt
  /\ at.counting <=> "hold" \in DOMAIN ScreenOf[current].flows
  /\ at.channel \in {"off", "unset", "ready"}

\* A sensor's values are bound where one is chosen.
Chosen(name) ==
  /\ name = "net.wifi.rssi" => ScreenOf[current].forms # {N!Formula}
  /\ name \in N!OfTheSensor => current \in SensorScreens
  /\ name \in N!OfItsFormula /\ ScreenOf[current].forms = {N!Formula} => current \in SensorScreens

\* On a screen of a sensor's menu the sensor is known, and the screen it was entered from.
LEMMA SensorIsChosen ==
    ASSUME Standing, current \in SensorScreens
    PROVE  sensorIndex \in N!Sensors /\ \E k \in 1 .. N!depth : stack[k] = N!SensorIds[sensorIndex]
<1>1. Len(stack) \in Nat /\ Deepest \in 1 .. Deepest /\ Trail(Deepest) = current
      /\ Deepest - 1 = N!depth /\ N!depth = Len(stack)
  BY DEF Standing, Deepest, Trail, N!depth
<1>2. SensorKnown(Deepest)
  BY <1>1 DEF Standing
<1>3. sensorIndex \in N!Sensors
      /\ \E j \in 1 .. Deepest - 1 : Trail(j) = N!SensorIds[sensorIndex]
  BY <1>1, <1>2 DEF SensorKnown
<1>4. \A j \in 1 .. Len(stack) : Trail(j) = stack[j]
  BY <1>1 DEF Trail
<1> QED  BY <1>1, <1>3, <1>4

\* What the configuration says, row by row.
LEMMA ConfigAnswers ==
    ASSUME NEW at, NEW name
    PROVE  LET answer == N!resolveConfigBinding(at, name)
           IN  /\ name = "config.title" => answer = N!Says({"Configuration", "Config Preview"})
               /\ name = "config.editor.pending" =>
                    answer = IF at.editing = N!None THEN {} ELSE {<<"pending", at.editing>>}
               /\ name = "config.editor.range" =>
                    /\ at.editing # N!None => answer = N!formatSettingRange(at.editing)
                    /\ \E of : answer = IF of = N!None THEN N!Says({""}) ELSE N!formatSettingRange(of)
               /\ name = "config.selectedSensor" =>
                    answer = IF at.sensor = 0 THEN N!Says({N!Unknown}) ELSE {<<"sensor", at.sensor>>}
               /\ name = "config.uartFrameSummary" => answer = N!Reading(name)
               /\ name \in N!OfItsFormula => answer = N!FormulaTerm(at, name)
               /\ name = "config.sensor.undersamplingFlag" =>
                    answer = N!Says(IF at.sensor = 0 THEN {N!Unknown} ELSE {"WARN", "OK"})
               /\ name = "config.sensor.nyquistWarning" => answer = N!Says({N!Asked[at.prompt]})
               /\ name \in N!TextSettings =>
                    answer = {<<"stored", name>>} \cup N!Says({"(not set)", "********"})
               /\ name \in N!Settings \ N!TextSettings => answer = {N!readSetting(name, at.sensor)}
<1> DEFINE answer == N!resolveConfigBinding(at, name)
           Others == {"config.title", "config.editor.pending", "config.editor.range",
                      "config.selectedSensor", "config.uartFrameSummary",
                      "config.sensor.undersamplingFlag", "config.sensor.nyquistWarning"}
<1>1. name \in Others \cup N!OfItsFormula => name \notin N!Settings /\ name \notin N!TextSettings
  BY DEF N!Settings, N!SensorSettings, N!TextSettings, N!OfItsFormula
<1>2. name = "config.title" => answer = N!Says({"Configuration", "Config Preview"})
  BY <1>1 DEF N!resolveConfigBinding
<1>3. name = "config.editor.pending" =>
        answer = IF at.editing = N!None THEN {} ELSE {<<"pending", at.editing>>}
  BY <1>1 DEF N!resolveConfigBinding
<1>4. name = "config.editor.range" =>
        /\ at.editing # N!None => answer = N!formatSettingRange(at.editing)
        /\ \E of : answer = IF of = N!None THEN N!Says({""}) ELSE N!formatSettingRange(of)
  BY <1>1 DEF N!resolveConfigBinding
<1>5. name = "config.selectedSensor" =>
        answer = IF at.sensor = 0 THEN N!Says({N!Unknown}) ELSE {<<"sensor", at.sensor>>}
  BY <1>1 DEF N!resolveConfigBinding
<1>6. name = "config.uartFrameSummary" => answer = N!Reading(name)
  BY <1>1 DEF N!resolveConfigBinding
<1>7. name \in N!OfItsFormula => answer = N!FormulaTerm(at, name)
  BY <1>1 DEF N!resolveConfigBinding, N!OfItsFormula
<1>8. name = "config.sensor.undersamplingFlag" =>
        answer = N!Says(IF at.sensor = 0 THEN {N!Unknown} ELSE {"WARN", "OK"})
  BY <1>1 DEF N!resolveConfigBinding
<1>9. name = "config.sensor.nyquistWarning" => answer = N!Says({N!Asked[at.prompt]})
  BY <1>1 DEF N!resolveConfigBinding
<1>10. name \in N!TextSettings =>
         answer = {<<"stored", name>>} \cup N!Says({"(not set)", "********"})
  BY DEF N!resolveConfigBinding, N!TextSettings
<1>11. name \in N!Settings \ N!TextSettings => answer = {N!readSetting(name, at.sensor)}
  BY DEF N!resolveConfigBinding, N!Settings, N!SensorSettings, N!TextSettings
<1> QED
  BY <1>2, <1>3, <1>4, <1>5, <1>6, <1>7, <1>8, <1>9, <1>10, <1>11

\* The configuration, for the sensor that is chosen.
LEMMA ConfigFine ==
    ASSUME Standing, N!screenVisible(current), NEW at, Situated(at), NEW name, Chosen(name)
    PROVE  Fine(N!resolveConfigBinding(at, name))
<1>1. current \in SensorScreens => /\ sensorIndex # 0
                                   /\ \E k \in 1 .. N!depth : stack[k] = N!SensorIds[sensorIndex]
  BY SensorIsChosen DEF N!Sensors
<1>2. Fine({}) /\ Fine(N!Reading(name))
  BY NoneIsFine, ReadingIsFine
<1>3. \A of : Fine({<<"pending", of>>}) /\ Fine({<<"range", of>>}) /\ Fine({<<"value", of>>})
              /\ Fine({<<"stored", of>>})
  <2> SUFFICES ASSUME NEW of
               PROVE  Fine({<<"pending", of>>}) /\ Fine({<<"range", of>>}) /\ Fine({<<"value", of>>})
                      /\ Fine({<<"stored", of>>})
    OBVIOUS
  <2>1. "pending" \notin Tagged /\ "range" \notin Tagged /\ "value" \notin Tagged /\ "stored" \notin Tagged
    BY DEF Tagged
  <2>2. /\ \A text \in {<<"pending", of>>} : text[1] = "pending"
        /\ \A text \in {<<"range", of>>} : text[1] = "range"
        /\ \A text \in {<<"value", of>>} : text[1] = "value"
        /\ \A text \in {<<"stored", of>>} : text[1] = "stored"
    OBVIOUS
  <2> QED  BY <2>1, <2>2, PlainIsFine
<1>4. CASE name = "config.title"
  <2>1. Fine(N!Says({"Configuration", "Config Preview"}))
    BY OtherWordsAreFine DEF N!Unknown, N!NotApplicable
  <2> QED  BY <1>4, <2>1, ConfigAnswers
<1>5. CASE name = "config.editor.pending"
  BY <1>2, <1>3, <1>5, ConfigAnswers
<1>6. CASE name = "config.editor.range"
  <2>1. Fine(N!Says({""}))
    BY OtherWordsAreFine DEF N!Unknown, N!NotApplicable
  <2>2. \A of : Fine(N!formatSettingRange(of))
    BY <1>3, <2>1 DEF N!formatSettingRange
  <2>3. PICK of : N!resolveConfigBinding(at, name) =
                    IF of = N!None THEN N!Says({""}) ELSE N!formatSettingRange(of)
    BY <1>6, ConfigAnswers
  <2> QED  BY <2>1, <2>2, <2>3
<1>7. CASE name = "config.selectedSensor"
  <2>1. current \in SensorScreens /\ at.sensor = sensorIndex
    BY <1>7 DEF Chosen, N!OfTheSensor, Situated
  <2>2. N!resolveConfigBinding(at, name) = {<<"sensor", sensorIndex>>}
    BY <1>1, <1>7, <2>1, ConfigAnswers
  <2>3. <<"sensor", sensorIndex>>[1] = "sensor" /\ <<"sensor", sensorIndex>>[2] = sensorIndex
    OBVIOUS
  <2>4. \A words : <<"text", words>>[1] = "text"
    OBVIOUS
  <2>5. Fine({<<"sensor", sensorIndex>>})
    BY <1>1, <2>1, <2>3, <2>4 DEF Fine, N!Says
  <2> QED  BY <2>2, <2>5
<1>8. CASE name = "config.uartFrameSummary"
  BY <1>2, <1>8, ConfigAnswers
<1>9. CASE name \in N!OfItsFormula
  <2>1. N!resolveConfigBinding(at, name) = N!FormulaTerm(at, name)
    BY <1>9, ConfigAnswers
  <2>2. CASE ScreenOf[current].forms # {N!Formula}
    <3>1. Fine(N!Says({N!NotApplicable}))
      BY <2>2, WordsAreFine DEF N!Unknown, N!NotApplicable
    <3> QED  BY <1>2, <2>1, <3>1 DEF N!FormulaTerm
  <2>3. CASE ScreenOf[current].forms = {N!Formula}
    <3>1. N!Calibration = N!Formula
      BY <2>3 DEF N!screenVisible
    <3>2. current \in SensorScreens
      BY <1>9, <2>3 DEF Chosen
    <3>3. at.sensor # 0 /\ at.form = N!Formula
      BY <1>1, <3>1, <3>2 DEF Situated
    <3> QED  BY <1>2, <2>1, <3>3 DEF N!FormulaTerm
  <2> QED  BY <2>2, <2>3
<1>10. CASE name = "config.sensor.undersamplingFlag"
  <2>1. at.sensor # 0
    BY <1>1, <1>10 DEF Chosen, N!OfTheSensor, Situated
  <2>2. Fine(N!Says({"WARN", "OK"}))
    BY OtherWordsAreFine DEF N!Unknown, N!NotApplicable
  <2> QED  BY <1>10, <2>1, <2>2, ConfigAnswers
<1>11. CASE name = "config.sensor.nyquistWarning"
  <2>1. Fine(N!Says({""})) /\ Fine(N!Says({"Write refused. UP=Back"}))
        /\ Fine(N!Says({"Sampling too slow. UP=Edit DOWN=Save anyway"}))
    BY OtherWordsAreFine DEF N!Unknown, N!NotApplicable
  <2>2. at.prompt \in {"none", "failed", "nyquist"}
    BY DEF Situated, Standing, N!Asked
  <2>3. /\ N!Asked["none"] = "" /\ N!Asked["failed"] = "Write refused. UP=Back"
        /\ N!Asked["nyquist"] = "Sampling too slow. UP=Edit DOWN=Save anyway"
    BY DEF N!Asked
  <2>4. Fine(N!Says({N!Asked[at.prompt]}))
    BY <2>1, <2>2, <2>3
  <2> QED  BY <1>11, <2>4, ConfigAnswers
<1>12. CASE name \in N!TextSettings
  <2>1. Fine(N!Says({"(not set)", "********"}))
    BY OtherWordsAreFine DEF N!Unknown, N!NotApplicable
  <2>2. Fine({<<"stored", name>>} \cup N!Says({"(not set)", "********"}))
    BY <1>3, <2>1, FineTogether
  <2> QED  BY <1>12, <2>2, ConfigAnswers
<1>13. CASE name \in N!Settings \ N!TextSettings
  <2>1. N!readSetting(name, at.sensor) = <<"value", name>>
    <3>1. name \in N!SensorSettings => at.sensor # 0
      BY <1>1 DEF Chosen, N!OfTheSensor, Situated
    <3> QED  BY <3>1 DEF N!readSetting
  <2>2. N!resolveConfigBinding(at, name) = {N!readSetting(name, at.sensor)}
    BY <1>13, ConfigAnswers
  <2> QED  BY <1>3, <2>1, <2>2
<1>14. CASE /\ name \notin {"config.title", "config.editor.pending", "config.editor.range",
                            "config.selectedSensor", "config.uartFrameSummary",
                            "config.sensor.undersamplingFlag", "config.sensor.nyquistWarning"}
            /\ name \notin N!OfItsFormula /\ name \notin N!Settings /\ name \notin N!TextSettings
  BY <1>2, <1>14 DEF N!resolveConfigBinding, N!OfItsFormula
<1> QED
  BY <1>4, <1>5, <1>6, <1>7, <1>8, <1>9, <1>10, <1>11, <1>12, <1>13, <1>14

\* An answer with words in it is an answer.
LEMMA SomethingSaid ==
  /\ \A name : N!Reading(name) # {}
  /\ \A words : N!Says({words}) # {}
  /\ \A texts, more : texts # {} => N!Says(texts) # {} /\ more \cup texts # {} /\ texts \cup more # {}
<1>1. \A name : N!Reading(name) # {}
  BY DEF N!Reading
<1>2. ASSUME NEW texts, NEW words \in texts
      PROVE  N!Says(texts) # {}
  BY <1>2 DEF N!Says
<1>3. \A words : N!Says({words}) # {}
  BY <1>2
<1> QED  BY <1>1, <1>2, <1>3

\* A row of a sensor answers for the channel, whatever its state, and for its own metrics.
LEMMA SensorFine ==
    ASSUME NEW at, at.channel \in {"off", "unset", "ready"}, NEW of \in N!Sensors,
           NEW metric \in N!Metrics \cup {"status"}, ScreenOf[current].forms # {N!Formula}
    PROVE  Fine(N!resolveSensorBinding(at, of, metric)) /\ N!resolveSensorBinding(at, of, metric) # {}
<1> DEFINE answer == N!resolveSensorBinding(at, of, metric)
<1>1. \A words : words # N!Unknown => Fine(N!Says({words})) /\ N!Says({words}) # {}
  <2> SUFFICES ASSUME NEW words, words # N!Unknown
               PROVE  Fine(N!Says({words})) /\ N!Says({words}) # {}
    OBVIOUS
  <2>1. N!Unknown \notin {words}
    OBVIOUS
  <2> QED  BY <2>1, WordsAreFine, SomethingSaid
<1>2. N!Unknown # "--" /\ N!Unknown # "SET?" /\ N!Unknown # "OK" /\ N!Unknown # N!NotApplicable
  BY DEF N!Unknown, N!NotApplicable
<1>3. CASE metric = "status"
  <2>1. [off |-> "--", unset |-> "SET?", ready |-> "OK"][at.channel] # N!Unknown
    BY <1>2
  <2>2. answer = N!Says({[off |-> "--", unset |-> "SET?", ready |-> "OK"][at.channel]})
    BY <1>3 DEF N!resolveSensorBinding, N!Metrics
  <2> QED  BY <1>1, <2>1, <2>2
<1>4. CASE metric # "status" /\ at.channel = "off"
  <2>1. answer = N!Says({N!NotApplicable})
    BY <1>4 DEF N!resolveSensorBinding
  <2> QED  BY <1>1, <1>2, <2>1
<1>5. CASE metric # "status" /\ at.channel = "unset"
  <2>1. answer = N!Says({"SET?"})
    BY <1>5 DEF N!resolveSensorBinding
  <2> QED  BY <1>1, <1>2, <2>1
<1>6. CASE metric # "status" /\ at.channel = "ready"
  <2> DEFINE pinned == IF metric = "maxFlowSinceReset" THEN {<<"pinned", metric, of>>} ELSE {}
  <2>1. answer = {<<"measured", metric, of>>} \cup pinned
    BY <1>6 DEF N!resolveSensorBinding
  <2>2. /\ \A text \in {<<"measured", metric, of>>} : text[1] = "measured"
        /\ \A text \in {<<"pinned", metric, of>>} : text[1] = "pinned"
        /\ "measured" \notin Tagged /\ "pinned" \notin Tagged
    BY DEF Tagged
  <2>3. Fine({<<"measured", metric, of>>}) /\ Fine({<<"pinned", metric, of>>})
    BY <2>2, PlainIsFine
  <2>4. Fine(pinned)
    BY <2>3, NoneIsFine
  <2> HIDE DEF pinned
  <2>5. Fine({<<"measured", metric, of>>} \cup pinned)
    BY <2>3, <2>4, FineTogether
  <2> QED  BY <2>1, <2>5
<1> QED  BY <1>3, <1>4, <1>5, <1>6

-----------------------------------------------------------------------------

\* Where a resolver answers, the first that does has the row.
LEMMA FirstAnswers ==
    ASSUME NEW answers, DOMAIN answers = 1 .. 7
    PROVE  /\ N!FirstOf(answers) = {} \/ \E i \in 1 .. 7 : N!FirstOf(answers) = answers[i]
           /\ (\E i \in 1 .. 7 : answers[i] # {}) => N!FirstOf(answers) # {}
<1> DEFINE given == {i \in 1 .. 7 : answers[i] # {}}
           first == CHOOSE i \in given : \A j \in given : i <= j
<1>1. N!FirstOf(answers) = IF given = {} THEN {} ELSE answers[first]
  BY DEF N!FirstOf
<1>2. given # {} => \E i \in given : \A j \in given : i <= j
  <2>1. given \subseteq Nat
    OBVIOUS
  <2> HIDE DEF given
  <2> QED  BY <2>1, LeastNumber
<1>3. given # {} => first \in given
  <2> HIDE DEF given
  <2> QED  BY <1>2
<1>4. given # {} => first \in 1 .. 7 /\ answers[first] # {}
  <2> HIDE DEF first
  <2> QED  BY <1>3
<1> HIDE DEF first
<1> QED  BY <1>1, <1>4

Answers(at, name) ==
  << N!resolveNetworkBinding(name), N!resolvePageBinding(at, name),
     N!resolveTelemetryBinding(name), N!resolveLegendBinding(name),
     N!resolveConfigBinding(at, name), N!resolveDiagnosticsBinding(name),
     N!resolveCountdownBinding(at, name) >>

\* A row answers as soon as one of the resolvers does, and is fine where each of them is.
LEMMA RowFine ==
    ASSUME Standing, N!screenVisible(current), NEW at, Situated(at), NEW binding,
           binding[1] = 0, Chosen(binding[2]),
           \E i \in 1 .. 7 : Answers(at, binding[2])[i] # {}
    PROVE  Fine(N!resolveText(at, binding)) /\ N!resolveText(at, binding) # {}
<1> DEFINE name == binding[2]
<1>1. N!resolveText(at, binding) = N!FirstOf(Answers(at, name))
  BY DEF N!resolveText, Answers
<1>2. DOMAIN Answers(at, name) = 1 .. 7
  BY DEF Answers
<1>3. \A i \in 1 .. 7 : Fine(Answers(at, name)[i])
  <2>1. /\ Fine(N!resolveNetworkBinding(name)) /\ Fine(N!resolvePageBinding(at, name))
        /\ Fine(N!resolveTelemetryBinding(name)) /\ Fine(N!resolveLegendBinding(name))
        /\ Fine(N!resolveConfigBinding(at, name)) /\ Fine(N!resolveDiagnosticsBinding(name))
        /\ Fine(N!resolveCountdownBinding(at, name))
    BY NetworkFine, PageFine, TelemetryFine, ConfigFine, OthersFine DEF Chosen
  <2>2. /\ Fine(Answers(at, name)[1]) /\ Fine(Answers(at, name)[2]) /\ Fine(Answers(at, name)[3])
        /\ Fine(Answers(at, name)[4]) /\ Fine(Answers(at, name)[5]) /\ Fine(Answers(at, name)[6])
        /\ Fine(Answers(at, name)[7])
    BY <2>1 DEF Answers
  <2> QED  BY <2>2
<1> HIDE DEF name
<1>4. N!FirstOf(Answers(at, name)) # {}
  BY <1>2, FirstAnswers DEF name
<1> QED  BY <1>1, <1>2, <1>3, <1>4, FirstAnswers DEF name

\* What a screen may bind where it stands.
Bound(at, name) ==
  \/ name \in N!Anywhere
  \/ name = "net.wifi.rssi" /\ ScreenOf[current].forms # {N!Formula}
  \/ name = "config.editor.pending" /\ at.editing # N!None
  \/ name \in N!OfTheSensor /\ current \in SensorScreens
  \/ name \in N!OfItsFormula /\ (ScreenOf[current].forms = {N!Formula} => current \in SensorScreens)
  \/ name \in {"countdown.title", "countdown.message", "countdown.value"} /\ at.counting

\* What a screen may bind has a resolver that answers.
LEMMA BoundAnswers ==
    ASSUME NEW at, NEW name, Bound(at, name)
    PROVE  \E i \in 1 .. 7 : Answers(at, name)[i] # {}
<1> DEFINE Net   == {"net.status", "net.wifi.state", "net.mqtt.state", "net.mqtt.lastCommandResult",
                     "net.portal.remaining", "net.wifi.ip", "net.ap.ip", "net.wifi.ssid",
                     "net.wifi.rssi", "net.ap.ssid", "net.ap.password"}
           Title == {"page.title", "telemetry.flowUnitLabel", "nav.position"}
           Meter == N!TotalBindings \cup
                      {"telemetry.sessionStart", "telemetry.maxFlowLpm", "telemetry.status"}
           Lamps == {"legend.led", "legend.status", "legend.warning"}
           Texts == {"config.title", "config.editor.range", "config.uartFrameSummary",
                     "config.sensor.nyquistWarning", "config.selectedSensor",
                     "config.sensor.undersamplingFlag"}
           Rates == {"diagnostics.pollingRateKhz", "diagnostics.undersampling"}
           Hold  == {"countdown.title", "countdown.message", "countdown.value"}
<1>1. name \in Net => N!resolveNetworkBinding(name) # {}
  BY SomethingSaid DEF N!resolveNetworkBinding
<1>2. name \in Title => N!resolvePageBinding(at, name) # {}
  BY SomethingSaid DEF N!resolvePageBinding
<1>3. name \in Meter => N!resolveTelemetryBinding(name) # {}
  <2>1. N!SessionStart # {} /\ N!MaxFlow # {} /\ N!Status # {}
    <3>1. /\ N!Says({"AWAITING CLOCK", "CLOCK UNSET", "UNKNOWN"}) # {}
          /\ N!Says({"Max Flow: --", "Max Flow: 0.00"}) # {}
          /\ N!Says({"No channels in use", "All sensors ready"}) # {}
      BY SomethingSaid
    <3>2. /\ N!Says({"AWAITING CLOCK", "CLOCK UNSET", "UNKNOWN"}) \subseteq N!SessionStart
          /\ N!Says({"Max Flow: --", "Max Flow: 0.00"}) \subseteq N!MaxFlow
      BY DEF N!SessionStart, N!MaxFlow
    <3> DEFINE Both == {<<"uncalibrated-and-warned", u, w>> : u \in N!Sensors, w \in N!Sensors}
               First == {<<"uncalibrated", u>> : u \in N!Sensors}
               Other == {<<"warned", w>> : w \in N!Sensors}
    <3>3. N!Status = N!Says({"No channels in use", "All sensors ready"}) \cup Both \cup First \cup Other
      BY DEF N!Status
    <3> HIDE DEF Both, First, Other
    <3>4. N!Says({"No channels in use", "All sensors ready"}) \subseteq N!Status
      BY <3>3
    <3> QED  BY <3>1, <3>2, <3>4
  <2>2. {"telemetry.sessionStart", "telemetry.maxFlowLpm", "telemetry.status"}
          \cap N!TotalBindings = {}
    BY DEF N!TotalBindings
  <2> QED  BY <2>1, <2>2, SomethingSaid DEF N!resolveTelemetryBinding
<1>4. name \in Lamps => N!resolveLegendBinding(name) # {}
  BY SomethingSaid DEF N!resolveLegendBinding
<1>5. name \in Texts \cup N!OfItsFormula \cup N!Settings => N!resolveConfigBinding(at, name) # {}
  <2>1. \A of : N!formatSettingRange(of) # {}
    BY SomethingSaid DEF N!formatSettingRange
  <2>2. CASE name = "config.title"
    <3>1. N!Says({"Configuration", "Config Preview"}) # {}
      BY SomethingSaid
    <3> QED  BY <2>2, <3>1, ConfigAnswers
  <2>3. CASE name = "config.uartFrameSummary"
    BY <2>3, SomethingSaid, ConfigAnswers
  <2>4. CASE name = "config.sensor.nyquistWarning"
    <3>1. N!Says({N!Asked[at.prompt]}) # {}
      BY SomethingSaid
    <3> QED  BY <2>4, <3>1, ConfigAnswers
  <2>5. CASE name = "config.sensor.undersamplingFlag"
    <3>1. N!Says({"WARN", "OK"}) # {} /\ N!Says({N!Unknown}) # {}
      BY SomethingSaid
    <3>2. N!Says(IF at.sensor = 0 THEN {N!Unknown} ELSE {"WARN", "OK"}) # {}
      BY <3>1
    <3> QED  BY <2>5, <3>2, ConfigAnswers
  <2>6. CASE name = "config.editor.range"
    <3>1. PICK of : N!resolveConfigBinding(at, name) =
                      IF of = N!None THEN N!Says({""}) ELSE N!formatSettingRange(of)
      BY <2>6, ConfigAnswers
    <3> QED  BY <2>1, <3>1, SomethingSaid
  <2>7. CASE name = "config.selectedSensor"
    <3>1. N!Says({N!Unknown}) # {}
      BY SomethingSaid
    <3> QED  BY <2>7, <3>1, ConfigAnswers
  <2>8. CASE name \in N!OfItsFormula
    <3>1. N!FormulaTerm(at, name) # {}
      BY SomethingSaid DEF N!FormulaTerm
    <3> QED  BY <2>8, <3>1, ConfigAnswers
  <2>9. CASE name \in N!TextSettings
    BY <2>9, ConfigAnswers
  <2>10. CASE name \in N!Settings \ N!TextSettings
    BY <2>10, ConfigAnswers
  <2> QED  BY <2>2, <2>3, <2>5, <2>4, <2>6, <2>7, <2>8, <2>9, <2>10
<1>6. name = "config.editor.pending" /\ at.editing # N!None => N!resolveConfigBinding(at, name) # {}
  BY ConfigAnswers
<1>7. name \in Rates => N!resolveDiagnosticsBinding(name) # {}
  BY SomethingSaid DEF N!resolveDiagnosticsBinding
<1>8. name = "countdown.hint" \/ (name \in Hold /\ at.counting) => N!resolveCountdownBinding(at, name) # {}
  BY SomethingSaid DEF N!resolveCountdownBinding
<1>9. \/ name \in Net \/ name \in Title \/ name \in Meter \/ name \in Lamps
      \/ name \in Texts \cup N!OfItsFormula \cup N!Settings
      \/ name = "config.editor.pending" /\ at.editing # N!None
      \/ name \in Rates \/ name = "countdown.hint"
      \/ name \in Hold /\ at.counting
  <2>1. N!Anywhere = (Net \ {"net.wifi.rssi"}) \cup Title \cup Meter \cup Lamps \cup Rates
                       \cup {"config.title", "config.editor.range", "config.uartFrameSummary",
                             "config.sensor.nyquistWarning", "countdown.hint"}
                       \cup (N!Settings \ N!SensorSettings)
    BY DEF N!Anywhere
  <2>2. N!OfTheSensor \subseteq Texts \cup N!Settings
    BY DEF N!OfTheSensor, N!Settings
  <2>3. "net.wifi.rssi" \in Net /\ "config.title" \in Texts /\ "config.editor.range" \in Texts
        /\ "config.uartFrameSummary" \in Texts /\ "config.sensor.nyquistWarning" \in Texts
    OBVIOUS
  <2> HIDE DEF Net, Title, Meter, Lamps, Texts, Rates
  <2>4. name \in N!Anywhere =>
          \/ name \in Net \cup Title \cup Meter \cup Lamps \cup Rates \cup Texts \cup N!Settings
          \/ name = "countdown.hint"
    BY <2>1, <2>3
  <2>5. name = "net.wifi.rssi" => name \in Net
    BY <2>3
  <2>6. name \in N!OfTheSensor => name \in Texts \cup N!Settings
    BY <2>2
  <2> HIDE DEF Hold
  <2>7. {"countdown.title", "countdown.message", "countdown.value"} = Hold
    BY DEF Hold
  <2>8. \/ name \in N!Anywhere \/ name = "net.wifi.rssi"
        \/ name = "config.editor.pending" /\ at.editing # N!None
        \/ name \in N!OfTheSensor \/ name \in N!OfItsFormula
        \/ name \in Hold /\ at.counting
    BY <2>7 DEF Bound
  <2> QED  BY <2>4, <2>5, <2>6, <2>8
<1> HIDE DEF Net, Title, Meter, Lamps, Texts, Rates, Hold
<1> QED  BY <1>1, <1>2, <1>3, <1>4, <1>5, <1>6, <1>7, <1>8, <1>9 DEF Answers

\* What a screen may bind about a sensor has its sensor.
LEMMA BoundIsChosen ==
    ASSUME NEW at, NEW name, Bound(at, name)
    PROVE  Chosen(name)
<1>1. /\ "net.wifi.rssi" \notin N!Anywhere \cup N!OfTheSensor \cup N!OfItsFormula
      /\ N!Anywhere \cap (N!OfTheSensor \cup N!OfItsFormula) = {}
      /\ N!OfTheSensor \cap N!OfItsFormula = {}
      /\ \A other \in {"config.editor.pending", "countdown.title", "countdown.message",
                       "countdown.value"} :
           other \notin N!OfTheSensor \cup N!OfItsFormula /\ other # "net.wifi.rssi"
  BY DEF N!Anywhere, N!OfTheSensor, N!OfItsFormula, N!Settings, N!SensorSettings, N!TextSettings,
         N!TotalBindings
<1> QED  BY <1>1 DEF Bound, Chosen

\* Every row of the screen the operator stands on answers, and about that screen.
LEMMA RowsStand ==
    ASSUME Standing, N!screenVisible(current), NEW at, Situated(at),
           NEW i \in DOMAIN ScreenOf[current].shows
    PROVE  /\ Fine(N!resolveText(at, ScreenOf[current].shows[i]))
           /\ N!resolveText(at, ScreenOf[current].shows[i]) # {}
<1> DEFINE binding == ScreenOf[current].shows[i]
           of   == binding[1]
           name == binding[2]
<1>1. current \in Pages /\ N!Answerable(ScreenOf[current], current \in SensorScreens)
  BY MenuSensors DEF Standing
<1>2. at.editing = N!EditedBy(ScreenOf[current])
  BY DEF Situated, Standing, EditorFits, EditorOf
<1>3. \/ of \in N!Sensors /\ name \in N!Metrics \cup {"status"} /\ ScreenOf[current].forms # {N!Formula}
      \/ of = 0 /\ Bound(at, name)
  BY <1>1, <1>2 DEF N!Answerable, Bound, Situated
<1> HIDE DEF binding
<1>4. CASE of \in N!Sensors /\ name \in N!Metrics \cup {"status"} /\ ScreenOf[current].forms # {N!Formula}
  <2>1. of # 0 /\ N!resolveText(at, binding) = N!resolveSensorBinding(at, of, name)
    BY <1>4 DEF N!resolveText, N!Sensors
  <2> QED  BY <1>4, <2>1, SensorFine DEF Situated, binding
<1>5. CASE of = 0 /\ Bound(at, name)
  <2> HIDE DEF of, name
  <2>1. Chosen(name) /\ \E k \in 1 .. 7 : Answers(at, name)[k] # {}
    BY <1>5, BoundAnswers, BoundIsChosen
  <2>2. Fine(N!resolveText(at, binding)) /\ N!resolveText(at, binding) # {}
    BY <1>5, <2>1, RowFine DEF of, name
  <2> QED  BY <2>2 DEF binding
<1> QED  BY <1>3, <1>4, <1>5

\* An editor, its range and the page it returns to are about one setting.
LEMMA EditorStands ==
    ASSUME Standing, editing # N!None, NEW at, Situated(at)
    PROVE  /\ N!SettingOf(ScreenOf[current]) = editing
           /\ N!SettingOf(ScreenOf[stack[N!depth]]) = editing
           /\ N!resolveConfigBinding(at, "config.editor.range") = {<<"range", editing>>}
<1>1. current \in Pages /\ editing = N!EditedBy(ScreenOf[current])
      /\ N!SettingOf(ScreenOf[stack[Len(stack)]]) = editing
  BY DEF Standing, EditorFits, EditorOf
<1>2. editing \notin N!TextSettings
  BY <1>1, MenuEditors DEF EditorOf
<1>3. N!resolveConfigBinding(at, "config.editor.range") = N!formatSettingRange(editing)
  BY ConfigAnswers DEF Situated
<1> QED  BY <1>1, <1>2, <1>3 DEF N!EditedBy, N!depth, N!formatSettingRange

\* Wherever the operator stands, the page shows its own.
LEMMA PagesStand == Standing => N!PageShowsItsOwn
<1> SUFFICES ASSUME Standing, N!screenVisible(current), NEW channel \in {"off", "unset", "ready"},
                    NEW at,
                    at = [screen |-> ScreenOf[current], sensor |-> sensorIndex,
                          form |-> N!Calibration, depth |-> N!depth,
                          ring |-> N!ringPosition(current), editing |-> editing, prompt |-> prompt,
                          counting |-> "hold" \in DOMAIN ScreenOf[current].flows,
                          channel |-> channel]
             PROVE  /\ \A i \in DOMAIN ScreenOf[current].shows :
                         LET texts == N!resolveText(at, ScreenOf[current].shows[i])
                         IN  texts # {} /\ Fine(texts)
                    /\ editing # N!None =>
                         /\ N!SettingOf(ScreenOf[current]) = editing
                         /\ N!SettingOf(ScreenOf[stack[N!depth]]) = editing
                         /\ N!resolveConfigBinding(at, "config.editor.range") = {<<"range", editing>>}
  BY DEF N!PageShowsItsOwn, Fine
<1>1. Situated(at)
  BY DEF Situated
<1> QED  BY <1>1, RowsStand, EditorStands

-----------------------------------------------------------------------------
(* The navigation as a whole. *)

\* The operator stands somewhere in the menu, on levels that work, before pages that show their
\* own, for any set of sensors whose calibration form is ever changed.
LEMMA NavigationKeeps ==
    N!Init /\ [][N!Next]_(N!vars) => [](N!TypeOK /\ N!LevelsWork /\ N!PageShowsItsOwn)
<1>1. Standing /\ [N!Next]_(N!vars) => Standing'
  BY NextStanding
<1>2. Standing => N!TypeOK /\ N!LevelsWork /\ N!PageShowsItsOwn
  BY StandingTyped, LevelsStand, PagesStand
<1> QED
  BY InitStanding, <1>1, <1>2, PTL

-----------------------------------------------------------------------------
(* The device. *)

\* What the device does is, to each part, a step of its own or nothing.
LEMMA PartsPlay ==
    [Next]_deviceVars => /\ [W!Next]_(W!wifiVars) /\ [P!Next]_(P!portalVars)
                         /\ [C!Next]_(C!cmdVars) /\ [K!Next]_(K!cardVars) /\ [N!Next]_(N!vars)
<1> SUFFICES ASSUME [Next]_deviceVars
             PROVE  /\ [W!Next]_(W!wifiVars) /\ [P!Next]_(P!portalVars)
                    /\ [C!Next]_(C!cmdVars) /\ [K!Next]_(K!cardVars) /\ [N!Next]_(N!vars)
  OBVIOUS
<1>1. UNCHANGED wifi => UNCHANGED W!wifiVars
  BY DEF wifi, W!wifiVars, W!settings, W!manager, W!clock
<1>2. UNCHANGED httpRequest => UNCHANGED P!portalVars
  BY DEF httpRequest, P!portalVars, P!buffer
<1>3. UNCHANGED command => UNCHANGED C!cmdVars
  BY DEF command, C!cmdVars, C!esp, C!router, C!wall, C!session
<1>4. UNCHANGED menu => UNCHANGED K!cardVars
  BY DEF menu, K!cardVars, K!arbiter, K!sdcard, K!loader, K!ui, K!memory, K!renderer
<1>5. UNCHANGED position => UNCHANGED N!vars
  BY DEF position, N!vars
<1> QED
  BY <1>1, <1>2, <1>3, <1>4, <1>5
     DEF Next, Wifi, Request, Command, Card, Navigate, deviceVars

\* A run of the device is a run of each part.
LEMMA DevicePlays ==
    Spec => /\ W!Init /\ [][W!Next]_(W!wifiVars)
            /\ P!Init /\ [][P!Next]_(P!portalVars)
            /\ C!Init /\ [][C!Next]_(C!cmdVars)
            /\ K!Init /\ [][K!Next]_(K!cardVars)
            /\ N!Init /\ [][N!Next]_(N!vars)
<1>1. Init => W!Init /\ P!Init /\ C!Init /\ K!Init /\ N!Init
  BY DEF Init
<1> QED
  BY <1>1, PartsPlay, PTL DEF Spec

\* WifiManager never leaves the radio in another mode than its state reports, for any
\* networks, passphrases and number of changes.
THEOREM RadioAlwaysMatches == Spec => []RadioMatchesState
BY DevicePlays, WifiKeeps, PTL DEF RadioMatchesState

\* ArduinoPortalServer hands PortalForm::submit the whole body of the request being served,
\* never one cut short, refused, aborted or left over, for any number of requests and any
\* limit on a body.
THEOREM OnlyOwnBodies == Spec => SubmitsOwnWholeBody
BY DevicePlays, RequestKeeps, PTL DEF SubmitsOwnWholeBody

\* Two resets of a kind are at least kResetMinIntervalMs apart, within a boot and, where the
\* first one's epoch was kept and the clock not stepped, across boots: for any interval up
\* to half the range of millis(), any number of messages and of power cuts.
THEOREM ResetsKeepDistance == Spec => ResetsSpaced
BY DevicePlays, CommandKeeps, PTL DEF ResetsSpaced

\* UiRenderer::update leaves the panel on the current screen whenever it may draw, for any
\* number of edits of the card and of writes that fail.
THEOREM FramesAreCurrent == Spec => PanelIsCurrent
BY DevicePlays, CardKeeps, PTL DEF PanelIsCurrent

\* UiNavigator and UiActions leave the operator on a screen of the table, with a stack that
\* fits, a sensor that exists and an editor of a setting, for any sensors whose form changes.
THEOREM PositionsAreTyped == Spec => []N!TypeOK
BY DevicePlays, NavigationKeeps, PTL

\* WifiManager, the request buffer, the command router and the menu card keep the values of their
\* types: the attempts of a connection and of a pack stop at their ceilings, a body fits the buffer
\* allocated for it, and a connection under way returns to a step that may begin one.
THEOREM PartsAreTyped == Spec => [](W!TypeOK /\ P!TypeOK /\ C!TypeOK /\ K!TypeOK)
BY DevicePlays, WifiTyped, BodyFits, CommandsTyped, CardIsTyped, PTL

\* On a visible page with a next one, UiNavigator's DOWN and UP undo one another and reach what
\* is shown, the position moves with them, and what the page enters is not too deep: whatever
\* the forms of the channels hide, and with the page the firmware appends to the root level.
THEOREM LevelsAlwaysWork == Spec => []LevelsWork
BY DevicePlays, NavigationKeeps, PTL DEF LevelsWork

\* On a visible screen, UiBindingResolver has an answer for every value, those of a sensor are of
\* the one the operator chose and a formula has its terms, and an open editor is about one
\* setting: in every state of the channels and whichever forms the bus or the menu gives them.
THEOREM PagesShowTheirOwn == Spec => []PageShowsItsOwn
BY DevicePlays, NavigationKeeps, PTL DEF PageShowsItsOwn
=============================================================================
