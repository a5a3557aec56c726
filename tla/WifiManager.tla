------------------------------ MODULE WifiManager ------------------------------
(***************************************************************************)
(* The WiFi manager (net/wifi_manager) over its radio, with what the logic *)
(* pass of firmware.cpp hangs on it: the time requests of time/ntp_policy, *)
(* the notice that the settings were applied, and the configuration page   *)
(* (net/portal_lifecycle, net/portal_server_arduino), which is up while    *)
(* the access point is.                                                    *)
(*                                                                         *)
(* Another task may apply new settings between any two steps, also between *)
(* the two reads a connection makes.  Time is not counted: a deadline      *)
(* passes when an environment action says so.                              *)
(***************************************************************************)
EXTENDS Naturals

CONSTANTS
  Networks, Keys,   \* names and passphrases an operator may store
  NoName,           \* an empty SSID: not configured
  Changes,          \* bound on the changes of the settings
  Saturated         \* the attempt at which the delay reaches its ceiling

VARIABLES
  wanted, ssid, psk,   \* NetSettings: wifiEnabled() and the stored credentials
  rev, noticed,        \* revision(), and the one firmware.cpp has told the manager of
  step,                \* where the pass is
  back,                \* the step a connection returns to
  state,               \* state_
  attempts,            \* attempts_, counted up to Saturated
  late,                \* the deadline of this state has passed
  radioUp, apActive,   \* radioUp_ and apActive_
  inUse,               \* the credentials last handed to the radio
  justConnected,       \* justConnected_
  link,                \* what the driver reports of the station
  reliable,            \* from here on the network and the driver work
  ntp,                 \* NtpPolicy: associated_, due_, inFlight_, and its deadline passed
  systemTime,          \* time() has been moved by SNTP since the boot
  page                 \* ArduinoPortalServer: up_ and dnsUp_

settings == <<wanted, ssid, psk, rev>>
manager  == <<state, attempts, late, radioUp, apActive, inUse, justConnected>>
clock    == <<ntp, systemTime>>
wifiVars == <<settings, noticed, step, back, manager, link, reliable, clock, page>>

States  == {"disabled", "idle", "connecting", "connected", "retrying", "apPortal", "failed"}
Steps   == {"update", "join", "ntp", "notice", "portal"}
NoCreds == [ssid |-> NoName, psk |-> NoName]

wifiConfigured == ssid # NoName

-----------------------------------------------------------------------------
(* The manager's transitions.  Each says what becomes of the manager and the link and *)
(* where the pass goes on.                                                              *)

Go(s)    == state' = s /\ late' = FALSE
LinkDown == link' = "down"

\* failBackoff: the attempt is counted, the radio stays up but lets go of the network.
failBackoff ==
  /\ attempts' = IF attempts < Saturated THEN attempts + 1 ELSE attempts
  /\ Go(IF attempts' = Saturated THEN "failed" ELSE "retrying")
  /\ IF radioUp THEN LinkDown ELSE UNCHANGED link
  /\ UNCHANGED <<radioUp, justConnected>>

\* enterIdle: nothing to connect to, so the radio is powered down.
enterIdle ==
  /\ Go("idle") /\ attempts' = 0
  /\ radioUp' = FALSE /\ apActive' = FALSE /\ LinkDown
  /\ UNCHANGED <<inUse, justConnected>>

\* shutDown: the operator turned WiFi off.
shutDown ==
  /\ Go("disabled") /\ attempts' = 0
  /\ radioUp' = FALSE /\ apActive' = FALSE /\ LinkDown
  /\ justConnected' = FALSE /\ UNCHANGED inUse

Ends  == step' = "ntp" /\ UNCHANGED back
Fails == failBackoff /\ Ends /\ UNCHANGED <<inUse, apActive>>

\* beginConnect up to its read of the SSID; Join is the rest of it.
beginConnect(resumeAt) ==
  /\ inUse' = [ssid |-> ssid, psk |-> NoName]
  /\ step' = "join" /\ back' = resumeAt
  /\ UNCHANGED <<state, late, justConnected, link>>

Join ==
  /\ step = "join" /\ step' = back
  /\ inUse' = [inUse EXCEPT !.psk = psk]
  /\ \/ /\ inUse.ssid # NoName
        /\ Go("connecting") /\ LinkDown
        /\ UNCHANGED <<attempts, radioUp, justConnected>>
     \/ (~reliable \/ inUse.ssid = NoName) /\ failBackoff
  /\ UNCHANGED <<back, apActive, settings, noticed, reliable, clock, page>>

\* ensureRadioUp: a radio that is up has nothing to refuse.
ensureRadioUp(then, otherwise) ==
  \/ radioUp' = TRUE /\ then
  \/ ~radioUp /\ ~reliable /\ otherwise

\* raiseAp: the access point, or Idle when the driver refuses it.
raiseAp ==
  \/ /\ Go("apPortal") /\ attempts' = 0
     /\ radioUp' = TRUE /\ apActive' = TRUE
     /\ UNCHANGED <<inUse, justConnected, link>>
  \/ ~reliable /\ enterIdle

-----------------------------------------------------------------------------
(* WifiManager::update, one action per state. *)

Updates(s) ==
  step = "update" /\ state \in s /\ UNCHANGED <<settings, noticed, reliable, clock, page>>

Waits == UNCHANGED <<manager, link>> /\ Ends

Connects == beginConnect("ntp") /\ UNCHANGED <<attempts, apActive>>

TurnedOff ==
  /\ Updates(States) /\ ~wanted /\ Ends
  /\ IF state = "disabled" THEN UNCHANGED <<manager, link>> ELSE shutDown

enterEnabled ==
  /\ Updates({"disabled"}) /\ wanted
  /\ IF wifiConfigured
       THEN ensureRadioUp(Connects, Fails)
       ELSE \/ raiseAp /\ Ends
            \/ ~reliable /\ Fails

leaveIdle ==
  /\ Updates({"idle"}) /\ wanted
  /\ IF wifiConfigured THEN ensureRadioUp(Connects, Fails) ELSE Waits

\* Only an answer or the timeout ends an attempt.
pollConnecting ==
  /\ Updates({"connecting"}) /\ wanted
  /\ CASE link = "up" ->
            /\ Go("connected") /\ attempts' = 0 /\ justConnected' = TRUE
            /\ UNCHANGED <<radioUp, apActive, link, inUse>> /\ Ends
       [] link = "refused" \/ (link = "down" /\ late) -> Fails
       [] OTHER -> Waits

pollConnected ==
  /\ Updates({"connected"}) /\ wanted
  /\ CASE ~wifiConfigured -> enterIdle /\ Ends
       [] wifiConfigured /\ link # "up" -> Fails
       [] OTHER -> Waits

pollBackoff ==
  /\ Updates({"retrying", "failed"}) /\ wanted
  /\ CASE ~late -> Waits
       [] late /\ ~wifiConfigured -> enterIdle /\ Ends
       [] OTHER -> ensureRadioUp(Connects, Fails)

\* A mutant: the window closes without stopping the access point.
pollApPortalLeaks ==
  /\ Updates({"apPortal"}) /\ wanted
  /\ CASE ~late -> Waits
       [] late /\ ~wifiConfigured -> enterIdle /\ Ends
       [] OTHER -> Connects /\ UNCHANGED radioUp

\* The window closes, and credentials that came meanwhile are used.
pollApPortal ==
  /\ Updates({"apPortal"}) /\ wanted
  /\ CASE ~late -> Waits
       [] late /\ ~wifiConfigured -> enterIdle /\ Ends
       [] OTHER -> beginConnect("ntp") /\ apActive' = FALSE /\ UNCHANGED <<attempts, radioUp>>

-----------------------------------------------------------------------------
(* The rest of the pass. *)

Unasked == [associated |-> FALSE, due |-> FALSE, inFlight |-> FALSE, late |-> FALSE]

\* noteSucceeded and noteFailed, which differ in the delay only.
Rescheduled(n) == [n EXCEPT !.inFlight = FALSE, !.due = TRUE, !.late = FALSE]

\* noteAssociated: due at once; the deadline of a request in flight stays its own.
Associated(n) ==
  IF justConnected THEN [n EXCEPT !.associated = TRUE, !.due = TRUE, !.late = @ \/ ~n.inFlight]
                   ELSE n

\* consumeDueRequest.
Requested(n) ==
  IF n.associated /\ n.due /\ n.late /\ ~n.inFlight
    THEN [n EXCEPT !.due = FALSE, !.inFlight = TRUE, !.late = FALSE]
    ELSE n

\* The time block of the pass: the edge first, then the request, then its answer.  An
\* answer is a plausible system time, which stays plausible once SNTP has moved it.
Ntp ==
  LET n == Requested(Associated(ntp)) IN
  /\ step = "ntp" /\ step' = "notice"
  /\ justConnected' = FALSE
  /\ ntp' = IF state # "connected" THEN [Unasked EXCEPT !.late = ntp.late]
            ELSE IF n.inFlight /\ (systemTime \/ n.late) THEN Rescheduled(n) ELSE n
  /\ UNCHANGED <<settings, noticed, back, state, attempts, late, radioUp, apActive, inUse,
                 link, reliable, systemTime, page>>

\* A mutant: only the name is compared, as it once was.
SameNetwork == inUse.ssid = ssid

SameCredentials == inUse = [ssid |-> ssid, psk |-> psk]

\* noteProvisioningComplete, called once per new revision.
noteProvisioningComplete ==
  /\ step = "notice" /\ noticed' = rev
  /\ IF rev = noticed \/ ~wanted \/ ~wifiConfigured \/ SameCredentials
       THEN step' = "portal" /\ UNCHANGED <<manager, link, back>>
       ELSE /\ apActive' = FALSE
            /\ ensureRadioUp(attempts' = 0 /\ beginConnect("portal"),
                 failBackoff /\ step' = "portal" /\ UNCHANGED <<inUse, back>>)
  /\ UNCHANGED <<settings, reliable, clock, page>>

NoPage == [up |-> FALSE, dns |-> FALSE]

\* drivePortal with the server's begin, update and end.  Serving a form is a change of the
\* settings, which Apply allows at any step.
drivePortal ==
  /\ step = "portal" /\ step' = "update"
  /\ IF state # "apPortal" THEN page' = NoPage
       ELSE \/ \E dns \in BOOLEAN : page' = [up |-> TRUE, dns |-> page.dns \/ dns]
            \/ ~page.up /\ ~reliable /\ UNCHANGED page
  /\ UNCHANGED <<settings, noticed, back, manager, link, reliable, clock>>

-----------------------------------------------------------------------------
(* The other tasks and the world. *)

\* NetSettings::apply by any surface; something has to differ.
Apply ==
  /\ rev < Changes /\ rev' = rev + 1
  /\ wanted' \in BOOLEAN /\ ssid' \in Networks \cup {NoName} /\ psk' \in Keys
  /\ <<wanted', ssid', psk'>> # <<wanted, ssid, psk>>
  /\ UNCHANGED <<noticed, step, back, manager, link, reliable, clock, page>>

\* A station that joined gets an answer, and may lose the network again.
Answered ==
  /\ radioUp /\ state \in {"connecting", "connected"} /\ step # "join"
  /\ link' \in IF reliable THEN {"up"} ELSE {"up", "down", "refused"}
  /\ link' # link
  /\ UNCHANGED <<settings, noticed, step, back, manager, reliable, clock, page>>

\* A network that works answers within the timeout of an attempt.
DeadlinePasses ==
  /\ ~late /\ late' = TRUE
  /\ \/ state \in {"retrying", "failed", "apPortal"}
     \/ state = "connecting" /\ ~(reliable /\ radioUp)
  /\ UNCHANGED <<settings, noticed, step, back, state, attempts, radioUp, apActive, inUse,
                 justConnected, link, reliable, clock, page>>

TimePasses ==
  /\ ntp.associated /\ ~ntp.late /\ ntp' = [ntp EXCEPT !.late = TRUE]
  /\ UNCHANGED <<settings, noticed, step, back, manager, link, reliable, systemTime, page>>

SntpAnswers ==
  /\ ntp.inFlight /\ ~systemTime /\ systemTime' = TRUE
  /\ UNCHANGED <<settings, noticed, step, back, manager, link, reliable, ntp, page>>

WorldSettles ==
  /\ ~reliable /\ reliable' = TRUE
  /\ UNCHANGED <<settings, noticed, step, back, manager, link, clock, page>>

-----------------------------------------------------------------------------
Init ==
  /\ wanted = FALSE /\ ssid = NoName /\ psk = (CHOOSE k \in Keys : TRUE) /\ rev = 0 /\ noticed = 0
  /\ step = "update" /\ back = "ntp"
  /\ state = "disabled" /\ attempts = 0 /\ late = FALSE
  /\ radioUp = FALSE /\ apActive = FALSE /\ inUse = NoCreds /\ justConnected = FALSE
  /\ link = "down" /\ reliable = FALSE
  /\ ntp = Unasked /\ systemTime = FALSE /\ page = NoPage

Pass ==
  \/ TurnedOff \/ enterEnabled \/ leaveIdle \/ pollConnecting \/ pollConnected
  \/ pollBackoff \/ pollApPortal \/ Join \/ Ntp \/ noteProvisioningComplete \/ drivePortal

Next ==
  \/ Pass
  \/ Apply \/ Answered \/ DeadlinePasses \/ TimePasses \/ SntpAnswers \/ WorldSettles

\* The logic task keeps running and time passes; a driver that works answers.
Fairness ==
  /\ WF_wifiVars(Pass)
  /\ WF_wifiVars(DeadlinePasses) /\ WF_wifiVars(TimePasses)
  /\ WF_wifiVars(reliable /\ Answered)

Spec == Init /\ [][Next]_wifiVars /\ Fairness

-----------------------------------------------------------------------------
(* Properties. *)

\* The station, its credentials and its deadlines have values the manager can give them.
TypeOK ==
  /\ wanted \in BOOLEAN /\ ssid \in Networks \cup {NoName} /\ psk \in Keys
  /\ rev \in 0 .. Changes /\ noticed \in 0 .. rev
  /\ step \in Steps /\ back \in {"ntp", "portal"} /\ state \in States
  /\ attempts \in 0 .. Saturated
  /\ {late, radioUp, apActive, justConnected, reliable, systemTime} \subseteq BOOLEAN
  /\ inUse \in [ssid : Networks \cup {NoName}, psk : Keys \cup {NoName}]
  /\ link \in {"down", "up", "refused"}
  /\ ntp \in [associated : BOOLEAN, due : BOOLEAN, inFlight : BOOLEAN, late : BOOLEAN]
  /\ page \in [up : BOOLEAN, dns : BOOLEAN]

\* The radio is in the mode the reported state says (R3.1.1): powered down when there is
\* nothing to connect to, broadcasting exactly in ApPortal, and the configuration page never
\* outlives the access point by a pass.  A connection under way is between two states.
RadioMatchesState ==
  step # "join" =>
    /\ apActive <=> state = "apPortal"
    /\ state \in {"disabled", "idle"} => ~radioUp
    /\ state \in {"connecting", "connected", "apPortal"} => radioUp
    /\ step = "update" /\ page.up => apActive

\* Once the settings and the world are steady, the device is on its network with the
\* credentials that are stored: no order of applies, refusals and passes leaves it
\* disconnected, or connected with credentials that were replaced.
Associates ==
  <>[](reliable /\ wanted /\ wifiConfigured) =>
    <>[](state = "connected" /\ inUse = [ssid |-> ssid, psk |-> psk])
=============================================================================
