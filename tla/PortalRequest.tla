----------------------------- MODULE PortalRequest -----------------------------
(***************************************************************************)
(* How a submission reaches the configuration page                         *)
(* (net/portal_server_arduino.h): the body arrives in chunks through a     *)
(* callback of the web server, is kept in one buffer between them, and is  *)
(* handed to PortalForm::submit if it is complete when the request is.     *)
(* The web server is external: it announces a raw body of the declared     *)
(* length, delivers it, and ends or aborts it; a multipart body comes      *)
(* through the same callback with no raw buffer; a request may have none.  *)
(***************************************************************************)
EXTENDS Naturals, Sequences

CONSTANTS
  Requests,    \* bound on the requests
  MaxSubmit    \* kMaxSubmitBytes, in chunks

VARIABLES
  request,     \* the request being served, or NoRequest
  body,        \* body_: its chunks, each with the request it came with
  allocated,   \* body_ is not null
  capacity,    \* bodyCapacity_
  complete,    \* bodyComplete_
  refused,     \* bodyRefused_
  submitted,   \* what submit() was last called with
  served       \* requests begun

buffer      == <<body, allocated, capacity, complete, refused>>
portalVars  == <<request, buffer, submitted, served>>
NoRequest   == [id |-> 0]
NotAString  == <<0>>     \* a null buffer handed to submit

-----------------------------------------------------------------------------

\* A mutant: the flag of the finished request stays.
releaseBodyKeepsComplete ==
  body' = <<>> /\ allocated' = FALSE /\ capacity' = 0 /\ refused' = FALSE /\ UNCHANGED complete

releaseBody ==
  body' = <<>> /\ allocated' = FALSE /\ capacity' = 0 /\ refused' = FALSE /\ complete' = FALSE

\* A client's request arrives: a POST to "/" or kFormAction, its declared length and its login.
Arrives ==
  /\ request = NoRequest /\ served < Requests /\ served' = served + 1
  /\ \E kind \in {"raw", "multipart", "bare"}, declared \in 0..(MaxSubmit + 1), login \in BOOLEAN :
       request' = [id |-> served + 1, kind |-> kind, declared |-> declared, login |-> login,
                   got |-> 0, phase |-> "headers"]
  /\ UNCHANGED <<buffer, submitted>>

At(phase) == request # NoRequest /\ request.phase = phase
Phase(to) == request' = [request EXCEPT !.phase = to]

\* RAW_START: the declared length is refused first, then allocated once.
RawStart ==
  /\ At("headers") /\ request.kind = "raw" /\ Phase("body")
  /\ body' = <<>> /\ complete' = FALSE
  /\ \/ /\ request.declared > MaxSubmit
        /\ refused' = TRUE /\ allocated' = FALSE /\ capacity' = 0
     \/ /\ request.declared <= MaxSubmit /\ capacity' = request.declared
        /\ \E allocates \in BOOLEAN : allocated' = allocates /\ refused' = ~allocates
  /\ UNCHANGED <<submitted, served>>

\* RAW_WRITE: a chunk is kept unless the body was refused; a NUL refuses the whole.
RawWrite ==
  /\ At("body") /\ request.got < request.declared
  /\ request' = [request EXCEPT !.got = @ + 1]
  /\ \E nul \in BOOLEAN :
       \/ (refused \/ ~allocated) /\ UNCHANGED buffer
       \/ /\ ~refused /\ allocated /\ (Len(body) + 1 > capacity \/ nul)
          /\ body' = <<>> /\ allocated' = FALSE /\ capacity' = 0 /\ complete' = FALSE
          /\ refused' = TRUE
       \/ /\ ~refused /\ allocated /\ Len(body) < capacity /\ ~nul
          /\ body' = Append(body, <<request.id, request.got + 1>>)
          /\ UNCHANGED <<allocated, capacity, complete, refused>>
  /\ UNCHANGED <<submitted, served>>

\* RAW_END, of a body that came whole.
RawEnd ==
  /\ At("body") /\ request.got = request.declared /\ Phase("handler")
  /\ complete' = (complete \/ (~refused /\ allocated))
  /\ UNCHANGED <<body, allocated, capacity, refused, submitted, served>>

\* RAW_ABORTED: the client stopped sending, and handlePost is not called.
RawAborted ==
  /\ At("body") /\ request.got < request.declared
  /\ request' = NoRequest
  /\ releaseBody
  /\ UNCHANGED <<submitted, served>>

\* A multipart body: the same callback, without a raw buffer; it may be abandoned too.
Multipart ==
  /\ At("headers") /\ request.kind = "multipart"
  /\ \/ Phase("handler") \/ request' = NoRequest
  /\ releaseBody
  /\ UNCHANGED <<submitted, served>>

Bare ==
  /\ At("headers") /\ request.kind = "bare" /\ Phase("handler")
  /\ UNCHANGED <<buffer, submitted, served>>

\* handlePost: released on every path out, and submitted if complete and authorized.
handlePost ==
  /\ At("handler") /\ request' = NoRequest
  /\ releaseBody
  /\ submitted' = IF request.login /\ ~refused /\ complete
                  THEN (IF allocated THEN body ELSE NotAString) ELSE submitted
  /\ UNCHANGED served

Init ==
  /\ request = NoRequest /\ body = <<>> /\ allocated = FALSE /\ capacity = 0
  /\ complete = FALSE /\ refused = FALSE /\ submitted = <<>> /\ served = 0

Next ==
  \/ Arrives \/ RawStart \/ RawWrite \/ RawEnd \/ RawAborted \/ Multipart \/ Bare \/ handlePost

Spec == Init /\ [][Next]_portalVars

-----------------------------------------------------------------------------

\* The body held for a request fits the buffer allocated for it.
TypeOK ==
  /\ request.id \in 0..served /\ served \in 0..Requests
  /\ Len(body) <= capacity /\ capacity \in 0..MaxSubmit
  /\ allocated \in BOOLEAN /\ complete \in BOOLEAN /\ refused \in BOOLEAN

\* What is submitted is the whole body of the request that asks for it, and of no other:
\* nothing cut short, refused, aborted or left over from an earlier client.
SubmitsOwnWholeBody ==
  [][At("handler") /\ request.login /\ complete /\ ~refused
       => submitted' = [i \in 1..request.declared |-> <<request.id, i>>]]_portalVars
=============================================================================
