------------------------------- MODULE Process -------------------------------
(***************************************************************************)
(* The service as a process: what cmd/kripa/main.go accepts at its start,   *)
(* how it shuts down with requests in flight, and the installer and the     *)
(* container runtime that start it.  Time passes in seconds, and never past *)
(* a deadline of a connection: what its timer does is done at its second.     *)
(* The process itself may take longer to end than Shutdown's deadline.        *)
(***************************************************************************)
EXTENDS Install, Integers

CONSTANTS Requests,   \* connections with at most one request each
          Limits      \* request deadlines: KRIPA_REQUEST_TIMEOUT, 10 for a year

\* Installers are named by their tokens, which are no other word used for one.
ASSUME TokensAssumption ==
  Installers \cap {"", "absent", "empty", "good", "weak"} = {}

\* KRIPA_REQUEST_TIMEOUT is at most ten seconds (main.go:79-82).
ASSUME LimitsAssumption == Limits \subseteq 0..10

VARIABLES config,    \* outside: not bound to loopback; source: of the token
          proc,      \* down, starting, serving, draining
          token,     \* of the running process, "" for none
          wanted,    \* the container runtime restarts it when it ends
          since,     \* seconds since the signal
          request    \* of each connection

vars == <<file, pc, config, proc, token, wanted, since, request>>

\* http.Server's timeouts and Shutdown's.
ReadHeaderTimeout == 2
ReadTimeout == 5
WriteTimeout == 15
ShutdownTimeout == 15

Idle == [phase |-> "idle", age |-> 0, admitted |-> 0, limit |-> 0, slow |-> FALSE]

Init ==
  /\ InstallInit
  /\ config \in [outside : BOOLEAN, source : {"file", "good", "weak", "none"}]
  /\ proc = "down" /\ token = "" /\ wanted = FALSE
  /\ since = 0
  /\ request = [r \in Requests |-> Idle]

-----------------------------------------------------------------------------
(* Start (main.go:46-88).                                                  *)

\* A file that is there and trimmed empty is no token; the installer's are 64
\* characters.
Configured == CASE config.source = "file" -> IF file = "empty" THEN "" ELSE file
                [] config.source = "none" -> ""
                [] OTHER -> config.source

\* Mutant: the rule asks whether a token is configured.
AcceptableIfConfigured(t) ==
  /\ ~(config.source = "none" /\ config.outside)
  /\ t # "weak"

\* Outside loopback a token is required; one that is short or has a space in it
\* is refused everywhere.
Acceptable(t) ==
  /\ ~(t = "" /\ config.outside)
  /\ t # "weak"

\* Anything else that is wrong, the ephemeris included, also ends the process.
Start ==
  /\ proc = "starting"
  /\ \E valid \in BOOLEAN :
       IF valid /\ ~(config.source = "file" /\ file = "absent") /\ Acceptable(Configured)
       THEN proc' = "serving" /\ token' = Configured
       ELSE proc' = "down" /\ UNCHANGED token
  /\ UNCHANGED <<installVars, config, wanted, since, request>>

\* docker compose up, the end of install.py; restart: unless-stopped.
Up(i) ==
  /\ pc[i] = "up" /\ Goto(i, "idle")
  /\ wanted' = TRUE
  /\ UNCHANGED <<file, config, proc, token, since, request>>

Restart ==
  /\ proc = "down" /\ wanted
  /\ proc' = "starting"
  /\ UNCHANGED <<installVars, config, token, wanted, since, request>>

-----------------------------------------------------------------------------
(* Requests (main.go:88, server.go:281-287).                               *)

Set(r, value) ==
  /\ request' = [request EXCEPT ![r] = value]
  /\ UNCHANGED <<installVars, config, proc, token, wanted, since>>

Accept(r) ==
  /\ proc = "serving" /\ request[r].phase = "idle"
  /\ Set(r, [Idle EXCEPT !.phase = "header"])

\* Headers are read, and a slot is taken: the deadline runs from here.  Or the
\* connection ends without a request.
ReadHeader(r) ==
  /\ request[r].phase = "header"
  /\ \/ \E limit \in Limits :
          Set(r, [request[r] EXCEPT !.phase = "body", !.admitted = request[r].age, !.limit = limit])
     \/ Set(r, Idle)

\* decode reads the body to its end; or to an error, and answers.
ReadBody(r) ==
  /\ request[r].phase = "body"
  /\ Set(r, [request[r] EXCEPT !.phase = "calculate"])

\* The client reads the answer at once, or slowly.
Calculate(r) ==
  /\ request[r].phase \in {"body", "calculate"}
  /\ \E slow \in BOOLEAN : Set(r, [request[r] EXCEPT !.phase = "write", !.slow = slow])

\* The answer is out, or the client was too slow for it.
Written(r) == request[r].phase = "write" /\ Set(r, Idle)

\* Mutant: the deadline runs from the end of the body.
DeadlineAfterBody(q) == ReadTimeout + q.limit

Deadline(q) == q.admitted + q.limit

\* The age a request cannot pass in its phase.
Due(q) ==
  CASE q.phase = "header" -> ReadHeaderTimeout
    [] q.phase = "body" -> ReadTimeout
    [] q.phase = "calculate" -> Deadline(q)
    [] q.phase = "write" -> IF q.slow THEN q.admitted + WriteTimeout ELSE 0

-----------------------------------------------------------------------------
(* The end (main.go:89-108).                                               *)

\* SIGTERM: before NotifyContext it kills; later ones than the first do nothing.
\* The runtime that sends it may mean to start the process again, or not.
Signal ==
  /\ proc \in {"starting", "serving"}
  /\ proc' = IF proc = "starting" THEN "down" ELSE "draining"
  /\ wanted' \in BOOLEAN
  /\ since' = 0
  /\ UNCHANGED <<installVars, config, token, request>>

\* Shutdown's deadline has passed.
Overdue == proc = "draining" /\ since >= ShutdownTimeout

\* Shutdown returns when no connection is active, or at its deadline; then Close
\* ends those that are.
Exit ==
  /\ proc = "draining"
  /\ Overdue \/ \A r \in Requests : request[r].phase = "idle"
  /\ proc' = "down" /\ token' = "" /\ since' = 0
  /\ request' = [r \in Requests |-> Idle]
  /\ UNCHANGED <<installVars, config, wanted>>

Tick ==
  /\ \E r \in Requests : request[r].phase # "idle"
  /\ \A r \in Requests : request[r].phase # "idle" => request[r].age < Due(request[r])
  /\ request' = [r \in Requests |->
                   IF request[r].phase = "idle" THEN Idle ELSE [request[r] EXCEPT !.age = @ + 1]]
  /\ since' = IF proc = "draining" THEN since + 1 ELSE 0
  /\ UNCHANGED <<installVars, config, proc, token, wanted>>

-----------------------------------------------------------------------------
Rest == UNCHANGED <<config, proc, token, wanted, since, request>>

Next ==
  \/ \E i \in Installers : Up(i) \/ (Rest /\ (Look(i) \/ Create(i) \/ Write(i) \/ Crash(i)))
  \/ Start \/ Restart \/ Signal \/ Exit \/ Tick
  \/ \E r \in Requests : Accept(r) \/ ReadHeader(r) \/ ReadBody(r) \/ Calculate(r) \/ Written(r)

Spec == Init /\ [][Next]_vars

-----------------------------------------------------------------------------
(* Properties.                                                             *)

Listening == proc \in {"serving", "draining"}

\* Beyond loopback the service never listens without a token of 64 characters or
\* a good one of the operator's: not if the installer died between creating and
\* writing the file, nor if the service started in between (main.go:52-70,
\* install.py:20-25).
OpenOnlyWithToken == Listening /\ config.outside => token \in Installers \cup {"good"}

\* The token the service asks for is the one its clients read from the file for
\* as long as it runs, however installers overlap, die and run again ("never
\* replace an existing token"; install.py:20-25, main.go:52-59).
TokenAgrees == Listening /\ config.outside /\ config.source = "file" => token = file

\* Shutdown cuts off no request whose client reads its answer: with two seconds for
\* the headers and ten for the calculation every other one is over within 15
\* seconds of the signal (main.go:88-106, server.go:281-287).
DrainInTime == Overdue => \A r \in Requests : request[r].phase = "idle" \/ request[r].slow
=============================================================================
