---------------------------- MODULE ProcessProofs ----------------------------
(***************************************************************************)
(* Proofs about Process for every number of installers and connections and *)
(* every deadline that main.go accepts.                                    *)
(***************************************************************************)
EXTENDS Process, TLAPS

Records == [phase : {"idle", "header", "body", "calculate", "write"},
            age : Nat, admitted : Nat, limit : 0..10, slow : BOOLEAN]

TypeOK ==
  /\ file \in {"absent", "empty"} \cup Installers
  /\ pc \in [Installers -> {"idle", "create", "write", "up"}]
  /\ config \in [outside : BOOLEAN, source : {"file", "good", "weak", "none"}]
  /\ proc \in {"down", "starting", "serving", "draining"}
  /\ since \in Nat
  /\ request \in [Requests -> Records]

\* Between creating and writing it an installer is alone with an empty file.
WriterInv ==
  \A i \in Installers : pc[i] = "write" =>
     file = "empty" /\ \A j \in Installers : pc[j] = "write" => j = i

TokenInv == OpenOnlyWithToken /\ TokenAgrees

\* How old a request is in its phase at most: twelve seconds until its answer.
Young(q) ==
  /\ q.phase = "header" => q.age <= ReadHeaderTimeout
  /\ q.phase = "body" => q.age <= ReadTimeout
  /\ q.phase \in {"body", "calculate", "write"} => q.admitted <= ReadHeaderTimeout
  /\ q.phase = "calculate" => q.age <= 12
  /\ q.phase = "write" /\ ~q.slow => q.age <= 12

\* No request begins after the signal, so none is younger than it.
DrainInv ==
  proc = "draining" => \A r \in Requests : request[r].phase # "idle" => since <= request[r].age

RequestInv == \A r \in Requests : Young(request[r])

IInv == TypeOK /\ WriterInv /\ TokenInv /\ RequestInv /\ DrainInv

-----------------------------------------------------------------------------
(* The token.                                                              *)

LEMMA IdleRecord == Idle \in Records /\ Young(Idle) /\ Idle.phase = "idle"
BY DEF Idle, Records, Young

LEMMA InitIInv == Init => IInv
<1> SUFFICES ASSUME Init PROVE IInv
  OBVIOUS
<1>1. TypeOK
  BY IdleRecord DEF Init, InstallInit, TypeOK
<1>2. WriterInv /\ TokenInv /\ DrainInv
  BY DEF Init, InstallInit, WriterInv, TokenInv, OpenOnlyWithToken, TokenAgrees, Listening, DrainInv
<1>3. RequestInv
  BY IdleRecord DEF Init, RequestInv
<1> QED
  BY <1>1, <1>2, <1>3 DEF IInv

\* The token a start accepts outside loopback is an installer's or the operator's
\* good one.
LEMMA AcceptedToken ==
  ASSUME TypeOK, Acceptable(Configured), config.outside,
         ~(config.source = "file" /\ file = "absent")
  PROVE  /\ Configured \in Installers \cup {"good"}
         /\ config.source = "file" => Configured = file
BY TokensAssumption DEF TypeOK, Acceptable, Configured

\* The file, once it holds a token that the process uses, is not written again.
LEMMA InstallerStep ==
  ASSUME IInv, NEW i \in Installers, Rest, Look(i) \/ Create(i) \/ Write(i) \/ Crash(i)
  PROVE  IInv'
<1> USE DEF IInv
<1>1. TypeOK'
  BY DEF TypeOK, Rest, Look, Create, Write, Crash, Goto
<1>2. WriterInv'
  <2>1. CASE Create(i)
    BY <2>1 DEF TypeOK, WriterInv, Create, Goto
  <2>2. CASE Write(i)
    BY <2>2 DEF TypeOK, WriterInv, Write, Goto
  <2>3. CASE Look(i) \/ Crash(i)
    BY <2>3 DEF TypeOK, WriterInv, Look, Crash, Goto
  <2> QED
    BY <2>1, <2>2, <2>3
<1>3. TokenInv'
  <2>1. CASE Look(i) \/ Crash(i)
    BY <2>1 DEF Rest, Look, Crash, TokenInv, OpenOnlyWithToken, TokenAgrees, Listening
  <2>2. CASE Create(i) \/ Write(i)
    <3>1. file' = file \/ file \in {"absent", "empty"}
      BY <2>2 DEF Create, Write, WriterInv
    <3>2. Listening /\ config.outside /\ config.source = "file" => file' = file
      BY <3>1, TokensAssumption DEF TokenInv, OpenOnlyWithToken, TokenAgrees
    <3> QED
      BY <3>2 DEF Rest, TokenInv, OpenOnlyWithToken, TokenAgrees, Listening
  <2> QED
    BY <2>1, <2>2
<1>4. RequestInv' /\ DrainInv'
  BY DEF Rest, RequestInv, DrainInv
<1> QED
  BY <1>1, <1>2, <1>3, <1>4

LEMMA StartStep == IInv /\ Start => IInv'
<1> SUFFICES ASSUME IInv, Start PROVE IInv'
  OBVIOUS
<1> USE DEF IInv, Start, installVars
<1>1. TypeOK' /\ WriterInv'
  BY DEF TypeOK, WriterInv
<1>2. TokenInv'
  <2>1. CASE proc' = "serving"
    <3>1. /\ token' = Configured /\ Acceptable(Configured)
          /\ ~(config.source = "file" /\ file = "absent")
      BY <2>1
    <3> QED
      BY <3>1, AcceptedToken DEF TokenInv, OpenOnlyWithToken, TokenAgrees
  <2>2. CASE proc' = "down"
    BY <2>2 DEF TokenInv, OpenOnlyWithToken, TokenAgrees, Listening
  <2> QED
    BY <2>1, <2>2
<1>3. RequestInv' /\ DrainInv'
  BY DEF RequestInv, DrainInv, TypeOK
<1> QED
  BY <1>1, <1>2, <1>3

\* A step that leaves the token's side alone.
LEMMA TokenKept ==
  ASSUME IInv, UNCHANGED <<file, pc, config>>,
         Listening' => UNCHANGED token /\ Listening
  PROVE  WriterInv' /\ TokenInv'
BY DEF IInv, WriterInv, TokenInv, OpenOnlyWithToken, TokenAgrees

LEMMA ProcessStep ==
  ASSUME IInv, Restart \/ Signal \/ Exit \/ \E i \in Installers : Up(i)
  PROVE  IInv'
<1> USE DEF IInv, installVars
<1>1. TypeOK'
  <2>1. CASE Restart \/ Signal
    BY <2>1 DEF TypeOK, Restart, Signal
  <2>2. CASE Exit
    BY <2>2, IdleRecord DEF TypeOK, Exit
  <2>3. CASE \E i \in Installers : Up(i)
    BY <2>3 DEF TypeOK, Up, Goto
  <2> QED
    BY <2>1, <2>2, <2>3
<1>2. WriterInv' /\ TokenInv'
  <2>1. CASE Restart \/ Signal \/ Exit
    BY <2>1, TokenKept DEF Restart, Signal, Exit, Listening
  <2>2. CASE \E i \in Installers : Up(i)
    BY <2>2 DEF Up, Goto, TypeOK, WriterInv, TokenInv, OpenOnlyWithToken, TokenAgrees, Listening
  <2> QED
    BY <2>1, <2>2
<1>3. RequestInv' /\ DrainInv'
  <2>1. CASE Restart \/ Signal \/ \E i \in Installers : Up(i)
    BY <2>1 DEF TypeOK, Records, Restart, Signal, Up, RequestInv, DrainInv
  <2>2. CASE Exit
    BY <2>2, IdleRecord DEF Exit, RequestInv, DrainInv
  <2> QED
    BY <2>1, <2>2
<1> QED
  BY <1>1, <1>2, <1>3

-----------------------------------------------------------------------------
(* Requests and time.                                                      *)

\* A step of one connection to a request that is young for its phase, and no younger
\* than the one before if there was one.
LEMMA SetStep ==
  ASSUME IInv, NEW r \in Requests, NEW value, Set(r, value),
         value \in Records, Young(value),
         value.phase # "idle" =>
            proc # "draining" \/ (request[r].phase # "idle" /\ value.age = request[r].age)
  PROVE  IInv'
<1> USE DEF IInv, Set, installVars
<1>1. TypeOK'
  BY DEF TypeOK
<1>2. WriterInv' /\ TokenInv'
  BY TokenKept DEF Listening
<1>3. RequestInv'
  BY DEF TypeOK, RequestInv
<1>4. DrainInv'
  BY DEF TypeOK, DrainInv
<1> QED
  BY <1>1, <1>2, <1>3, <1>4

LEMMA RequestStep ==
  ASSUME IInv, NEW r \in Requests,
         Accept(r) \/ ReadHeader(r) \/ ReadBody(r) \/ Calculate(r) \/ Written(r)
  PROVE  IInv'
<1> DEFINE q == request[r]
<1>1. q \in Records /\ Young(q)
  BY DEF IInv, TypeOK, RequestInv
<1> HIDE DEF q
<1>2. CASE Accept(r)
  <2> DEFINE v == [Idle EXCEPT !.phase = "header"]
  <2>1. v.phase = "header" /\ v.age = 0
    BY DEF Idle
  <2>2. v \in Records /\ Young(v)
    BY <2>1, IdleRecord DEF Records, Young, ReadHeaderTimeout
  <2> QED
    BY <1>2, <2>2, SetStep DEF Accept
<1>3. CASE ReadHeader(r)
  <2>1. CASE Set(r, Idle)
    BY <2>1, IdleRecord, SetStep
  <2>2. ASSUME NEW limit \in Limits, q.phase = "header",
               Set(r, [q EXCEPT !.phase = "body", !.admitted = q.age, !.limit = limit])
        PROVE  IInv'
    <3> DEFINE v == [q EXCEPT !.phase = "body", !.admitted = q.age, !.limit = limit]
    <3>1. v \in Records /\ Young(v) /\ v.age = q.age
      <4>1. v \in Records
        BY <1>1, <2>2, LimitsAssumption DEF Records
      <4>2. v.phase = "body" /\ v.age = q.age /\ v.admitted = q.age
        BY <1>1 DEF Records
      <4> QED
        BY <1>1, <2>2, <4>1, <4>2 DEF Records, Young, ReadHeaderTimeout, ReadTimeout
    <3> QED
      BY <2>2, <3>1, SetStep DEF q
  <2> QED
    BY <1>3, <2>1, <2>2 DEF ReadHeader, q
<1>4. CASE ReadBody(r)
  <2> DEFINE v == [q EXCEPT !.phase = "calculate"]
  <2>1. q.phase = "body" /\ Set(r, v)
    BY <1>4 DEF ReadBody, q
  <2>2. v \in Records /\ Young(v) /\ v.age = q.age
    BY <1>1, <2>1 DEF Records, Young, ReadHeaderTimeout, ReadTimeout
  <2> QED
    BY <2>1, <2>2, SetStep DEF q
<1>5. CASE Calculate(r)
  <2>1. PICK slow \in BOOLEAN : Set(r, [q EXCEPT !.phase = "write", !.slow = slow])
    BY <1>5 DEF Calculate, q
  <2> DEFINE v == [q EXCEPT !.phase = "write", !.slow = slow]
  <2>2. q.phase \in {"body", "calculate"}
    BY <1>5 DEF Calculate, q
  <2>3. v \in Records /\ v.phase = "write" /\ v.age = q.age /\ v.admitted = q.admitted
    BY <1>1 DEF Records
  <2>4. Young(v)
    BY <1>1, <2>2, <2>3 DEF Records, Young, ReadHeaderTimeout, ReadTimeout
  <2> QED
    BY <2>1, <2>2, <2>3, <2>4, SetStep DEF q
<1>6. CASE Written(r)
  BY <1>6, IdleRecord, SetStep DEF Written
<1> QED
  BY <1>2, <1>3, <1>4, <1>5, <1>6

\* A second passes for a request only where its timer allows it.
LEMMA OlderIsYoung ==
  ASSUME NEW q \in Records, q.phase # "idle", Young(q), q.age < Due(q)
  PROVE  Young([q EXCEPT !.age = @ + 1])
BY DEF Records, Young, Due, Deadline, ReadHeaderTimeout, ReadTimeout, WriteTimeout

LEMMA TickStep == IInv /\ Tick => IInv'
<1> SUFFICES ASSUME IInv, Tick PROVE IInv'
  OBVIOUS
<1> USE DEF IInv, Tick, installVars
<1>1. TypeOK'
  BY IdleRecord DEF TypeOK, Records
<1>2. WriterInv' /\ TokenInv'
  BY TokenKept DEF Listening
<1>3. RequestInv'
  <2> SUFFICES ASSUME NEW r \in Requests PROVE Young(request'[r])
    BY DEF RequestInv
  <2>1. CASE request[r].phase = "idle"
    BY <2>1, IdleRecord
  <2>2. CASE request[r].phase # "idle"
    BY <2>2, OlderIsYoung DEF TypeOK, RequestInv
  <2> QED
    BY <2>1, <2>2
<1>4. DrainInv'
  <2> SUFFICES ASSUME proc = "draining", NEW r \in Requests, request'[r].phase # "idle"
               PROVE  since + 1 <= request'[r].age
    BY DEF DrainInv
  <2>1. request[r].phase # "idle"
    BY DEF Idle
  <2>2. request'[r].age = request[r].age + 1
    BY <2>1 DEF TypeOK, Records
  <2> QED
    BY <2>1, <2>2 DEF DrainInv, TypeOK, Records
<1> QED
  BY <1>1, <1>2, <1>3, <1>4

-----------------------------------------------------------------------------
(* Theorems.                                                               *)

LEMMA Inductive == Spec => []IInv
<1>1. IInv /\ [Next]_vars => IInv'
  <2>1. IInv /\ UNCHANGED vars => IInv'
    BY DEF vars, IInv, TypeOK, WriterInv, TokenInv, OpenOnlyWithToken, TokenAgrees, Listening,
           RequestInv, DrainInv
  <2>2. IInv /\ Next => IInv'
    BY InstallerStep, StartStep, ProcessStep, RequestStep, TickStep DEF Next
  <2> QED
    BY <2>1, <2>2
<1> QED
  BY InitIInv, <1>1, PTL DEF Spec

\* Whatever installers do and wherever they die, and whenever the service is
\* started again, it does not listen beyond loopback without a token
\* (main.go:52-70, install.py:20-25).
THEOREM NeverOpen == Spec => []OpenOnlyWithToken
BY Inductive, PTL DEF IInv, TokenInv

\* For any number of overlapping installers the token the service asks for remains the
\* one in the file (install.py:20-25, main.go:52-59).
THEOREM TokenStays == Spec => []TokenAgrees
BY Inductive, PTL DEF IInv, TokenInv

\* With any number of connections and any deadlines up to ten seconds, 15
\* seconds after the signal only connections of slow readers are left for Close to
\* cut off (main.go:88-106).
THEOREM Drains == Spec => []DrainInTime
<1>1. IInv => DrainInTime
  BY DEF IInv, TypeOK, Records, RequestInv, DrainInv, Young, DrainInTime, Overdue, ShutdownTimeout,
         ReadHeaderTimeout, ReadTimeout
<1> QED
  BY Inductive, <1>1, PTL
=============================================================================
