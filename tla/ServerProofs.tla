----------------------------- MODULE ServerProofs -----------------------------
(***************************************************************************)
(* Proofs about Server for every number of requests, keys, slots and       *)
(* sessions of a year.  What it needs to know of the cache is the invariant *)
(* of MemoProofs, whose steps are the server's steps inside Cache.Do.       *)
(***************************************************************************)
EXTENDS Server, TLAPS, FiniteSetTheorems

Mem == INSTANCE MemoProofs WITH Callers <- Requests

-----------------------------------------------------------------------------
(* The cache inside the server.                                            *)

LEMMA SameCache ==
  /\ Cache!Init = Mem!Init
  /\ Cache!Next = Mem!Next
BY Zenon DEF Cache!Init, Mem!Init, Cache!Next, Mem!Next, Cache!store, Mem!store,
   Cache!Lookup, Mem!Lookup, Cache!Hit, Mem!Hit, Cache!Join, Mem!Join, Cache!Lead, Mem!Lead,
   Cache!Fresh, Mem!Fresh, Cache!DropExpired, Mem!DropExpired, Cache!MoveToFront, Mem!MoveToFront,
   Cache!Unlink, Mem!Unlink, Cache!RemoveAt, Mem!RemoveAt,
   Cache!Compute, Mem!Compute, Cache!Finish, Mem!Finish, Cache!Panic, Mem!Panic, Cache!Errs, Mem!Errs,
   Cache!PushAndEvict, Mem!PushAndEvict, Cache!Land, Mem!Land, Cache!Settle, Mem!Settle,
   Cache!Wake, Mem!Wake, Cache!FollowerDone, Mem!FollowerDone, Cache!FollowerEnded, Mem!FollowerEnded,
   Cache!Return, Mem!Return, Cache!End, Mem!End, Cache!Expire, Mem!Expire

LEMMA CacheInit == Init => Mem!IInv
BY SameCache, CacheAssumption, Mem!InitIInv
   DEF Init, Cache!Entry, Mem!Entry, Cache!Flight, Mem!Flight, Cache!Result, Mem!Result,
       Cache!Errs, Mem!Errs

\* A step of Do, or of another request's context, keeps the cache's invariant.
LEMMA CacheStep ==
  ASSUME Mem!IInv, Cache!Next \/ (UNCHANGED memoVars /\ ended' \subseteq ended)
  PROVE  Mem!IInv'
<1>1. CASE Cache!Next
  BY <1>1, SameCache, CacheAssumption, Mem!NextIInv
     DEF Cache!Entry, Mem!Entry, Cache!Flight, Mem!Flight, Cache!Result, Mem!Result,
         Cache!Errs, Mem!Errs
<1>2. CASE UNCHANGED memoVars /\ ended' \subseteq ended
  <2>1. UNCHANGED <<lru, entry, items, running, flight, pc, arg, held, ret>>
    BY <1>2 DEF memoVars
  <2>2. Mem!TypeOK'
    BY <1>2, <2>1 DEF Mem!IInv, Mem!TypeOK
  <2>3. Mem!StoreInv'
    BY <2>1 DEF Mem!IInv, Mem!StoreInv, Mem!IndexMatchesList, Mem!Bounded, Mem!StoredNotRunning,
       Mem!RightAnswer, Mem!InList
  <2>4. Mem!LeaderInv' /\ Mem!FollowerInv'
    BY <2>1 DEF Mem!IInv, Mem!LeaderInv, Mem!FollowerInv
  <2>5. Mem!RunningInv' /\ Mem!OutsideInv'
    BY <2>1 DEF Mem!IInv, Mem!RunningInv, Mem!OutsideInv
  <2>6. Mem!StoredNotRunning' /\ Mem!RightAnswer'
    BY <2>1 DEF Mem!IInv, Mem!StoredNotRunning, Mem!RightAnswer
  <2> QED
    BY <2>2, <2>3, <2>4, <2>5, <2>6 DEF Mem!IInv
<1> QED
  BY <1>1, <1>2

\* What the server's proofs use of it: types, no flight for calls outside, and
\* an answer for calls that are over.
LEMMA CacheFacts ==
  ASSUME Mem!IInv
  PROVE  /\ pc \in [Requests -> {"idle", "computing", "waiting", "done"}]
         /\ arg \in [Requests -> Keys \cup {None}]
         /\ held \in [Requests -> Flights \cup {None}]
         /\ ret \in [Requests -> Cache!Result \cup {None}]
         /\ flight \in [Flights -> Cache!Flight \cup {None}]
         /\ ended \subseteq Requests
         /\ \A r \in Requests :
              /\ pc[r] \in {"idle", "done"} => held[r] = None
              /\ pc[r] \in {"computing", "waiting"} => held[r] \in Flights
              /\ pc[r] = "waiting" => flight[held[r]] \in Cache!Flight
              /\ pc[r] = "done" => /\ ret[r] \in Cache!Result
                                   /\ ret[r].data = IF ret[r].err = "nil" THEN arg[r] ELSE None
<1>1. Cache!Result = Mem!Result /\ Cache!Flight = Mem!Flight
  BY DEF Cache!Result, Mem!Result, Cache!Flight, Mem!Flight, Cache!Errs, Mem!Errs
<1> QED
  BY <1>1 DEF Mem!IInv, Mem!TypeOK, Mem!OutsideInv, Mem!LeaderInv, Mem!FollowerInv, Mem!RightAnswer

-----------------------------------------------------------------------------
(* The inductive invariant: types, and for each request what its place in   *)
(* the handler says.                                                       *)

Sessions == {Gate!Out, Gate!Waiting, Gate!In} \cup {Gate!Back(how) : how \in Gate!Outcomes}

Shape ==
  /\ at \in [Requests -> {"idle", "arrived", "recording", "answered"} \cup Admitted]
  /\ route \in [Requests -> Routes \cup {None}]
  /\ left \in [Requests -> Nat]
  /\ status \in [Requests -> Answers \cup {None}]
  /\ tally \in [Requests -> [Counters -> Nat]]
  /\ st \in [Requests -> Sessions]

\* Only a request inside Do has a call there, and only one that calculates a
\* session.  A context's error has a context behind it.
Holding(r) ==
  /\ pc[r] \in {"computing", "waiting"} => at[r] = "inDo"
  /\ st[r] # Gate!Out => Calculating(r)
  /\ st[r] = Gate!Back("ctx") => r \in ended

\* Nothing is counted before the calculation.
Early(r) ==
  /\ at[r] \in {"idle", "arrived", "decoding", "lookup"} => tally[r] = NoTally /\ status[r] = None
  /\ at[r] # "idle" => route[r] \in Routes
  /\ at[r] \in {"decoding", "lookup"} => route[r] # "ready" /\ left[r] = SessionsOf(route[r])
  /\ at[r] \in {"lookup", "inDo"} => route[r] \in {"panchang", "festivals"}

\* Inside Do a leader has counted its miss when it first asked for a session, a
\* follower and a hit have counted nothing yet.
Inside(r) ==
  at[r] = "inDo" =>
    /\ status[r] = None
    /\ \A x \in {"denied", "rejected", "hits", "requests", "failures"} : tally[r][x] = 0
    /\ left[r] <= SessionsOf(route[r])
    /\ arg[r] \in KeysOf(route[r])
    /\ pc[r] # "idle"
    /\ pc[r] = "computing" =>
         /\ tally[r]["misses"] = IF st[r] = Gate!Out /\ left[r] = SessionsOf(route[r]) THEN 0 ELSE 1
         /\ tally[r]["native"] # 0 => st[r] = Gate!Back("fail")
    /\ pc[r] = "waiting" => tally[r]["misses"] = 0 /\ tally[r]["native"] = 0
    /\ pc[r] = "done" =>
         /\ tally[r]["misses"] \in {0, 1}
         /\ ret[r].err = "nil" => tally[r]["misses"] = IF ret[r].cached THEN 0 ELSE 1
         /\ tally[r]["native"] # 0 => ret[r].err = "fail"
         /\ ret[r].err = "ctx" /\ ~ret[r].cached => r \in ended

\* Without the cache only failures of the engine are counted.
Alone(r) ==
  at[r] = "solo" =>
    /\ route[r] \in {"charts", "ready"}
    /\ status[r] = None
    /\ \A x \in Counters \ {"native"} : tally[r][x] = 0
    /\ tally[r]["native"] # 0 => st[r] = Gate!Back("fail")

\* With its answer a request has the counts that go with it.
Late(r) ==
  at[r] \in {"leaving", "recording", "answered"} =>
    /\ tally[r]["denied"] + tally[r]["rejected"] + tally[r]["hits"] + tally[r]["misses"] <= 1
    /\ tally[r]["denied"] = 1 <=> status[r] = "unauthorized"
    /\ tally[r]["rejected"] = 1 <=> status[r] = "overloaded"
    /\ status[r] = "ok" /\ KeysOf(route[r]) # {} => tally[r]["hits"] + tally[r]["misses"] = 1
    /\ tally[r]["native"] # 0 => status[r] = "unavailable"
    /\ at[r] # "answered" => /\ tally[r]["requests"] = 0 /\ tally[r]["failures"] = 0
                             /\ tally[r]["denied"] = 0
    /\ at[r] = "answered" =>
         /\ tally[r]["requests"] = IF route[r] = "ready" \/ tally[r]["denied"] = 1 THEN 0 ELSE 1
         /\ tally[r]["failures"] = IF status[r] = "ok" THEN 0 ELSE tally[r]["requests"]

Explained(r) ==
  at[r] = "leaving" =>
    /\ status[r] = "timeout" => r \in ended \/ (pc[r] = "done" /\ ret[r].cached /\ ret[r].err = "ctx")
    /\ status[r] = "ok" /\ KeysOf(route[r]) # {} => ret[r].data = arg[r] /\ arg[r] \in KeysOf(route[r])

Local(r) == Holding(r) /\ Early(r) /\ Inside(r) /\ Alone(r) /\ Late(r) /\ Explained(r)

OnWay == {r \in Requests : at[r] \in Admitted}
SlotsInv == IsFiniteSet(OnWay) /\ slots = Cardinality(OnWay)

IInv == Mem!IInv /\ Shape /\ SlotsInv /\ \A r \in Requests : Local(r)

-----------------------------------------------------------------------------
(* A step is one of a single request.                                      *)

Others(r) ==
  \A d \in Requests \ {r} :
    /\ at'[d] = at[d] /\ route'[d] = route[d] /\ left'[d] = left[d]
    /\ status'[d] = status[d] /\ tally'[d] = tally[d] /\ st'[d] = st[d]
    /\ pc'[d] = pc[d] /\ arg'[d] = arg[d] /\ ret'[d] = ret[d]
    /\ d \in ended' <=> d \in ended

LEMMA OthersLocal ==
  ASSUME NEW r \in Requests, NEW d \in Requests \ {r}, Others(r), Local(d)
  PROVE  Local(d)'
<1>1. Holding(d)' /\ Early(d)'
  BY DEF Others, Local, Holding, Early, Calculating
<1>2. Inside(d)' /\ Alone(d)'
  BY DEF Others, Local, Inside, Alone
<1>3. Late(d)' /\ Explained(d)'
  BY DEF Others, Local, Late, Explained
<1> QED
  BY <1>1, <1>2, <1>3 DEF Local

\* A step of r that takes and gives back no slot.
Within(r) == slots' = slots /\ (at'[r] \in Admitted <=> at[r] \in Admitted)

Step(r) == Mem!IInv' /\ Shape' /\ Others(r) /\ Local(r)'

LEMMA SlotsKept ==
  ASSUME IInv, NEW r \in Requests, Step(r), Within(r)
  PROVE  IInv'
<1>1. OnWay' = OnWay
  BY DEF OnWay, Step, Others, Within
<1> QED
  BY <1>1, OthersLocal DEF IInv, SlotsInv, Step, Within

LEMMA SlotTaken ==
  ASSUME IInv, NEW r \in Requests, Step(r), slots' = slots + 1,
         at[r] \notin Admitted, at'[r] \in Admitted
  PROVE  IInv'
<1>1. OnWay' = OnWay \cup {r} /\ r \notin OnWay
  BY DEF OnWay, Step, Others
<1>2. SlotsInv'
  BY <1>1, FS_AddElement DEF IInv, SlotsInv
<1> QED
  BY <1>2, OthersLocal DEF IInv, Step

LEMMA SlotGiven ==
  ASSUME IInv, NEW r \in Requests, Step(r), slots' = slots - 1,
         at[r] \in Admitted, at'[r] \notin Admitted
  PROVE  IInv'
<1>1. OnWay' = OnWay \ {r} /\ r \in OnWay
  BY DEF OnWay, Step, Others
<1>2. SlotsInv'
  BY <1>1, FS_RemoveElement DEF IInv, SlotsInv
<1> QED
  BY <1>2, OthersLocal DEF IInv, Step

-----------------------------------------------------------------------------
(* The operators.                                                          *)

LEMMA GateFacts ==
  /\ Gate!Out.at = "out" /\ Gate!Waiting.at = "waiting" /\ Gate!In.at = "in"
  /\ \A how : Gate!Back(how).at = "back" /\ Gate!Back(how).how = how
  /\ \A s \in Sessions : s.at = "back" => s.how \in Gate!Outcomes /\ s = Gate!Back(s.how)
BY DEF Sessions, Gate!Out, Gate!Waiting, Gate!In, Gate!Back

LEMMA RouteFacts ==
  /\ KeysOf("charts") = {} /\ KeysOf("ready") = {}
  /\ \A rt : KeysOf(rt) \subseteq Keys
  /\ \A rt : SessionsOf(rt) \in Nat \ {0}
<1>1. \A rt : SessionsOf(rt) \in Nat \ {0}
  BY ServerAssumption DEF SessionsOf
<1>2. KeysOf("charts") = {} /\ KeysOf("ready") = {}
  BY DEF KeysOf
<1>3. ASSUME NEW rt PROVE KeysOf(rt) \subseteq Keys
  <2>1. CASE rt = "panchang"
    BY <2>1 DEF KeysOf, Keys
  <2>2. CASE rt = "festivals"
    BY <2>2 DEF KeysOf, Keys
  <2>3. CASE rt # "panchang" /\ rt # "festivals"
    BY <2>3 DEF KeysOf
  <2> QED
    BY <2>1, <2>2, <2>3
<1> QED
  BY <1>1, <1>2, <1>3

LEMMA VerdictFacts ==
  ASSUME NEW r, NEW err \in {"nil", "ctx", "noevent", "fail", "panic"}
  PROVE  /\ Verdict(r, err) \in Answers \cup {None}
         /\ Verdict(r, err) \notin {"unauthorized", "overloaded"}
         /\ Verdict(r, err) = "ok" => err = "nil"
         /\ err = "fail" => Verdict(r, err) = "unavailable"
         /\ Verdict(r, err) = "timeout" => err = "ctx" \/ (err = "nil" /\ r \in ended)
BY CacheAssumption DEF Verdict, Answers

-----------------------------------------------------------------------------
(* Arrival, the deferred functions, and what touches neither cache nor gate. *)

LEMMA ArriveStep ==
  ASSUME IInv, NEW r \in Requests, NEW rt \in Routes, Arrive(r, rt)
  PROVE  IInv'
<1> USE DEF IInv
<1>1. Mem!IInv'
  BY CacheStep DEF Arrive
<1>2. Shape'
  BY DEF Arrive, Goto, Shape
<1>3. Others(r)
  BY DEF Arrive, Goto, Shape, Others, memoVars
<1>4. Local(r)'
  BY DEF Arrive, Goto, Shape, Admitted, Local, Holding, Early, Inside, Alone, Late, Explained,
         Calculating, memoVars
<1> QED
  BY <1>1, <1>2, <1>3, <1>4, SlotsKept DEF Step, Within, Arrive, Goto, Shape, Admitted

LEMMA DenyStep ==
  ASSUME IInv, NEW r \in Requests, Deny(r)
  PROVE  IInv'
<1> USE DEF IInv
<1>1. Mem!IInv'
  BY CacheStep DEF Deny
<1>2. Shape'
  BY DEF Deny, Goto, Answer, Answers, Bump, Counters, Shape
<1>3. Others(r)
  BY DEF Deny, Goto, Answer, Bump, Shape, Others, memoVars
<1>4. Local(r)'
  BY DEF Deny, Goto, Answer, Bump, Counters, NoTally, Shape, Admitted, Local, Holding, Early, Inside,
         Alone, Late, Explained, Calculating, memoVars
<1> QED
  BY <1>1, <1>2, <1>3, <1>4, SlotsKept DEF Step, Within, Deny, Goto, Shape, Admitted

LEMMA RejectStep ==
  ASSUME IInv, NEW r \in Requests, Reject(r)
  PROVE  IInv'
<1> USE DEF IInv
<1>1. Mem!IInv'
  BY CacheStep DEF Reject
<1>2. Shape'
  BY DEF Reject, Goto, Answer, Answers, Bump, Counters, Shape
<1>3. Others(r)
  BY DEF Reject, Goto, Answer, Bump, Shape, Others, memoVars
<1>4. Local(r)'
  BY DEF Reject, Goto, Answer, Bump, Counters, NoTally, Shape, Admitted, Local, Holding, Early, Inside,
         Alone, Late, Explained, Calculating, memoVars
<1> QED
  BY <1>1, <1>2, <1>3, <1>4, SlotsKept DEF Step, Within, Reject, Goto, Shape, Admitted

LEMMA AdmitStep ==
  ASSUME IInv, NEW r \in Requests, Admit(r)
  PROVE  IInv'
<1> USE DEF IInv
<1>1. Mem!IInv'
  BY CacheStep DEF Admit
<1>2. Shape'
  BY RouteFacts DEF Admit, Goto, Shape, Admitted
<1>3. Others(r)
  BY DEF Admit, Goto, Shape, Others, memoVars
<1>4. Local(r)'
  <2>1. tally[r] = NoTally /\ status[r] = None /\ route[r] \in Routes /\ at[r] = "arrived"
    BY DEF Admit, Local, Early
  <2> QED
    BY <2>1 DEF Admit, Goto, Counters, NoTally, Shape, Admitted, Local, Holding, Early, Inside,
         Alone, Late, Explained, Calculating, memoVars
<1> QED
  BY <1>1, <1>2, <1>3, <1>4, SlotTaken DEF Step, Admit, Goto, Shape, Admitted

LEMMA DecodeStep ==
  ASSUME IInv, NEW r \in Requests, Decode(r)
  PROVE  IInv'
<1> USE DEF IInv
<1>1. Mem!IInv'
  BY CacheStep DEF Decode
<1>2. Shape'
  BY DEF Decode, Goto, Answer, Answers, Shape, Admitted
<1>3. Others(r)
  BY DEF Decode, Goto, Answer, Shape, Others, memoVars
<1>4. Local(r)'
  <2>1. /\ tally[r] = NoTally /\ status[r] = None /\ at[r] = "decoding" /\ route[r] # "ready"
        /\ route[r] \in {"charts", "panchang", "festivals"} /\ left[r] = SessionsOf(route[r])
    BY ServerAssumption DEF Decode, Local, Early
  <2> QED
    BY <2>1 DEF Decode, Goto, Answer, Counters, NoTally, Shape, Admitted, Local, Holding, Early, Inside,
         Alone, Late, Explained, Calculating, memoVars
<1> QED
  BY <1>1, <1>2, <1>3, <1>4, SlotsKept DEF Step, Within, Decode, Goto, Shape, Admitted

LEMMA GiveSlotBackStep ==
  ASSUME IInv, NEW r \in Requests, GiveSlotBack(r)
  PROVE  IInv'
<1> USE DEF IInv
<1>1. Mem!IInv'
  BY CacheStep DEF GiveSlotBack
<1>2. Shape'
  BY DEF GiveSlotBack, Goto, Shape, Admitted
<1>3. Others(r)
  BY DEF GiveSlotBack, Goto, Shape, Others, memoVars
<1>4. Local(r)'
  BY DEF GiveSlotBack, Goto, Shape, Admitted, Local, Holding, Early, Inside, Alone, Late, Explained,
         Calculating, memoVars
<1> QED
  BY <1>1, <1>2, <1>3, <1>4, SlotGiven DEF Step, GiveSlotBack, Goto, Shape, Admitted

LEMMA RecordStep ==
  ASSUME IInv, NEW r \in Requests, Record(r)
  PROVE  IInv'
<1> USE DEF IInv
<1>1. Mem!IInv'
  BY CacheStep DEF Record
<1>2. Shape'
  <2>1. at' \in [Requests -> {"idle", "arrived", "recording", "answered"} \cup Admitted]
    BY DEF Record, Goto, Shape
  <2>2. status' \in [Requests -> Answers \cup {None}]
    BY DEF Record, Answer, Answers, Shape
  <2>3. tally' \in [Requests -> [Counters -> Nat]]
    <3> DEFINE failed == IF status'[r] = "ok" THEN 0 ELSE 1
    <3>1. CASE route[r] = "ready"
      BY <3>1 DEF Record, Shape
    <3>2. CASE route[r] # "ready"
      <4>1. tally' = [tally EXCEPT ![r] = [tally[r] EXCEPT !["requests"] = @ + 1, !["failures"] = @ + failed]]
        BY <3>2 DEF Record, Shape
      <4>2. tally[r] \in [Counters -> Nat] /\ failed \in Nat
        BY DEF Shape
      <4> HIDE DEF failed
      <4>3. [tally[r] EXCEPT !["requests"] = @ + 1, !["failures"] = @ + failed] \in [Counters -> Nat]
        BY <4>2 DEF Counters
      <4> QED
        BY <4>1, <4>3 DEF Shape
    <3> QED
      BY <3>1, <3>2
  <2> QED
    BY <2>1, <2>2, <2>3 DEF Record, Shape
<1>3. Others(r)
  BY DEF Record, Goto, Answer, Shape, Others, memoVars
<1>4. Local(r)'
  BY CacheAssumption DEF Record, Goto, Answer, Answers, Counters, Shape, Admitted, Local, Holding, Early,
         Inside, Alone, Late, Explained, Calculating, memoVars
<1> QED
  BY <1>1, <1>2, <1>3, <1>4, SlotsKept DEF Step, Within, Record, Goto, Shape, Admitted

-----------------------------------------------------------------------------
(* Sessions.                                                               *)

LEMMA AskStep ==
  ASSUME IInv, NEW r \in Requests, Ask(r)
  PROVE  IInv'
<1> USE DEF IInv
<1>1. Mem!IInv'
  BY CacheStep DEF Ask, Gate!Ask
<1>2. Shape'
  BY DEF Ask, Gate!Ask, Bump, Counters, Shape, Sessions
<1>3. Others(r)
  BY DEF Ask, Gate!Ask, Bump, Shape, Others, memoVars
<1>4. Local(r)'
  <2>1. Holding(r)' /\ Early(r)' /\ Late(r)' /\ Explained(r)'
    BY GateFacts DEF Ask, Gate!Ask, Shape, Admitted, Local, Holding, Early, Late, Explained,
         Calculating, memoVars
  <2>2. Inside(r)'
    BY GateFacts DEF Ask, Gate!Ask, Bump, Counters, Shape, Local, Inside, Calculating, memoVars
  <2>3. Alone(r)'
    BY GateFacts DEF Ask, Gate!Ask, Bump, Counters, Shape, Local, Alone, Calculating, memoVars
  <2> QED
    BY <2>1, <2>2, <2>3 DEF Local
<1> QED
  BY <1>1, <1>2, <1>3, <1>4, SlotsKept DEF Step, Within, Ask

LEMMA WaitStep ==
  ASSUME IInv, NEW r \in Requests, Wait(r)
  PROVE  IInv'
<1> USE DEF IInv
<1>1. /\ \/ st' = [st EXCEPT ![r] = Gate!In]
         \/ st' = [st EXCEPT ![r] = Gate!Back("ctx")] /\ r \in ended
      /\ st[r] = Gate!Waiting /\ UNCHANGED ended
      /\ UNCHANGED <<memoVars, slots, at, route, left, status, tally>>
  BY DEF Wait, Gate!Wait, Gate!Enter, Gate!GiveUp
<1>2. Mem!IInv'
  BY <1>1, CacheStep
<1>3. Shape'
  BY <1>1 DEF Shape, Sessions, Gate!Outcomes
<1>4. Others(r)
  BY <1>1 DEF Shape, Others, memoVars
<1>5. Local(r)'
  BY <1>1, GateFacts DEF Shape, Local, Holding, Early, Inside, Alone, Late, Explained,
     Calculating, memoVars
<1> QED
  BY <1>1, <1>2, <1>3, <1>4, <1>5, SlotsKept DEF Step, Within

LEMMA LeaveStep ==
  ASSUME IInv, NEW r \in Requests, NEW how \in Gate!Outcomes, Leave(r, how)
  PROVE  IInv'
<1> USE DEF IInv
<1>1. Mem!IInv'
  BY CacheStep DEF Leave, Gate!Leave
<1>2. Shape'
  BY DEF Leave, Gate!Leave, Bump, Counters, Shape, Sessions
<1>3. Others(r)
  BY DEF Leave, Gate!Leave, Bump, Shape, Others, memoVars
<1>4. Local(r)'
  <2>1. st[r] = Gate!In /\ st'[r] = Gate!Back(how) /\ st'[r] # Gate!Out /\ st[r] # Gate!Out
    BY GateFacts DEF Leave, Gate!Leave, Shape
  <2>2. Holding(r)' /\ Early(r)' /\ Late(r)' /\ Explained(r)'
    BY <2>1, GateFacts DEF Leave, Gate!Leave, Shape, Admitted, Local, Holding, Early, Late,
         Explained, Calculating, memoVars
  <2>3. Inside(r)'
    BY <2>1, GateFacts DEF Leave, Gate!Leave, Bump, Counters, Shape, Local, Holding, Inside,
       Calculating, memoVars
  <2>4. Alone(r)'
    BY <2>1, GateFacts DEF Leave, Gate!Leave, Bump, Counters, Shape, Local, Alone, memoVars
  <2> QED
    BY <2>2, <2>3, <2>4 DEF Local
<1> QED
  BY <1>1, <1>2, <1>3, <1>4, SlotsKept DEF Step, Within, Leave

LEMMA NextMonthStep ==
  ASSUME IInv, NEW r \in Requests, NextMonth(r)
  PROVE  IInv'
<1> USE DEF IInv
<1>1. Mem!IInv'
  BY CacheStep DEF NextMonth
<1>2. Shape'
  BY DEF NextMonth, Gate!GoOn, Shape, Sessions
<1>3. Others(r)
  BY DEF NextMonth, Gate!GoOn, Shape, Others, memoVars
<1>4. Local(r)'
  BY GateFacts, RouteFacts DEF NextMonth, Gate!GoOn, Shape, Admitted, Local, Holding, Early, Inside,
     Alone, Late, Explained, Calculating, memoVars
<1> QED
  BY <1>1, <1>2, <1>3, <1>4, SlotsKept DEF Step, Within, NextMonth

LEMMA ConcludeSoloStep ==
  ASSUME IInv, NEW r \in Requests, NEW how \in Gate!Outcomes, ConcludeSolo(r, how)
  PROVE  IInv'
<1> USE DEF IInv
<1> DEFINE answer == IF route[r] # "ready" THEN Verdict(r, how)
                     ELSE CASE how = "nil" -> "ok" [] how = "panic" -> None [] OTHER -> "unavailable"
<1>1. /\ at[r] = "solo" /\ Ended(r, how)
      /\ Answer(r, answer) /\ Goto(r, "leaving")
      /\ UNCHANGED <<memoVars, ended, slots, route, left, tally>>
      /\ st' = [st EXCEPT ![r] = Gate!Out]
  BY DEF ConcludeSolo, Gate!GoOn
<1>2. /\ answer \in Answers \cup {None} /\ answer \notin {"unauthorized", "overloaded"}
      /\ how = "fail" => answer = "unavailable"
      /\ answer = "timeout" => how = "ctx" \/ r \in ended
  <2>1. how \in {"nil", "ctx", "noevent", "fail", "panic"}
    BY DEF Gate!Outcomes
  <2>2. CASE route[r] # "ready"
    BY <2>1, <2>2, VerdictFacts
  <2>3. CASE route[r] = "ready" /\ how = "nil"
    BY <2>3 DEF Answers
  <2>4. CASE route[r] = "ready" /\ how = "panic"
    BY <2>4, CacheAssumption DEF Answers
  <2>5. CASE route[r] = "ready" /\ how \notin {"nil", "panic"}
    BY <2>5 DEF Answers
  <2> QED
    BY <2>2, <2>3, <2>4, <2>5
<1> HIDE DEF answer
<1>3. /\ how = "ctx" => r \in ended
      /\ tally[r]["native"] # 0 => how = "fail"
  BY <1>1, GateFacts DEF Ended, Shape, Local, Holding, Alone
<1>4. Mem!IInv'
  BY <1>1, CacheStep
<1>5. Shape'
  BY <1>1, <1>2 DEF Goto, Answer, Shape, Admitted, Sessions
<1>6. Others(r)
  BY <1>1 DEF Goto, Answer, Shape, Others, memoVars
<1>7. Local(r)'
  BY <1>1, <1>2, <1>3, GateFacts, RouteFacts DEF Goto, Answer, Counters, Shape, Admitted, Local, Holding,
     Early, Inside, Alone, Late, Explained, Calculating, memoVars
<1> QED
  BY <1>1, <1>4, <1>5, <1>6, <1>7, SlotsKept DEF Step, Within, Goto, Shape, Admitted

-----------------------------------------------------------------------------
(* Inside Do.                                                              *)

LEMMA LookupStep ==
  ASSUME IInv, NEW r \in Requests, Lookup(r)
  PROVE  IInv'
<1> USE DEF IInv
<1>1. PICK k \in KeysOf(route[r]) :
        Cache!Hit(r, k) \/ Cache!Join(r, k) \/ \E f \in Flights : Cache!Lead(r, k, f)
  BY DEF Lookup
<1>2. k \in Keys
  BY RouteFacts
<1>3. /\ at[r] = "lookup" /\ Goto(r, "inDo") /\ UNCHANGED <<st, slots, route, left, status, tally>>
  BY DEF Lookup
<1>4. Mem!IInv'
  <2>1. Cache!Next
    BY <1>1, <1>2 DEF Cache!Next, Cache!Lookup
  <2> QED
    BY <2>1, CacheStep
<1>5. PICK place \in {"done", "waiting", "computing"} :
        /\ pc' = [pc EXCEPT ![r] = place] /\ arg' = [arg EXCEPT ![r] = k] /\ ended' = ended
        /\ \A d \in Requests \ {r} : ret'[d] = ret[d]
        /\ place = "done" => ret'[r].err = "nil" /\ ret'[r].cached
  <2>1. CASE Cache!Hit(r, k)
    BY <2>1, CacheFacts DEF Cache!Hit
  <2>2. CASE Cache!Join(r, k)
    BY <2>2 DEF Cache!Join
  <2>3. CASE \E f \in Flights : Cache!Lead(r, k, f)
    BY <2>3 DEF Cache!Lead
  <2> QED
    BY <1>1, <2>1, <2>2, <2>3
<1>6. Shape'
  BY <1>3 DEF Goto, Shape, Admitted
<1>7. Others(r)
  BY <1>3, <1>5, CacheFacts DEF Goto, Shape, Others
<1>8. Local(r)'
  <2>1. pc'[r] = place /\ arg'[r] = k
    BY <1>5, CacheFacts
  <2>2. st[r] = Gate!Out /\ tally[r] = NoTally /\ status[r] = None /\ left[r] = SessionsOf(route[r])
        /\ route[r] \in {"panchang", "festivals"} /\ route[r] \in Routes
    BY <1>3 DEF Local, Holding, Early, Calculating
  <2>3. at'[r] = "inDo"
    BY <1>3 DEF Goto, Shape
  <2> QED
    BY <1>3, <1>5, <2>1, <2>2, <2>3, GateFacts, RouteFacts DEF Counters, NoTally, Admitted, Local,
       Holding, Early, Inside, Alone, Late, Explained, Calculating
<1> QED
  BY <1>3, <1>4, <1>6, <1>7, <1>8, SlotsKept DEF Step, Within, Goto, Shape, Admitted

\* A call leaves Do with a result that its counts agree with.
LEMMA ReturnsStep ==
  ASSUME IInv, NEW r \in Requests, at[r] = "inDo", Mem!IInv', NEW result, NEW sessions \in Sessions,
         pc' = [pc EXCEPT ![r] = "done"], ret' = [ret EXCEPT ![r] = result], UNCHANGED <<arg, ended>>,
         st' = [st EXCEPT ![r] = sessions], sessions = Gate!Out,
         UNCHANGED <<slots, at, route, left, status, tally>>,
         tally[r]["misses"] \in {0, 1},
         result.err = "nil" => tally[r]["misses"] = IF result.cached THEN 0 ELSE 1,
         tally[r]["native"] # 0 => result.err = "fail",
         result.err = "ctx" /\ ~result.cached => r \in ended
  PROVE  IInv'
<1> USE DEF IInv
<1>1. pc'[r] = "done" /\ ret'[r] = result /\ st'[r] = Gate!Out
  BY CacheFacts DEF Shape
<1>2. Shape'
  BY DEF Shape
<1>3. Others(r)
  BY CacheFacts DEF Shape, Others
<1>4. Local(r)'
  BY <1>1, GateFacts DEF Local, Holding, Early, Inside, Alone, Late, Explained, Calculating
<1> QED
  BY <1>2, <1>3, <1>4, SlotsKept DEF Step, Within

LEMMA FnReturnsStep ==
  ASSUME IInv, NEW r \in Requests, NEW how \in Gate!Outcomes, FnReturns(r, how)
  PROVE  IInv'
<1> USE DEF IInv
<1>1. /\ at[r] = "inDo" /\ pc[r] = "computing" /\ Ended(r, how)
      /\ IF how = "panic" THEN Cache!Panic(r) ELSE Cache!Finish(r, how)
      /\ st' = [st EXCEPT ![r] = Gate!Out]
      /\ UNCHANGED <<slots, at, route, left, status, tally>>
  BY DEF FnReturns, Gate!GoOn
<1>2. Mem!IInv'
  <2>1. how # "panic" => how \in Cache!Errs
    BY DEF Gate!Outcomes, Cache!Errs
  <2>2. Cache!Next
    BY <1>1, <2>1 DEF Cache!Next, Cache!Compute
  <2> QED
    BY <2>2, CacheStep
<1> DEFINE result == [data |-> IF how = "nil" THEN arg[r] ELSE None, cached |-> FALSE, err |-> how]
<1>3. /\ pc' = [pc EXCEPT ![r] = "done"] /\ ret' = [ret EXCEPT ![r] = result]
      /\ UNCHANGED <<arg, ended>>
      /\ result.err = how /\ ~result.cached
      /\ how = "ctx" => r \in ended
  <2>1. CASE how = "panic"
    BY <1>1, <2>1 DEF Cache!Panic, Cache!Land, Cache!Settle
  <2>2. CASE how # "panic"
    BY <1>1, <2>2 DEF Cache!Finish, Cache!Land, Cache!Settle
  <2> QED
    BY <2>1, <2>2
<1>4. st[r].at = "back" /\ (how = st[r].how \/ how = "fail") /\ st[r] # Gate!Out
  BY <1>1, GateFacts DEF Ended
<1>5. /\ tally[r]["misses"] = 1
      /\ tally[r]["native"] # 0 => how = "fail"
  BY <1>1, <1>4, GateFacts DEF Local, Inside
<1> HIDE DEF result
<1> QED
  BY <1>1, <1>2, <1>3, <1>5, ReturnsStep DEF Sessions

LEMMA FollowStep ==
  ASSUME IInv, NEW r \in Requests, Follow(r)
  PROVE  IInv'
<1> USE DEF IInv
<1>1. /\ at[r] = "inDo" /\ Cache!Wake(r) /\ UNCHANGED <<st, slots, at, route, left, status, tally>>
  BY DEF Follow
<1>2. Mem!IInv'
  BY <1>1, CacheStep DEF Cache!Next
<1> DEFINE shared == [data |-> flight[held[r]].data, cached |-> TRUE, err |-> flight[held[r]].err]
           late == [data |-> None, cached |-> FALSE, err |-> "ctx"]
<1>3. PICK result \in {shared, late} :
        /\ pc[r] = "waiting"
        /\ pc' = [pc EXCEPT ![r] = "done"] /\ ret' = [ret EXCEPT ![r] = result]
        /\ UNCHANGED <<arg, ended>>
        /\ result.cached \/ (result.err = "ctx" /\ r \in ended)
  BY <1>1 DEF Cache!Wake, Cache!FollowerDone, Cache!FollowerEnded, Cache!Settle
<1>4. st[r] = Gate!Out /\ tally[r]["misses"] = 0 /\ tally[r]["native"] = 0
  BY <1>1, <1>3 DEF Local, Holding, Inside, Calculating
<1>5. st' = [st EXCEPT ![r] = Gate!Out]
  BY <1>1, <1>4 DEF Shape
<1> QED
  BY <1>1, <1>2, <1>3, <1>4, <1>5, ReturnsStep DEF Sessions

LEMMA ConcludeStep ==
  ASSUME IInv, NEW r \in Requests, Conclude(r)
  PROVE  IInv'
<1> USE DEF IInv
<1> DEFINE answer == Verdict(r, ret[r].err)
<1>1. /\ at[r] = "inDo" /\ pc[r] = "done"
      /\ Answer(r, answer) /\ Goto(r, "leaving")
      /\ UNCHANGED <<memoVars, ended, st, slots, route, left>>
      /\ tally' = IF ret[r].cached /\ ret[r].err = "nil" THEN Bump(r, "hits") ELSE tally
  BY DEF Conclude
<1>2. ret[r].err \in {"nil", "ctx", "noevent", "fail", "panic"}
  BY <1>1, CacheFacts DEF Cache!Result, Cache!Errs
<1>3. /\ answer \in Answers \cup {None} /\ answer \notin {"unauthorized", "overloaded"}
      /\ answer = "ok" => ret[r].err = "nil"
      /\ ret[r].err = "fail" => answer = "unavailable"
      /\ answer = "timeout" => ret[r].err = "ctx" \/ r \in ended
  BY <1>2, VerdictFacts
<1> HIDE DEF answer
<1>4. Mem!IInv'
  BY <1>1, CacheStep
<1>5. Shape'
  BY <1>1, <1>3 DEF Goto, Answer, Bump, Counters, Shape, Admitted
<1>6. Others(r)
  BY <1>1 DEF Goto, Answer, Bump, Shape, Others, memoVars
<1>7. Local(r)'
  <2>1. at'[r] = "leaving" /\ status'[r] = answer /\ UNCHANGED <<pc, arg, ret, ended, st, route, left>>
    BY <1>1 DEF Goto, Answer, Shape, memoVars
  <2>2. st[r] = Gate!Out /\ route[r] \in Routes
    BY <1>1 DEF Local, Holding, Early, Calculating
  <2>3. Holding(r)' /\ Early(r)' /\ Inside(r)' /\ Alone(r)'
    BY <1>1, <2>1, <2>2, GateFacts DEF Holding, Early, Inside, Alone
  <2>4. Late(r)'
    <3>1. /\ \A x \in {"denied", "rejected", "requests", "failures"} : tally'[r][x] = 0
          /\ tally'[r]["native"] = tally[r]["native"] /\ tally'[r]["misses"] = tally[r]["misses"]
          /\ tally'[r]["hits"] = IF ret[r].cached /\ ret[r].err = "nil" THEN 1 ELSE 0
      BY <1>1 DEF Bump, Counters, Shape, Local, Inside
    <3>2. /\ tally[r]["misses"] \in {0, 1}
          /\ ret[r].err = "nil" => tally[r]["misses"] = IF ret[r].cached THEN 0 ELSE 1
          /\ tally[r]["native"] # 0 => ret[r].err = "fail"
      BY <1>1 DEF Local, Inside
    <3> QED
      BY <1>3, <2>1, <3>1, <3>2 DEF Late
  <2>5. Explained(r)'
    BY <1>1, <1>3, <2>1, CacheFacts DEF Explained, Local, Inside
  <2> QED
    BY <2>3, <2>4, <2>5 DEF Local
<1> QED
  BY <1>1, <1>4, <1>5, <1>6, <1>7, SlotsKept DEF Step, Within, Goto, Shape, Admitted

-----------------------------------------------------------------------------
(* The environment.                                                        *)

LEMMA NextRequestStep ==
  ASSUME IInv, NEW r \in Requests, NextRequest(r)
  PROVE  IInv'
<1> USE DEF IInv
<1>1. /\ at[r] = "answered" /\ Goto(r, "idle") /\ route' = [route EXCEPT ![r] = None]
      /\ left' = [left EXCEPT ![r] = 0] /\ Answer(r, None) /\ tally' = [tally EXCEPT ![r] = NoTally]
      /\ UNCHANGED <<st, slots>> /\ ended' = ended \ {r}
      /\ IF pc[r] = "done" THEN Cache!Return(r) ELSE UNCHANGED memoVars
  BY DEF NextRequest, Cache!Return
<1>2. Mem!IInv'
  <2>1. CASE pc[r] = "done"
    BY <1>1, <2>1, CacheStep DEF Cache!Next
  <2>2. CASE pc[r] # "done"
    BY <1>1, <2>2, CacheStep
  <2> QED
    BY <2>1, <2>2
<1>3. /\ \A d \in Requests \ {r} : pc'[d] = pc[d] /\ arg'[d] = arg[d] /\ ret'[d] = ret[d]
      /\ pc'[r] \notin {"computing", "waiting"}
  <2>1. CASE pc[r] = "done"
    BY <1>1, <2>1, CacheFacts DEF Cache!Return
  <2>2. CASE pc[r] # "done"
    BY <1>1, <2>2 DEF memoVars, Local, Holding
  <2> QED
    BY <2>1, <2>2
<1>4. Shape'
  BY <1>1 DEF Goto, Answer, NoTally, Counters, Shape
<1>5. Others(r)
  BY <1>1, <1>3 DEF Goto, Answer, Shape, Others
<1>6. Local(r)'
  BY <1>1, <1>3, GateFacts DEF Goto, Answer, NoTally, Counters, Shape, Admitted, Local, Holding, Early,
     Inside, Alone, Late, Explained, Calculating
<1> QED
  BY <1>1, <1>2, <1>4, <1>5, <1>6, SlotsKept DEF Step, Within, Goto, Shape, Admitted

LEMMA EndStep ==
  ASSUME IInv, NEW r \in Requests, End(r)
  PROVE  IInv'
<1> USE DEF IInv
<1>1. /\ at[r] \in Admitted \ {"leaving"} /\ ended' = ended \cup {r}
      /\ UNCHANGED <<pc, arg, held, ret, st, slots, at, route, left, status, tally>>
  BY DEF End, Cache!End
<1>2. Mem!IInv'
  BY CacheStep DEF End, Cache!Next
<1>3. Shape' /\ Others(r)
  BY <1>1 DEF Shape, Others
<1>4. Local(r)'
  BY <1>1 DEF Local, Holding, Early, Inside, Alone, Late, Explained, Calculating
<1> QED
  BY <1>1, <1>2, <1>3, <1>4, SlotsKept DEF Step, Within

\* A step that touches nothing a request shows.
LEMMA QuietStep ==
  ASSUME IInv, Mem!IInv',
         UNCHANGED <<pc, arg, ret, ended, st, slots, at, route, left, status, tally>>
  PROVE  IInv'
<1> USE DEF IInv
<1>1. Shape' /\ SlotsInv'
  BY DEF Shape, SlotsInv, OnWay
<1>2. \A r \in Requests : Local(r)'
  BY DEF Local, Holding, Early, Inside, Alone, Late, Explained, Calculating
<1> QED
  BY <1>1, <1>2

LEMMA ExpireStep ==
  ASSUME IInv, NEW e \in Elements, Expire(e)
  PROVE  IInv'
<1>1. Mem!IInv'
  BY CacheStep DEF IInv, Expire, Cache!Next
<1> QED
  BY <1>1, QuietStep DEF Expire, Cache!Expire

-----------------------------------------------------------------------------
(* The theorems.                                                           *)

LEMMA InitIInv == Init => IInv
<1> SUFFICES ASSUME Init PROVE IInv
  OBVIOUS
<1>1. Mem!IInv
  BY CacheInit
<1>2. Shape
  BY DEF Init, Shape, Sessions, NoTally
<1>3. SlotsInv
  <2>1. OnWay = {}
    BY DEF Init, OnWay, Admitted
  <2> QED
    BY <2>1, FS_EmptySet DEF Init, SlotsInv
<1>4. \A r \in Requests : Local(r)
  BY GateFacts DEF Init, Cache!Init, Local, Holding, Early, Inside, Alone, Late, Explained
<1> QED
  BY <1>1, <1>2, <1>3, <1>4 DEF IInv

LEMMA NextIInv == IInv /\ [Next]_vars => IInv'
<1> SUFFICES ASSUME IInv, [Next]_vars PROVE IInv'
  OBVIOUS
<1>1. ASSUME NEW r \in Requests, Work(r) PROVE IInv'
  BY <1>1, DenyStep, AdmitStep, RejectStep, DecodeStep, LookupStep, AskStep, NextMonthStep, FollowStep,
     ConcludeStep, GiveSlotBackStep, RecordStep, LeaveStep, FnReturnsStep, ConcludeSoloStep DEF Work
<1>2. CASE UNCHANGED vars
  <2>1. Mem!IInv'
    BY <1>2, CacheStep DEF IInv, vars
  <2> QED
    BY <1>2, <2>1, QuietStep DEF vars, memoVars
<1> QED
  BY <1>1, <1>2, ArriveStep, WaitStep, NextRequestStep, EndStep, ExpireStep DEF Next

LEMMA SpecIInv == Spec => []IInv
BY InitIInv, NextIInv, PTL DEF Spec

\* Whichever way requests end, also by a panic, no slot is lost and none is given
\* back twice (server.go:85-93, 272-280).
THEOREM SlotsAddUp == Spec => []SlotsAccounted
<1>1. IInv => SlotsAccounted
  BY DEF IInv, SlotsInv, OnWay, SlotsAccounted
<1> QED
  BY SpecIInv, <1>1, PTL

\* A request that holds no slot has no flight and no session either
\* (server.go:247-376).
THEOREM IdleIsFree == Spec => []IdleHoldsNothing
<1>1. IInv => IdleHoldsNothing
  <2> SUFFICES ASSUME IInv, NEW r \in Requests, at[r] \notin Admitted
               PROVE  held[r] = None /\ st[r] = Gate!Out
    BY DEF IdleHoldsNothing
  <2>1. ~Calculating(r) /\ pc[r] \notin {"computing", "waiting"} /\ Holding(r)
    BY DEF IInv, Local, Holding, Calculating, Admitted
  <2> QED
    BY <2>1, CacheFacts DEF IInv, Holding
<1> QED
  BY SpecIInv, <1>1, PTL

\* The counters of an answered request are those of its answer
\* (server.go:250-311).
THEOREM CountsAreRight == Spec => []CountedOnce
<1>1. IInv => CountedOnce
  BY DEF IInv, Shape, Counters, Local, Late, CountedOnce
<1> QED
  BY SpecIInv, <1>1, PTL

\* A 504 has a context of its own behind it or another request's flight, and a
\* 200 the bytes of the request's own key (server.go:354-359, cache.go:51-56).
THEOREM TimeoutsHaveReasons == Spec => []TimeoutsExplained
<1>1. IInv => TimeoutsExplained
  BY DEF IInv, Local, Explained, TimeoutsExplained
<1> QED
  BY SpecIInv, <1>1, PTL

-----------------------------------------------------------------------------
(* Flights.  One that nobody holds is gone.                                 *)

HeldInv == \A f \in Flights : flight[f] # None => \E r \in Requests : held[r] = f

LEMMA SettleHeld ==
  ASSUME Mem!IInv, HeldInv, NEW r \in Requests, pc[r] \in {"computing", "waiting"},
         NEW result, NEW final, Cache!Settle(r, result, final)
  PROVE  HeldInv'
<1>1. /\ held' = [held EXCEPT ![r] = None]
      /\ flight' = [flight EXCEPT ![held[r]] =
                       IF \E d \in Requests \ {r} : held[d] = held[r] THEN final ELSE None]
  BY DEF Cache!Settle
<1>2. SUFFICES ASSUME NEW f \in Flights, flight'[f] # None PROVE \E d \in Requests : held'[d] = f
  BY DEF HeldInv
<1>3. \E d \in Requests \ {r} : held[d] = f
  BY <1>1, <1>2, CacheFacts DEF HeldInv
<1> QED
  BY <1>1, <1>3, CacheFacts

LEMMA LookupHeld ==
  ASSUME Mem!IInv, HeldInv, NEW r \in Requests, NEW k,
         Cache!Hit(r, k) \/ Cache!Join(r, k) \/ \E f \in Flights : Cache!Lead(r, k, f)
  PROVE  HeldInv'
<1>1. held[r] = None
  BY CacheFacts DEF Cache!Hit, Cache!Join, Cache!Lead
<1>2. CASE Cache!Hit(r, k)
  BY <1>2 DEF Cache!Hit, HeldInv
<1>3. CASE Cache!Join(r, k)
  <2>1. flight' = flight /\ \A d \in Requests \ {r} : held'[d] = held[d]
    BY <1>3, CacheFacts DEF Cache!Join
  <2> QED
    BY <1>1, <2>1, CacheAssumption DEF HeldInv
<1>4. ASSUME NEW f \in Flights, Cache!Lead(r, k, f) PROVE HeldInv'
  <2>1. /\ held'[r] = f /\ \A d \in Requests \ {r} : held'[d] = held[d]
        /\ \A g \in Flights \ {f} : flight'[g] = flight[g]
    BY <1>4, CacheFacts DEF Cache!Lead
  <2> QED
    BY <1>1, <2>1, CacheAssumption DEF HeldInv
<1> QED
  BY <1>2, <1>3, <1>4

LEMMA NextHeld == Mem!IInv /\ HeldInv /\ [Next]_vars => HeldInv'
<1> SUFFICES ASSUME Mem!IInv, HeldInv, [Next]_vars PROVE HeldInv'
  OBVIOUS
<1>1. ASSUME NEW r \in Requests, Lookup(r) PROVE HeldInv'
  BY <1>1, LookupHeld DEF Lookup
<1>2. ASSUME NEW r \in Requests, NEW how, FnReturns(r, how) PROVE HeldInv'
  BY <1>2, SettleHeld DEF FnReturns, Cache!Panic, Cache!Finish, Cache!Land
<1>3. ASSUME NEW r \in Requests, Follow(r) PROVE HeldInv'
  BY <1>3, SettleHeld DEF Follow, Cache!Wake, Cache!FollowerDone, Cache!FollowerEnded
<1>4. CASE UNCHANGED <<flight, held>>
  BY <1>4 DEF HeldInv
<1>5. ASSUME NEW r \in Requests,
             \/ (\E rt \in Routes : Arrive(r, rt)) \/ Wait(r) \/ NextRequest(r) \/ End(r)
             \/ Deny(r) \/ Admit(r) \/ Reject(r) \/ Decode(r) \/ Ask(r) \/ NextMonth(r)
             \/ Conclude(r) \/ GiveSlotBack(r) \/ Record(r)
             \/ \E how \in Gate!Outcomes : Leave(r, how) \/ ConcludeSolo(r, how)
      PROVE  UNCHANGED <<flight, held>>
  BY <1>5 DEF memoVars, Arrive, Wait, NextRequest, Cache!Return, End, Cache!End, Deny, Admit, Reject,
     Decode, Ask, NextMonth, Conclude, GiveSlotBack, Record, Leave, ConcludeSolo
<1>6. ASSUME NEW e \in Elements, Expire(e) PROVE UNCHANGED <<flight, held>>
  BY <1>6 DEF Expire, Cache!Expire
<1>7. CASE UNCHANGED vars
  BY <1>4, <1>7 DEF vars, memoVars
<1> QED
  BY <1>1, <1>2, <1>3, <1>4, <1>5, <1>6, <1>7 DEF Next, Work

\* There are no more flights, running or still held by a follower, than slots taken
\* (cache.go:35-36, server.go:272-280).
THEOREM FlightsAreBounded == Spec => []FlightsWithinLimit
<1>1. Init => HeldInv
  BY DEF Init, Cache!Init, HeldInv
<1>2. IInv /\ HeldInv => FlightsWithinLimit
  <2> SUFFICES ASSUME IInv, HeldInv PROVE FlightsWithinLimit
    OBVIOUS
  <2> DEFINE F == {f \in Flights : flight[f] # None}
             H == {r \in OnWay : held[r] \in F}
             m == [r \in H |-> held[r]]
  <2>1. \A r \in Requests : held[r] \in Flights => at[r] \in Admitted
    BY CacheFacts, CacheAssumption DEF IInv, Local, Holding, Admitted
  <2>2. \A f \in F : \E r \in H : m[r] = f
    BY <2>1 DEF HeldInv, OnWay
  <2>3. m \in Surjection(H, F)
    BY <2>2 DEF Surjection
  <2>4. IsFiniteSet(H) /\ Cardinality(H) <= slots
    BY FS_Subset DEF IInv, SlotsInv
  <2>5. IsFiniteSet(F) /\ Cardinality(F) <= Cardinality(H)
    BY <2>3, <2>4, FS_Surjection
  <2> QED
    BY <2>4, <2>5, FS_CardinalityType DEF FlightsWithinLimit, IInv, SlotsInv
<1>3. IInv => Mem!IInv
  BY DEF IInv
<1> QED
  BY <1>1, <1>2, <1>3, NextHeld, SpecIInv, PTL DEF Spec
=============================================================================
