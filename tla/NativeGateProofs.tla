-------------------------- MODULE NativeGateProofs --------------------------
(***************************************************************************)
(* Proofs about NativeGate for every number of callers, Providers and      *)
(* threads, and for both builds of the library.                            *)
(***************************************************************************)
EXTENDS NativeGate, TLAPS, FiniteSetTheorems

\* Where the goroutine is locked to its thread.
Locked == {"locked", "pathSet", "inside", "closing", "unlocking"}

\* What the library's copy on the session's thread holds at each place.
Configured(c) ==
  [path |-> IF pc[c] \in {"pathSet", "inside", "closing"} THEN path[c] ELSE None,
   sid |-> IF pc[c] \in {"inside", "closing"} THEN "lahiri" ELSE None]

AtMostOne == \A c, d \in Callers : pc[c] \in Entered /\ pc[d] \in Entered => c = d

GateInv == gate = IF \E c \in Callers : pc[c] \in Entered THEN 1 ELSE 0

PinInv == \A c \in Callers : pin[c] # None <=> pc[c] \in Locked

\* The copy of the session's thread is as the place of the session says, and
\* no other copy is touched.
LibInv ==
  /\ \A c \in Callers : pc[c] \in Locked => lib[Copy(pin[c])] = Configured(c)
  /\ \A x \in Copies :
       (\A c \in Callers : pc[c] \in Locked => Copy(pin[c]) # x) => lib[x] = Untouched

IInv == TypeOK /\ AtMostOne /\ GateInv /\ PinInv /\ LibInv

LEMMA InitIInv == Init => IInv
BY DEF Init, IInv, TypeOK, AtMostOne, GateInv, PinInv, LibInv, Places, Entered, Locked, Library,
       Untouched, Copies, Copy

\* A step of the session changes the library through the thread it holds.
LEMMA OnOwnThread ==
  ASSUME IInv, NEW c \in Callers, pc[c] \in Locked, NEW t \in Threads, RunsOn(c, t)
  PROVE  t = pin[c] /\ Copy(t) \in Copies
BY DEF IInv, PinInv, RunsOn, Copy, Copies

\* A step of the session that leaves it locked and rewrites its copy of the
\* library.
LEMMA LockedStep ==
  ASSUME IInv, NEW c \in Callers, pc[c] \in Locked, NEW place \in Locked, Goto(c, place),
         NEW v \in Library, lib' = [lib EXCEPT ![Copy(pin[c])] = v],
         v = Configured(c)', UNCHANGED <<gate, pin, path>>,
         how' \in [Callers -> Outcomes \cup {None}], ended' \subseteq Callers
  PROVE  IInv'
<1> USE DEF IInv, Entered, Locked
<1>1. pin[c] \in Threads /\ Copy(pin[c]) \in Copies
  BY DEF PinInv, TypeOK, Copy, Copies
<1>2. pc' = [pc EXCEPT ![c] = place] /\ place \in Entered /\ pc[c] \in Entered
  BY DEF Goto, Locked, Entered
<1>3. \A d \in Callers : /\ pc'[d] \in Entered <=> pc[d] \in Entered
                         /\ pc'[d] \in Locked <=> pc[d] \in Locked
                         /\ pc[d] \in Locked => d = c
  BY <1>2 DEF TypeOK, AtMostOne, Locked, Entered
<1>4. TypeOK'
  BY <1>1, <1>2 DEF TypeOK, Places
<1>5. AtMostOne' /\ GateInv' /\ PinInv'
  <2>1. AtMostOne'
    BY <1>3 DEF AtMostOne
  <2>2. GateInv'
    BY <1>3, Zenon DEF GateInv
  <2>3. PinInv'
    BY <1>3 DEF PinInv
  <2> QED BY <2>1, <2>2, <2>3
<1>6. LibInv'
  <2>1. lib'[Copy(pin[c])] = Configured(c)'
    BY <1>1 DEF TypeOK
  <2>2. \A x \in Copies : x # Copy(pin[c]) => lib'[x] = lib[x]
    BY <1>1 DEF TypeOK
  <2>3. ASSUME NEW d \in Callers, pc'[d] \in Locked
        PROVE  lib'[Copy(pin'[d])] = Configured(d)'
    <3>1. d = c /\ pin'[d] = pin[c]
      BY <1>3, <2>3
    <3> QED BY <2>1, <3>1
  <2>4. ASSUME NEW x \in Copies, \A d \in Callers : pc'[d] \in Locked => Copy(pin'[d]) # x
        PROVE  lib'[x] = Untouched
    <3>1. x # Copy(pin[c])
      BY <1>3, <2>4
    <3>2. \A d \in Callers : pc[d] \in Locked => Copy(pin[d]) # x
      BY <1>3, <2>4
    <3> QED BY <2>2, <3>1, <3>2 DEF LibInv
  <2>5. Copy(pin[c])' = Copy(pin'[c])
    BY DEF Copy
  <2> QED BY <2>3, <2>4 DEF LibInv, Copies, Copy
<1> QED BY <1>4, <1>5, <1>6

LEMMA NextIInv == IInv /\ [Next]_vars => IInv'
<1> SUFFICES ASSUME IInv, [Next]_vars PROVE IInv'
  OBVIOUS
<1> USE DEF IInv, Entered, Locked
<1>0. None \notin Threads /\ None \notin Paths
  BY NoneAssumption
<1>1. ASSUME NEW c \in Callers, NEW p \in Paths, Call(c, p)
      PROVE  IInv'
  BY <1>1 DEF Call, Goto, TypeOK, AtMostOne, GateInv, PinInv, LibInv, Configured, Places, Entered, Locked
<1>2. ASSUME NEW c \in Callers, Acquire(c)
      PROVE  IInv'
  BY <1>2 DEF Acquire, Goto, TypeOK, AtMostOne, GateInv, PinInv, LibInv, Configured, Places, Entered, Locked
<1>3. ASSUME NEW c \in Callers, GiveUp(c) \/ TurnBack(c) \/ Return(c) \/ End(c)
      PROVE  IInv'
  BY <1>3 DEF GiveUp, TurnBack, Return, End, Goto, Outcomes, TypeOK, AtMostOne, GateInv, PinInv, LibInv,
              Configured, Places, Entered, Locked
<1>4. ASSUME NEW c \in Callers, NEW t \in Threads, LockThread(c, t)
      PROVE  IInv'
  <2>1. /\ pc' = [pc EXCEPT ![c] = "locked"] /\ pc[c] = "acquired"
        /\ pin' = [pin EXCEPT ![c] = t]
        /\ UNCHANGED <<gate, lib, path, how, ended>>
    BY <1>4 DEF LockThread, Goto
  <2>2. \A d \in Callers : /\ pc'[d] \in Entered <=> pc[d] \in Entered
                           /\ pc[d] \notin Locked
                           /\ pc'[d] \in Locked <=> d = c
                           /\ d # c => pin'[d] = pin[d] /\ pc'[d] = pc[d]
    BY <2>1 DEF TypeOK, AtMostOne, Locked, Entered
  <2>3. TypeOK'
    BY <2>1 DEF TypeOK, Places, Entered
  <2>4. AtMostOne'
    BY <2>2 DEF AtMostOne
  <2>5. GateInv'
    BY <2>1, <2>2, Zenon DEF GateInv
  <2>6. PinInv'
    BY <1>0, <2>1, <2>2 DEF PinInv, TypeOK
  <2>7. \A x \in Copies : lib'[x] = Untouched
    BY <2>1, <2>2 DEF LibInv
  <2>8. Copy(t) \in Copies /\ pin'[c] = t
    BY <2>1 DEF Copy, Copies, TypeOK
  <2>9. Configured(c)' = Untouched
    BY <2>1 DEF Configured, Untouched, TypeOK
  <2>10. LibInv'
    BY <2>2, <2>7, <2>8, <2>9 DEF LibInv, Copies, Copy
  <2> QED BY <2>3, <2>4, <2>5, <2>6, <2>10
<1>5. ASSUME NEW c \in Callers, NEW t \in Threads, SetPath(c, t)
      PROVE  IInv'
  <2>1. pc[c] \in Locked /\ "pathSet" \in Locked /\ pc[c] = "locked"
    BY <1>5 DEF SetPath, Locked
  <2>2. t = pin[c] /\ Copy(t) \in Copies
    BY <1>5, <2>1, OnOwnThread DEF SetPath
  <2>3. lib[Copy(t)] = [path |-> None, sid |-> None] /\ path[c] \in Paths \cup {None}
    BY <2>1, <2>2 DEF LibInv, Configured, TypeOK
  <2> DEFINE v == [path |-> path[c], sid |-> None]
  <2>4. v \in Library /\ lib' = [lib EXCEPT ![Copy(pin[c])] = v]
    <3>1. [lib[Copy(t)] EXCEPT !.path = path[c]] = v
      BY <2>3
    <3>2. lib' = [lib EXCEPT ![Copy(t)] = [lib[Copy(t)] EXCEPT !.path = path[c]]]
      BY <1>5 DEF SetPath
    <3> QED BY <2>2, <2>3, <3>1, <3>2 DEF Library
  <2>5. v = Configured(c)' /\ UNCHANGED <<gate, pin, path, how, ended>> /\ Goto(c, "pathSet")
    BY <1>5 DEF SetPath, Goto, Configured, TypeOK
  <2> HIDE DEF v
  <2> QED BY <2>1, <2>4, <2>5, LockedStep DEF TypeOK
<1>6. ASSUME NEW c \in Callers, NEW t \in Threads, SetSidMode(c, t)
      PROVE  IInv'
  <2>1. pc[c] \in Locked /\ "inside" \in Locked /\ pc[c] = "pathSet"
    BY <1>6 DEF SetSidMode, Locked
  <2>2. t = pin[c] /\ Copy(t) \in Copies
    BY <1>6, <2>1, OnOwnThread DEF SetSidMode
  <2>3. lib[Copy(t)] = [path |-> path[c], sid |-> None] /\ path[c] \in Paths \cup {None}
    BY <2>1, <2>2 DEF LibInv, Configured, TypeOK
  <2> DEFINE v == [path |-> path[c], sid |-> "lahiri"]
  <2>4. v \in Library /\ lib' = [lib EXCEPT ![Copy(pin[c])] = v]
    <3>1. [lib[Copy(t)] EXCEPT !.sid = "lahiri"] = v
      BY <2>3
    <3>2. lib' = [lib EXCEPT ![Copy(t)] = [lib[Copy(t)] EXCEPT !.sid = "lahiri"]]
      BY <1>6 DEF SetSidMode
    <3> QED BY <2>2, <2>3, <3>1, <3>2 DEF Library
  <2>5. v = Configured(c)' /\ UNCHANGED <<gate, pin, path, how, ended>> /\ Goto(c, "inside")
    BY <1>6 DEF SetSidMode, Goto, Configured, TypeOK
  <2> HIDE DEF v
  <2> QED BY <2>1, <2>4, <2>5, LockedStep DEF TypeOK
<1>7. ASSUME NEW c \in Callers, LeaveAny(c)
      PROVE  IInv'
  <2>1. /\ pc[c] \in Locked /\ "closing" \in Locked /\ pc[c] = "inside"
        /\ Goto(c, "closing") /\ UNCHANGED <<gate, lib, pin, path, ended>>
        /\ how' \in [Callers -> Outcomes \cup {None}]
    BY <1>7 DEF LeaveAny, Leave, Locked, TypeOK
  <2>2. pin[c] \in Threads /\ Copy(pin[c]) \in Copies
    BY <2>1 DEF PinInv, TypeOK, Copy, Copies
  <2> DEFINE v == lib[Copy(pin[c])]
  <2>3. v \in Library /\ lib' = [lib EXCEPT ![Copy(pin[c])] = v]
    BY <2>1, <2>2 DEF TypeOK
  <2>4. v = Configured(c)
    BY <2>1 DEF LibInv
  <2> HIDE DEF v
  <2>5. v = Configured(c)'
    BY <2>1, <2>4 DEF Configured, Goto, TypeOK
  <2> QED BY <2>1, <2>3, <2>5, LockedStep DEF TypeOK
<1>8. ASSUME NEW c \in Callers, NEW t \in Threads, Close(c, t)
      PROVE  IInv'
  <2>1. pc[c] \in Locked /\ "unlocking" \in Locked
    BY <1>8 DEF Close, Locked
  <2>2. t = pin[c] /\ Copy(t) \in Copies
    BY <1>8, <2>1, OnOwnThread DEF Close
  <2>3. Untouched \in Library /\ lib' = [lib EXCEPT ![Copy(pin[c])] = Untouched]
    BY <1>8, <2>2 DEF Close, Library, Untouched
  <2>4. Untouched = Configured(c)' /\ UNCHANGED <<gate, pin, path, how, ended>> /\ Goto(c, "unlocking")
    BY <1>8 DEF Close, Goto, Configured, TypeOK, Untouched
  <2> QED BY <2>1, <2>3, <2>4, LockedStep DEF TypeOK
<1>9. ASSUME NEW c \in Callers, UnlockThread(c)
      PROVE  IInv'
  <2>1. /\ pc' = [pc EXCEPT ![c] = "releasing"] /\ pc[c] = "unlocking"
        /\ pin' = [pin EXCEPT ![c] = None]
        /\ UNCHANGED <<gate, lib, path, how, ended>>
    BY <1>9 DEF UnlockThread, Goto
  <2>2. \A d \in Callers : /\ pc'[d] \in Entered <=> pc[d] \in Entered
                           /\ pc[d] \in Locked => d = c
                           /\ pc'[d] \notin Locked
                           /\ d # c => pin'[d] = pin[d] /\ pc'[d] = pc[d]
    BY <2>1 DEF TypeOK, AtMostOne, Locked, Entered
  <2>3. TypeOK'
    BY <2>1 DEF TypeOK, Places, Entered
  <2>4. AtMostOne'
    BY <2>2 DEF AtMostOne
  <2>5. GateInv'
    BY <2>1, <2>2, Zenon DEF GateInv
  <2>6. PinInv'
    BY <1>0, <2>1, <2>2 DEF PinInv, TypeOK
  <2>7. lib[Copy(pin[c])] = Untouched
    BY <2>1 DEF LibInv, Locked, Configured, Untouched
  <2>8. \A x \in Copies : lib'[x] = Untouched
    BY <2>1, <2>2, <2>7 DEF LibInv
  <2>9. LibInv'
    BY <2>2, <2>8 DEF LibInv, Copies
  <2> QED BY <2>3, <2>4, <2>5, <2>6, <2>9
<1>10. ASSUME NEW c \in Callers, Release(c)
      PROVE  IInv'
  BY <1>10 DEF Release, Goto, TypeOK, AtMostOne, GateInv, PinInv, LibInv, Configured, Places, Entered, Locked
<1>11. ASSUME UNCHANGED vars
      PROVE  IInv'
  BY <1>11 DEF vars, TypeOK, AtMostOne, GateInv, PinInv, LibInv, Configured
<1> QED BY <1>1, <1>2, <1>3, <1>4, <1>5, <1>6, <1>7, <1>8, <1>9, <1>10, <1>11 DEF Next, Proceed

-----------------------------------------------------------------------------
(* The theorems.                                                           *)

LEMMA SpecIInv == Spec => []IInv
BY InitIInv, NextIInv, PTL DEF Spec

\* Sessions exclude one another and the channel counts them, for any number
\* of goroutines (native.go:24, 75-83).
THEOREM SessionsExclude == Spec => []OneSession
<1>1. IInv => OneSession
  <2> SUFFICES ASSUME IInv PROVE OneSession
    OBVIOUS
  <2> DEFINE S == {c \in Callers : pc[c] \in Entered}
  <2>1. CASE \E c \in Callers : pc[c] \in Entered
    <3>1. PICK c \in Callers : pc[c] \in Entered
      BY <2>1
    <3>2. S = {c}
      BY <3>1 DEF IInv, AtMostOne
    <3>3. Cardinality(S) = 1
      BY <3>2, FS_Singleton
    <3> QED BY <2>1, <3>3 DEF OneSession, IInv, AtMostOne, GateInv
  <2>2. CASE ~ \E c \in Callers : pc[c] \in Entered
    <3>1. S = {}
      BY <2>2
    <3>2. Cardinality(S) = 0
      BY <3>1, FS_EmptySet
    <3> QED BY <2>2, <3>2 DEF OneSession, IInv, AtMostOne, GateInv
  <2> QED BY <2>1, <2>2
<1> QED BY <1>1, SpecIInv, PTL

\* During a session the library is configured for the session's Provider,
\* with any number of Providers and threads, and whether its variables are
\* thread-local or not (native.go:22-24, 90-97).
THEOREM SessionsConfigured == Spec => []OwnConfiguration
<1>1. IInv => OwnConfiguration
  <2> SUFFICES ASSUME IInv, NEW c \in Callers, NEW t \in Threads, pc[c] = "inside", RunsOn(c, t)
               PROVE  lib[Copy(t)] = [path |-> path[c], sid |-> "lahiri"]
    BY DEF OwnConfiguration
  <2>1. pc[c] \in Locked
    BY DEF Locked
  <2>2. t = pin[c]
    BY <2>1, OnOwnThread
  <2> QED BY <2>1, <2>2 DEF IInv, LibInv, Configured
<1> QED BY <1>1, SpecIInv, PTL

\* Nothing of a session outlives the gate (native.go:83-96).
THEOREM SessionsCleanUp == Spec => []NothingLeft
<1>1. IInv => NothingLeft
  <2> SUFFICES ASSUME IInv, gate = 0
               PROVE  /\ \A x \in Copies : lib[x] = Untouched
                      /\ \A c \in Callers : pin[c] = None
    BY DEF NothingLeft
  <2>1. \A c \in Callers : pc[c] \notin Locked
    BY DEF IInv, GateInv, Entered, Locked
  <2> QED BY <2>1 DEF IInv, PinInv, LibInv
<1> QED BY <1>1, SpecIInv, PTL

-----------------------------------------------------------------------------
(* The gate implements what its callers rely on.                           *)

\* How a session ends is decided before its deferred calls, and only a context that
\* is done ends it as one.
HowInv ==
  \A c \in Callers : pc[c] \in {"closing", "unlocking", "releasing"} =>
    how[c] \in Outcomes /\ (how[c] = "ctx" => c \in ended)

LEMMA NextHowInv == TypeOK /\ HowInv /\ [Next]_vars => HowInv'
<1> SUFFICES ASSUME TypeOK, HowInv, [Next]_vars PROVE HowInv'
  OBVIOUS
<1> USE DEF TypeOK, HowInv, Goto
<1>1. ASSUME NEW c \in Callers, Return(c) \/ End(c) PROVE HowInv'
  BY <1>1 DEF Return, End
<1>2. ASSUME NEW c \in Callers, TurnBack(c) \/ LeaveAny(c) PROVE HowInv'
  BY <1>2 DEF TurnBack, LeaveAny, Leave, Outcomes
<1>3. ASSUME NEW c \in Callers,
             \/ (\E p \in Paths : Call(c, p)) \/ Acquire(c) \/ GiveUp(c) \/ UnlockThread(c) \/ Release(c)
             \/ \E t \in Threads : LockThread(c, t) \/ SetPath(c, t) \/ SetSidMode(c, t) \/ Close(c, t)
      PROVE  HowInv'
  BY <1>3 DEF Call, Acquire, GiveUp, UnlockThread, Release, LockThread, SetPath, SetSidMode, Close
<1>4. CASE UNCHANGED vars
  BY <1>4 DEF vars
<1> QED
  BY <1>1, <1>2, <1>3, <1>4 DEF Next, Proceed

\* What a call looks like from outside.
Seen(c) ==
  CASE pc[c] = "idle" -> [at |-> "out"]
    [] pc[c] = "select" -> [at |-> "waiting"]
    [] pc[c] \in Entered -> [at |-> "in"]
    [] pc[c] = "over" -> [at |-> "back", how |-> how[c]]
seen == [c \in Callers |-> Seen(c)]

LEMMA SeenFacts ==
  ASSUME NEW c \in Callers
  PROVE  /\ pc[c] = "idle" => seen[c] = [at |-> "out"]
         /\ pc[c] = "select" => seen[c] = [at |-> "waiting"]
         /\ pc[c] \in Entered => seen[c] = [at |-> "in"]
         /\ pc[c] = "over" => seen[c] = [at |-> "back", how |-> how[c]]
         /\ pc'[c] = "idle" => seen'[c] = [at |-> "out"]
         /\ pc'[c] = "select" => seen'[c] = [at |-> "waiting"]
         /\ pc'[c] \in Entered => seen'[c] = [at |-> "in"]
         /\ pc'[c] = "over" => seen'[c] = [at |-> "back", how |-> how'[c]]
BY DEF seen, Seen, Entered

\* A step of c changes what is seen of c only.
LEMMA SeenStep ==
  ASSUME NEW c \in Callers, \A d \in Callers \ {c} : pc'[d] = pc[d] /\ how'[d] = how[d]
  PROVE  seen' = [seen EXCEPT ![c] = seen'[c]]
<1>1. \A d \in Callers \ {c} : Seen(d)' = Seen(d)
  BY DEF Seen
<1>2. seen' = [d \in Callers |-> Seen(d)'] /\ seen = [d \in Callers |-> Seen(d)]
  BY DEF seen
<1> QED
  BY <1>1, <1>2

LEMMA SeenSame ==
  ASSUME NEW c \in Callers, \A d \in Callers \ {c} : pc'[d] = pc[d] /\ how'[d] = how[d],
         seen'[c] = seen[c]
  PROVE  seen' = seen
<1>1. seen' = [seen EXCEPT ![c] = seen[c]]
  BY SeenStep
<1>2. seen = [d \in Callers |-> Seen(d)]
  BY DEF seen
<1> QED
  BY <1>1, <1>2

\* The steps of the contract, in terms of what is seen.
LEMMA SeenSteps ==
  ASSUME NEW c \in Callers
  PROVE  /\ (seen[c] = [at |-> "out"] /\ seen' = [seen EXCEPT ![c] = [at |-> "waiting"]] /\ ended' = ended)
            => Sessions!Ask(c)
         /\ (seen[c] = [at |-> "waiting"] /\ seen' = [seen EXCEPT ![c] = [at |-> "in"]]
             /\ (\A d \in Callers : seen[d] # [at |-> "in"]) /\ ended' = ended)
            => Sessions!Enter(c)
         /\ (seen[c] = [at |-> "waiting"] /\ c \in ended
             /\ seen' = [seen EXCEPT ![c] = [at |-> "back", how |-> "ctx"]] /\ ended' = ended)
            => Sessions!GiveUp(c)
         /\ \A outcome :
              (seen[c] = [at |-> "in"] /\ (outcome = "ctx" => c \in ended)
               /\ seen' = [seen EXCEPT ![c] = [at |-> "back", how |-> outcome]] /\ ended' = ended)
              => Sessions!Leave(c, outcome)
         /\ (seen[c].at = "back" /\ seen' = [seen EXCEPT ![c] = [at |-> "out"]]
             /\ ended' \in {ended, ended \ {c}})
            => Sessions!GoOn(c)
         /\ (c \notin ended /\ ended' = ended \cup {c} /\ seen' = seen) => Sessions!End(c)
<1> DEFINE st == [d \in Callers |->
             CASE pc[d] = "idle" -> [at |-> "out"]
               [] pc[d] = "select" -> [at |-> "waiting"]
               [] pc[d] \in Entered -> [at |-> "in"]
               [] pc[d] = "over" -> [at |-> "back", how |-> how[d]]]
<1>1. seen = st /\ seen' = st'
  BY Zenon DEF seen, Seen
<1>2. Sessions!Out = [at |-> "out"] /\ Sessions!Waiting = [at |-> "waiting"] /\ Sessions!In = [at |-> "in"]
      /\ \A outcome : Sessions!Back(outcome) = [at |-> "back", how |-> outcome]
  BY DEF Sessions!Out, Sessions!Waiting, Sessions!In, Sessions!Back
<1>3. Sessions!Ask(c) = (st[c] = Sessions!Out /\ st' = [st EXCEPT ![c] = Sessions!Waiting] /\ UNCHANGED ended)
  BY Zenon DEF Sessions!Ask
<1>4. Sessions!Enter(c) = (/\ st[c] = Sessions!Waiting
                          /\ \A d \in Callers : st[d] # Sessions!In
                          /\ st' = [st EXCEPT ![c] = Sessions!In]
                          /\ UNCHANGED ended)
  BY Zenon DEF Sessions!Enter
<1>5. Sessions!GiveUp(c) = (/\ st[c] = Sessions!Waiting /\ c \in ended
                           /\ st' = [st EXCEPT ![c] = Sessions!Back("ctx")]
                           /\ UNCHANGED ended)
  BY Zenon DEF Sessions!GiveUp
<1>6. \A outcome : Sessions!Leave(c, outcome) =
                     (/\ st[c] = Sessions!In /\ (outcome = "ctx" => c \in ended)
                      /\ st' = [st EXCEPT ![c] = Sessions!Back(outcome)]
                      /\ UNCHANGED ended)
  BY Zenon DEF Sessions!Leave
<1>7. Sessions!GoOn(c) = (/\ st[c].at = "back" /\ st' = [st EXCEPT ![c] = Sessions!Out]
                         /\ ended' \in {ended, ended \ {c}})
  BY Zenon DEF Sessions!GoOn
<1>8. Sessions!End(c) = (c \notin ended /\ ended' = ended \cup {c} /\ st' = st)
  BY Zenon DEF Sessions!End
<1> HIDE DEF st
<1>9. (seen[c] = [at |-> "out"] /\ seen' = [seen EXCEPT ![c] = [at |-> "waiting"]] /\ ended' = ended)
      => Sessions!Ask(c)
  BY <1>1, <1>2, <1>3
<1>10. ASSUME seen[c] = [at |-> "waiting"], seen' = [seen EXCEPT ![c] = [at |-> "in"]],
              \A d \in Callers : seen[d] # [at |-> "in"], ended' = ended
       PROVE  Sessions!Enter(c)
  <2>1. st[c] = Sessions!Waiting /\ st' = [st EXCEPT ![c] = Sessions!In]
    BY <1>1, <1>2, <1>10
  <2>2. \A d \in Callers : st[d] # Sessions!In
    BY <1>1, <1>2, <1>10
  <2> QED
    BY <1>4, <1>10, <2>1, <2>2
<1>11. ASSUME seen[c] = [at |-> "waiting"], c \in ended,
              seen' = [seen EXCEPT ![c] = [at |-> "back", how |-> "ctx"]], ended' = ended
       PROVE  Sessions!GiveUp(c)
  <2>1. st[c] = Sessions!Waiting /\ st' = [st EXCEPT ![c] = Sessions!Back("ctx")]
    BY <1>1, <1>2, <1>11
  <2> QED
    BY <1>5, <1>11, <2>1
<1>12. ASSUME NEW outcome, seen[c] = [at |-> "in"], outcome = "ctx" => c \in ended,
              seen' = [seen EXCEPT ![c] = [at |-> "back", how |-> outcome]], ended' = ended
       PROVE  Sessions!Leave(c, outcome)
  <2>1. st[c] = Sessions!In /\ st' = [st EXCEPT ![c] = Sessions!Back(outcome)]
    BY <1>1, <1>2, <1>12
  <2> QED
    BY <1>6, <1>12, <2>1
<1>13. ASSUME seen[c].at = "back", seen' = [seen EXCEPT ![c] = [at |-> "out"]],
              ended' \in {ended, ended \ {c}}
       PROVE  Sessions!GoOn(c)
  <2>1. st[c].at = "back" /\ st' = [st EXCEPT ![c] = Sessions!Out]
    BY <1>1, <1>2, <1>13
  <2> QED
    BY <1>7, <1>13, <2>1
<1>14. (c \notin ended /\ ended' = ended \cup {c} /\ seen' = seen) => Sessions!End(c)
  BY <1>1, <1>8, Zenon
<1> QED
  BY <1>9, <1>10, <1>11, <1>12, <1>13, <1>14, Zenon

\* A step inside a session is not seen.
LEMMA InsideUnseen ==
  ASSUME NEW c \in Callers, pc[c] \in Entered, pc'[c] \in Entered,
         \A d \in Callers \ {c} : pc'[d] = pc[d] /\ how'[d] = how[d]
  PROVE  seen' = seen
<1>1. seen[c] = [at |-> "in"] /\ seen'[c] = [at |-> "in"]
  BY SeenFacts
<1> QED
  BY <1>1, SeenSame

LEMMA StepRefines ==
  ASSUME IInv, HowInv, NEW c \in Callers,
         \/ \E p \in Paths : Call(c, p)
         \/ Acquire(c) \/ GiveUp(c) \/ Proceed(c) \/ Return(c) \/ End(c)
  PROVE  \/ Sessions!Ask(c) \/ Sessions!Wait(c) \/ Sessions!LeaveAny(c) \/ Sessions!GoOn(c)
         \/ Sessions!End(c)
         \/ seen' = seen /\ ended' = ended
<1> USE DEF IInv, TypeOK, Goto
<1>1. ASSUME NEW p \in Paths, Call(c, p) PROVE Sessions!Ask(c)
  <2>1. pc[c] = "idle" /\ pc'[c] = "select" /\ ended' = ended
        /\ \A d \in Callers \ {c} : pc'[d] = pc[d] /\ how'[d] = how[d]
    BY <1>1 DEF Call
  <2> QED
    BY <2>1, SeenFacts, SeenStep, SeenSteps
<1>2. ASSUME Acquire(c) PROVE Sessions!Enter(c)
  <2>1. pc[c] = "select" /\ pc'[c] = "acquired" /\ ended' = ended
        /\ \A d \in Callers \ {c} : pc'[d] = pc[d] /\ how'[d] = how[d]
    BY <1>2 DEF Acquire
  <2>2. \A d \in Callers : pc[d] \in {"idle", "select", "over"}
    BY <1>2 DEF Acquire, GateInv, Places, Entered
  <2>3. \A d \in Callers : seen[d] # [at |-> "in"]
    <3> SUFFICES ASSUME NEW d \in Callers PROVE seen[d] # [at |-> "in"]
      OBVIOUS
    <3>1. /\ [at |-> "out"].at = "out" /\ [at |-> "waiting"].at = "waiting" /\ [at |-> "in"].at = "in"
          /\ [at |-> "back", how |-> how[d]].at = "back"
      OBVIOUS
    <3>2. seen[d].at \in {"out", "waiting", "back"}
      BY <2>2, <3>1, SeenFacts
    <3> QED
      BY <3>1, <3>2
  <2> QED
    BY <2>1, <2>3, SeenFacts, SeenStep, SeenSteps DEF Entered
<1>3. ASSUME GiveUp(c) PROVE Sessions!GiveUp(c)
  <2>1. pc[c] = "select" /\ pc'[c] = "over" /\ how'[c] = "ctx" /\ ended' = ended /\ c \in ended
        /\ \A d \in Callers \ {c} : pc'[d] = pc[d] /\ how'[d] = how[d]
    BY <1>3 DEF GiveUp
  <2> QED
    BY <2>1, SeenFacts, SeenStep, SeenSteps
<1>4. ASSUME Release(c) PROVE Sessions!LeaveAny(c)
  <2>1. pc[c] = "releasing" /\ pc'[c] = "over" /\ how' = how /\ ended' = ended
        /\ \A d \in Callers \ {c} : pc'[d] = pc[d] /\ how'[d] = how[d]
    BY <1>4 DEF Release
  <2>2. how[c] \in Sessions!Outcomes /\ (how[c] = "ctx" => c \in ended)
    BY <2>1 DEF HowInv, Outcomes, Sessions!Outcomes
  <2>3. PICK outcome \in Sessions!Outcomes : outcome = how[c]
    BY <2>2
  <2>4. pc[c] \in Entered /\ pc'[c] = "over" /\ how'[c] = outcome
    BY <2>1, <2>3 DEF Entered
  <2>5. seen[c] = [at |-> "in"] /\ seen' = [seen EXCEPT ![c] = [at |-> "back", how |-> outcome]]
    BY <2>1, <2>4, SeenFacts, SeenStep
  <2>6. Sessions!Leave(c, outcome)
    BY <2>1, <2>2, <2>3, <2>5, SeenSteps
  <2> QED
    BY <2>6, Zenon DEF Sessions!LeaveAny
<1>5. ASSUME TurnBack(c) \/ LeaveAny(c) \/ UnlockThread(c)
             \/ \E t \in Threads : LockThread(c, t) \/ SetPath(c, t) \/ SetSidMode(c, t) \/ Close(c, t)
      PROVE  seen' = seen /\ ended' = ended
  <2>1. pc[c] \in Entered /\ pc'[c] \in Entered /\ ended' = ended
        /\ \A d \in Callers \ {c} : pc'[d] = pc[d] /\ how'[d] = how[d]
    BY <1>5 DEF TurnBack, LeaveAny, Leave, UnlockThread, LockThread, SetPath, SetSidMode, Close, Entered
  <2> QED
    BY <2>1, InsideUnseen
<1>6. ASSUME Return(c) PROVE Sessions!GoOn(c)
  <2>1. pc[c] = "over" /\ pc'[c] = "idle" /\ ended' \in {ended, ended \ {c}}
        /\ \A d \in Callers \ {c} : pc'[d] = pc[d] /\ how'[d] = how[d]
    BY <1>6 DEF Return
  <2>2. seen[c] = [at |-> "back", how |-> how[c]] /\ seen'[c] = [at |-> "out"]
    BY <2>1, SeenFacts
  <2>3. seen[c].at = "back" /\ seen' = [seen EXCEPT ![c] = [at |-> "out"]]
    BY <2>1, <2>2, SeenStep
  <2> QED
    BY <2>1, <2>3, SeenSteps
<1>7. ASSUME End(c) PROVE Sessions!End(c)
  <2>1. seen' = seen /\ c \notin ended /\ ended' = ended \cup {c}
    BY <1>7 DEF End, seen, Seen
  <2> QED
    BY <2>1, SeenSteps
<1> QED
  BY <1>1, <1>2, <1>3, <1>4, <1>5, <1>6, <1>7 DEF Proceed, Sessions!Wait

\* For any number of callers WithSession provides the sessions that the rest of
\* the program relies on: its nine statements are the steps of SessionGate
\* (native.go:73-98).
THEOREM GateImplementsSessions == Spec => Sessions!Spec
<1>1. Init => Sessions!Init
  <2>1. Init => seen = [c \in Callers |-> [at |-> "out"]] /\ ended = {}
    <3> SUFFICES ASSUME Init PROVE seen = [c \in Callers |-> [at |-> "out"]] /\ ended = {}
      OBVIOUS
    <3>1. \A c \in Callers : seen[c] = [at |-> "out"]
      BY SeenFacts DEF Init
    <3>2. seen = [c \in Callers |-> seen[c]]
      BY DEF seen
    <3> QED
      BY <3>1, <3>2 DEF Init
  <2> QED
    BY <2>1, Zenon DEF seen, Seen, Sessions!Init, Sessions!Out
<1>2. IInv /\ HowInv /\ [Next]_vars => [Sessions!Next]_(Sessions!vars)
  <2> SUFFICES ASSUME IInv, HowInv, [Next]_vars PROVE [Sessions!Next]_(Sessions!vars)
    OBVIOUS
  <2>1. ASSUME seen' = seen, ended' = ended PROVE UNCHANGED Sessions!vars
    BY <2>1, Zenon DEF seen, Seen, Sessions!vars
  <2>2. ASSUME NEW c \in Callers,
               \/ \E p \in Paths : Call(c, p)
               \/ Acquire(c) \/ GiveUp(c) \/ Proceed(c) \/ Return(c) \/ End(c)
        PROVE  [Sessions!Next]_(Sessions!vars)
    BY <2>1, <2>2, StepRefines DEF Sessions!Next
  <2>3. CASE UNCHANGED vars
    <3>1. seen' = seen /\ ended' = ended
      BY <2>3 DEF vars, seen, Seen
    <3> QED
      BY <2>1, <3>1
  <2> QED
    BY <2>2, <2>3 DEF Next
<1>3. Init => HowInv
  BY DEF Init, HowInv
<1>4. IInv => TypeOK
  BY DEF IInv
<1> QED
  BY <1>1, <1>2, <1>3, <1>4, NextHowInv, SpecIInv, PTL DEF Spec, Sessions!Spec
=============================================================================
