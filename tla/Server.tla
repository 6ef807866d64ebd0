------------------------------- MODULE Server -------------------------------
(***************************************************************************)
(* internal/api/server.go: the life of a request, composed with the cache  *)
(* (Memo) and with the ephemeris sessions (SessionGate, which NativeGate   *)
(* implements).  A request takes an admission slot or is turned away, gets *)
(* a context with a deadline, is decoded, goes through Cache.Do (panchang, *)
(* festivals) or straight to a session (charts, readiness), and on every   *)
(* path, also after a panic, its deferred functions give the slot back and *)
(* count it.  Counters are kept per request, as what the request added.    *)
(***************************************************************************)
EXTENDS Naturals, Sequences, FiniteSets

CONSTANTS Requests,      \* goroutines of net/http, one request at a time each
          Routes,        \* the routes that are asked for
          PanchangKeys,  \* cache keys of the panchang route
          FestivalKeys,  \* cache keys of the festivals route
          Months,        \* sessions of one year scan
          MaxInflight,   \* Config.MaxInflight
          Flights, Elements, Capacity, None  \* see Memo

ASSUME ServerAssumption ==
  /\ Routes \subseteq {"charts", "panchang", "festivals", "ready"}
  /\ Months \in Nat \ {0} /\ MaxInflight \in Nat \ {0}
  /\ PanchangKeys \cap FestivalKeys = {}

VARIABLES lru, entry, items, running, flight, pc, arg, held, ret, ended,  \* see Memo
          st,      \* see SessionGate
          slots,   \* len(Server.slots)
          at,      \* place in the handler
          route,   \* the route that was asked for
          left,    \* sessions that the calculation still has to run
          status,  \* the answer written, by its meaning
          tally    \* what the request added to the counters

memoVars == <<lru, entry, items, running, flight, pc, arg, held, ret>>
vars == <<memoVars, ended, st, slots, at, route, left, status, tally>>

Keys == PanchangKeys \cup FestivalKeys
Cache == INSTANCE Memo WITH Callers <- Requests
Gate == INSTANCE SessionGate WITH Callers <- Requests

\* The keys a route may look up (charts and readiness have no cache) and the
\* sessions its calculation takes.
KeysOf(rt) == CASE rt = "panchang" -> PanchangKeys [] rt = "festivals" -> FestivalKeys [] OTHER -> {}
SessionsOf(rt) == IF rt = "festivals" THEN Months ELSE 1

\* 200, 401, 400/413/415/422 for the request itself, 503 overloaded, 422 for a
\* place without sunrise, 504, 503 and 500.
Answers == {"ok", "unauthorized", "invalid", "overloaded", "noevent", "timeout", "unavailable", "internal"}

\* What Memo assumes of the constants; nil is no answer either.
ASSUME CacheAssumption ==
  /\ Capacity \in Nat
  /\ None \notin Flights \cup Elements \cup Keys \cup Cache!Entry \cup Cache!Flight \cup Cache!Result
  /\ None \notin Answers

Counters == {"denied", "rejected", "hits", "misses", "native", "requests", "failures"}
NoTally == [x \in Counters |-> 0]
Bump(r, x) == [tally EXCEPT ![r][x] = @ + 1]

\* Where a request has a slot, and where its context exists.
Admitted == {"decoding", "lookup", "inDo", "solo", "leaving"}

TypeOK ==
  /\ Cache!TypeOK
  /\ slots \in 0..MaxInflight
  /\ at \in [Requests -> {"idle", "arrived", "recording", "answered"} \cup Admitted]
  /\ route \in [Requests -> Routes \cup {None}]
  /\ left \in [Requests -> 0..Months]
  /\ status \in [Requests -> Answers \cup {None}]
  /\ tally \in [Requests -> [Counters -> 0..1]]

Init ==
  /\ Cache!Init
  /\ st = [r \in Requests |-> Gate!Out]
  /\ slots = 0
  /\ at = [r \in Requests |-> "idle"]
  /\ route = [r \in Requests |-> None]
  /\ left = [r \in Requests |-> 0]
  /\ status = [r \in Requests |-> None]
  /\ tally = [r \in Requests |-> NoTally]

Goto(r, place) == at' = [at EXCEPT ![r] = place]
Answer(r, answer) == status' = [status EXCEPT ![r] = answer]

-----------------------------------------------------------------------------
(* Arrival and admission.                                                  *)

Arrive(r, rt) ==
  /\ at[r] = "idle"
  /\ Goto(r, "arrived")
  /\ route' = [route EXCEPT ![r] = rt]
  /\ UNCHANGED <<memoVars, ended, st, slots, left, status, tally>>

\* Lines 149-163: a wrong token is refused before anything else.
Deny(r) ==
  /\ at[r] = "arrived"
  /\ tally' = Bump(r, "denied")
  /\ Answer(r, "unauthorized")
  /\ Goto(r, "answered")
  /\ UNCHANGED <<memoVars, ended, st, slots, route, left>>

\* Lines 272-287 and 85-94: a slot without waiting; the context starts here,
\* before the body is read.
Admit(r) ==
  /\ at[r] = "arrived"
  /\ slots < MaxInflight
  /\ slots' = slots + 1
  /\ Goto(r, IF route[r] = "ready" THEN "solo" ELSE "decoding")
  /\ left' = [left EXCEPT ![r] = SessionsOf(route[r])]
  /\ UNCHANGED <<memoVars, ended, st, route, status, tally>>

Reject(r) ==
  /\ at[r] = "arrived"
  /\ slots = MaxInflight
  /\ tally' = Bump(r, "rejected")
  /\ Answer(r, "overloaded")
  /\ Goto(r, IF route[r] = "ready" THEN "answered" ELSE "recording")
  /\ UNCHANGED <<memoVars, ended, st, slots, route, left>>

\* Mutant: the slot covers the decoding only.
DecodeGivingSlotBack(r) ==
  /\ at[r] = "decoding"
  /\ slots' = slots - 1
  /\ \/ Answer(r, "invalid") /\ Goto(r, "recording")
     \/ Goto(r, IF route[r] = "charts" THEN "solo" ELSE "lookup") /\ UNCHANGED status
  /\ UNCHANGED <<memoVars, ended, st, route, left, tally>>

\* decode and Validate or Resolve (lines 290-336).
Decode(r) ==
  /\ at[r] = "decoding"
  /\ \/ Answer(r, "invalid") /\ Goto(r, "leaving")
     \/ Goto(r, IF route[r] = "charts" THEN "solo" ELSE "lookup") /\ UNCHANGED status
  /\ UNCHANGED <<memoVars, ended, st, slots, route, left, tally>>

-----------------------------------------------------------------------------
(* The calculation: Cache.Do with the sessions of fn, or sessions alone.   *)

Lookup(r) ==
  /\ at[r] = "lookup"
  /\ \E k \in KeysOf(route[r]) :
       Cache!Hit(r, k) \/ Cache!Join(r, k) \/ \E f \in Flights : Cache!Lead(r, k, f)
  /\ Goto(r, "inDo")
  /\ UNCHANGED <<st, slots, route, left, status, tally>>

\* r runs the code that calculates: its own, or fn as the leader of a flight.
Calculating(r) == at[r] = "solo" \/ (at[r] = "inDo" /\ pc[r] = "computing")

\* WithSession is called; fn has counted the miss first (lines 304, 343).
Ask(r) ==
  /\ Calculating(r)
  /\ Gate!Ask(r)
  /\ tally' = IF at[r] = "inDo" /\ left[r] = SessionsOf(route[r]) THEN Bump(r, "misses") ELSE tally
  /\ UNCHANGED <<memoVars, slots, at, route, left, status>>

\* Mutant: waiting for the gate ignores the context.
WaitForever(r) ==
  /\ Gate!Enter(r)
  /\ UNCHANGED <<memoVars, slots, at, route, left, status, tally>>

Wait(r) ==
  /\ Gate!Wait(r)
  /\ UNCHANGED <<memoVars, slots, at, route, left, status, tally>>

\* The session ends; measuredProvider counts a failure of the engine, which
\* neither the context nor ErrNoEvent is (lines 416-439).
Leave(r, how) ==
  /\ Gate!Leave(r, how)
  /\ tally' = IF how = "fail" THEN Bump(r, "native") ELSE tally
  /\ UNCHANGED <<memoVars, slots, at, route, left, status>>

\* Year goes on with the next month, on the same context.
NextMonth(r) ==
  /\ Calculating(r)
  /\ st[r] = Gate!Back("nil")
  /\ left[r] > 1
  /\ left' = [left EXCEPT ![r] = @ - 1]
  /\ UNCHANGED <<memoVars, ended, slots, at, route, status, tally>>
  /\ Gate!GoOn(r)

\* How the calculation ended: as its last session, or with an error of
\* json.Marshal after it.
Ended(r, how) ==
  /\ st[r].at = "back"
  /\ st[r].how = "nil" => left[r] = 1
  /\ how = st[r].how \/ (st[r].how = "nil" /\ how = "fail" /\ route[r] # "ready")

FnReturns(r, how) ==
  /\ at[r] = "inDo" /\ pc[r] = "computing"
  /\ Ended(r, how)
  /\ IF how = "panic" THEN Cache!Panic(r) ELSE Cache!Finish(r, how)
  /\ Gate!GoOn(r)
  /\ UNCHANGED <<slots, at, route, left, status, tally>>

Follow(r) ==
  /\ at[r] = "inDo"
  /\ Cache!Wake(r)
  /\ UNCHANGED <<st, slots, at, route, left, status, tally>>

\* Mutant: every error of a calculation answers 504.
VerdictTimeout(r, err) ==
  CASE err = "panic" -> None
    [] err = "nil" /\ r \notin ended -> "ok"
    [] OTHER -> "timeout"

\* Lines 354-376: the context is looked at once more after a success, then the
\* error decides the answer.  A panic answers only when it is recovered.
Verdict(r, err) ==
  CASE err = "panic" -> None
    [] err = "ctx" \/ (err = "nil" /\ r \in ended) -> "timeout"
    [] err = "nil" /\ r \notin ended -> "ok"
    [] err = "noevent" -> "noevent"
    [] err = "fail" -> "unavailable"

\* Do has returned: lines 310-312 and 349-352, then the verdict.
Conclude(r) ==
  /\ at[r] = "inDo" /\ pc[r] = "done"
  /\ tally' = IF ret[r].cached /\ ret[r].err = "nil" THEN Bump(r, "hits") ELSE tally
  /\ Answer(r, Verdict(r, ret[r].err))
  /\ Goto(r, "leaving")
  /\ UNCHANGED <<memoVars, ended, st, slots, route, left>>

\* Mutant: the handler leaves a session behind when its context is done.
ConcludeEarly(r, how) ==
  /\ at[r] = "solo"
  /\ r \in ended /\ how = "ctx" /\ st[r] = Gate!In
  /\ Answer(r, "timeout")
  /\ Goto(r, "leaving")
  /\ UNCHANGED <<memoVars, ended, st, slots, route, left, tally>>

\* A chart (lines 314-328, 354-376), or the readiness probe, for which every
\* error is the same and whose context is not looked at again (lines 95-111).
ConcludeSolo(r, how) ==
  /\ at[r] = "solo"
  /\ Ended(r, how)
  /\ Answer(r, IF route[r] # "ready" THEN Verdict(r, how)
               ELSE CASE how = "nil" -> "ok" [] how = "panic" -> None [] OTHER -> "unavailable")
  /\ Goto(r, "leaving")
  /\ UNCHANGED <<memoVars, ended, slots, route, left, tally>>
  /\ Gate!GoOn(r)

-----------------------------------------------------------------------------
(* The deferred functions: the slot first, then the recovery and the       *)
(* counters (lines 250-270; for readiness the recovery of lines 122-126).  *)

\* Mutant: a panic does not give the slot back.
GiveSlotBackUnlessPanic(r) ==
  /\ at[r] = "leaving"
  /\ slots' = IF status[r] = None THEN slots ELSE slots - 1
  /\ Goto(r, "recording")
  /\ UNCHANGED <<memoVars, ended, st, route, left, status, tally>>

GiveSlotBack(r) ==
  /\ at[r] = "leaving"
  /\ slots' = slots - 1
  /\ Goto(r, "recording")
  /\ UNCHANGED <<memoVars, ended, st, route, left, status, tally>>

\* Mutant: the failure is counted by the status before the recovery.
RecordBeforeRecovery(r) ==
  /\ at[r] = "recording"
  /\ Answer(r, IF status[r] = None THEN "internal" ELSE status[r])
  /\ tally' = IF route[r] = "ready" THEN tally
              ELSE [tally EXCEPT ![r].requests = @ + 1,
                                 ![r].failures = @ + (IF status[r] \in {"ok", None} THEN 0 ELSE 1)]
  /\ Goto(r, "answered")
  /\ UNCHANGED <<memoVars, ended, st, slots, route, left>>

Record(r) ==
  /\ at[r] = "recording"
  /\ Answer(r, IF status[r] = None THEN "internal" ELSE status[r])
  /\ tally' = IF route[r] = "ready" THEN tally
              ELSE [tally EXCEPT ![r].requests = @ + 1,
                                 ![r].failures = @ + (IF status'[r] = "ok" THEN 0 ELSE 1)]
  /\ Goto(r, "answered")
  /\ UNCHANGED <<memoVars, ended, st, slots, route, left>>

-----------------------------------------------------------------------------
(* The environment.                                                        *)

\* The connection's goroutine reads its next request.
NextRequest(r) ==
  /\ at[r] = "answered"
  /\ Goto(r, "idle")
  /\ route' = [route EXCEPT ![r] = None]
  /\ left' = [left EXCEPT ![r] = 0]
  /\ Answer(r, None)
  /\ tally' = [tally EXCEPT ![r] = NoTally]
  /\ IF pc[r] = "done" THEN Cache!Return(r) ELSE ended' = ended \ {r} /\ UNCHANGED memoVars
  /\ UNCHANGED <<st, slots>>

\* The deadline passes or the client goes away.
End(r) ==
  /\ at[r] \in Admitted \ {"leaving"}
  /\ Cache!End(r)
  /\ UNCHANGED <<st, slots, at, route, left, status, tally>>

Expire(e) ==
  /\ Cache!Expire(e)
  /\ UNCHANGED <<st, slots, at, route, left, status, tally>>

\* What the goroutine of r does when it can run.
Work(r) ==
  \/ Deny(r) \/ Admit(r) \/ Reject(r) \/ Decode(r) \/ Lookup(r) \/ Ask(r) \/ NextMonth(r)
  \/ Follow(r) \/ Conclude(r) \/ GiveSlotBack(r) \/ Record(r)
  \/ \E how \in Gate!Outcomes : Leave(r, how) \/ FnReturns(r, how) \/ ConcludeSolo(r, how)

Next ==
  \/ \E r \in Requests : (\E rt \in Routes : Arrive(r, rt)) \/ Work(r) \/ Wait(r) \/ NextRequest(r) \/ End(r)
  \/ \E e \in Elements : Expire(e)

Spec == Init /\ [][Next]_vars

\* Goroutines run, bodies are read or time out (main.go:88), sessions end, and
\* every context has its deadline.
FairSpec ==
  Spec /\ \A r \in Requests : WF_vars(Work(r)) /\ WF_vars(Wait(r)) /\ WF_vars(End(r))

-----------------------------------------------------------------------------

\* Every slot belongs to a request on its way and every request on its way has
\* one, whichever way requests end (server.go:85-93, 272-280).
SlotsAccounted == slots = Cardinality({r \in Requests : at[r] \in Admitted})

\* "concurrent flights are bounded by the HTTP server admission limit"
\* (cache.go:35-36): those computing, and those still held by a follower.
FlightsWithinLimit ==
  Cardinality({f \in Flights : flight[f] # None}) <= slots

\* An answered request is counted once, by what it came to: rejections, hits
\* and misses exclude one another, an answer from a cached route was counted as
\* a hit or a miss, and a failing engine never answers 200 (server.go:250-311).
CountedOnce ==
  \A r \in Requests : at[r] = "answered" =>
    LET t == tally[r] IN
    /\ t.denied + t.rejected + t.hits + t.misses <= 1
    /\ t.denied = 1 <=> status[r] = "unauthorized"
    /\ t.rejected = 1 <=> status[r] = "overloaded"
    /\ t.requests = IF route[r] = "ready" \/ t.denied = 1 THEN 0 ELSE 1
    /\ t.failures = IF status[r] = "ok" THEN 0 ELSE t.requests
    /\ status[r] = "ok" /\ KeysOf(route[r]) # {} => t.hits + t.misses = 1
    /\ t.native = 1 => status[r] = "unavailable"

\* A request times out only if its own context is done or it shared the flight
\* of another, and it never answers 200 with a key that is not its own
\* (server.go:354-359, cache.go:51-56).
TimeoutsExplained ==
  \A r \in Requests : at[r] = "leaving" =>
    /\ status[r] = "timeout" => r \in ended \/ (pc[r] = "done" /\ ret[r].cached /\ ret[r].err = "ctx")
    /\ status[r] = "ok" /\ KeysOf(route[r]) # {} => ret[r].data = arg[r] /\ arg[r] \in KeysOf(route[r])

\* What the API description says of 504, "Calculation or native queue deadline
\* exceeded" (openapi.yaml:142): a flight that fails its followers with a
\* context's error is one whose leader's context is done.
SharedTimeoutIsDeadline ==
  [][\A r \in Requests :
       /\ pc[r] = "computing" /\ pc'[r] = "done"
       /\ flight'[held[r]] # None
       /\ flight'[held[r]].err = "ctx"
       => r \in ended]_vars

\* Nobody waits or holds a flight, a session or the gate without a slot, so an
\* idle server holds nothing (server.go:247-376).
IdleHoldsNothing ==
  \A r \in Requests : at[r] \notin Admitted => held[r] = None /\ st[r] = Gate!Out

\* Every request is answered, whatever the others do (server.go:77-376).
Answered == \A r \in Requests : at[r] = "arrived" ~> at[r] = "answered"
=============================================================================
