-------------------------------- MODULE Memo --------------------------------
(***************************************************************************)
(* internal/memo/cache.go: a bounded LRU cache with duplicate-request      *)
(* coalescing.  Cache.Do takes the mutex twice, around the lookup and      *)
(* around the publication of a result; each critical section is one action *)
(* here.  fn runs between them without the mutex, and a follower blocks in *)
(* a select on its context and on the flight it joined.                    *)
(*                                                                         *)
(* Pointers are identities: a *flight is a member of Flights, a            *)
(* *list.Element a member of Elements.  A flight nobody holds is garbage   *)
(* and its identity may be used again, so behaviours are not bounded.  The *)
(* bytes computed for key k are represented by k itself.                   *)
(***************************************************************************)
EXTENDS Naturals, Sequences, SequencesExt

CONSTANTS Callers,   \* goroutines that call Do, one call at a time each
          Keys,      \* cache keys
          Flights,   \* identities of *flight
          Elements,  \* identities of *list.Element
          Capacity,  \* Cache.capacity
          None       \* nil

ASSUME CapacityAssumption == Capacity \in Nat

VARIABLES lru,      \* the list, most recently used first
          entry,    \* the entry stored in an element of the list
          items,    \* the index: key -> element
          running,  \* key -> the flight computing it
          flight,   \* flights some caller holds
          pc, arg, held, ret,  \* per caller: place in Do, key, flight, result
          ended     \* callers whose context is done

store == <<lru, entry, items>>
calls == <<pc, arg, held, ret>>
vars == <<lru, entry, items, running, flight, pc, arg, held, ret, ended>>

\* "ctx" stands for context.Canceled and context.DeadlineExceeded, which the
\* server treats alike; "noevent" for ephemeris.ErrNoEvent; "fail" for any
\* other error of fn.
Errs == {"nil", "ctx", "noevent", "fail"}
Entry == [key : Keys, data : Keys, expired : BOOLEAN]
Flight == [done : BOOLEAN, data : Keys \cup {None}, err : Errs]
Result == [data : Keys \cup {None}, cached : BOOLEAN, err : Errs \cup {"panic"}]

\* nil is none of the values it stands in for.
ASSUME NoneAssumption ==
  None \notin Flights \cup Elements \cup Keys \cup Entry \cup Flight \cup Result

TypeOK ==
  /\ lru \in Seq(Elements)
  /\ entry \in [Elements -> Entry \cup {None}]
  /\ items \in [Keys -> Elements \cup {None}]
  /\ running \in [Keys -> Flights \cup {None}]
  /\ flight \in [Flights -> Flight \cup {None}]
  /\ pc \in [Callers -> {"idle", "computing", "waiting", "done"}]
  /\ arg \in [Callers -> Keys \cup {None}]
  /\ held \in [Callers -> Flights \cup {None}]
  /\ ret \in [Callers -> Result \cup {None}]
  /\ ended \subseteq Callers

Init ==
  /\ lru = <<>>
  /\ entry = [e \in Elements |-> None]
  /\ items = [k \in Keys |-> None]
  /\ running = [k \in Keys |-> None]
  /\ flight = [f \in Flights |-> None]
  /\ pc = [c \in Callers |-> "idle"]
  /\ arg = [c \in Callers |-> None]
  /\ held = [c \in Callers |-> None]
  /\ ret = [c \in Callers |-> None]
  /\ ended = {}

-----------------------------------------------------------------------------
(* The list operations of container/list that Do uses.                     *)

Unlink(e) == RemoveAt(lru, CHOOSE i \in 1..Len(lru) : lru[i] = e)

\* Mutant: a hit does not count as a use.
NoMove(e) == lru

MoveToFront(e) == <<e>> \o Unlink(e)

\* An entry is served while time.Now() is before its expiry.
Fresh(k) == items[k] # None /\ ~entry[items[k]].expired

\* Mutants: the expired entry stays in the list, or stays altogether.
DropFromIndexOnly(k) == items' = [items EXCEPT ![k] = None] /\ UNCHANGED <<lru, entry>>
KeepExpired(k) == UNCHANGED store

\* Do lines 45-47: the entry found is no longer fresh and leaves list and index.
DropExpired(k) ==
  IF items[k] = None
  THEN UNCHANGED store
  ELSE /\ lru' = Unlink(items[k])
       /\ entry' = [entry EXCEPT ![items[k]] = None]
       /\ items' = [items EXCEPT ![k] = None]

\* Do lines 75-83: push e for key k in front, index it, then evict from the
\* back while the list is longer than the capacity.
PushAndEvict(e, k, data) ==
  LET grown == <<e>> \o lru
      evicted == {grown[i] : i \in (Capacity + 1)..Len(grown)}
      entries == [entry EXCEPT ![e] = [key |-> k, data |-> data, expired |-> FALSE]]
  IN /\ lru' = SubSeq(grown, 1, IF Len(grown) > Capacity THEN Capacity ELSE Len(grown))
     /\ entry' = [x \in Elements |-> IF x \in evicted THEN None ELSE entries[x]]
     /\ items' = [j \in Keys |-> IF \E x \in evicted : entries[x].key = j THEN None
                                 ELSE IF j = k THEN e ELSE items[j]]

\* Caller c leaves Do: it drops its flight, which is garbage if nobody else
\* holds it and otherwise stays as final.
Settle(c, r, final) ==
  /\ pc' = [pc EXCEPT ![c] = "done"]
  /\ ret' = [ret EXCEPT ![c] = r]
  /\ held' = [held EXCEPT ![c] = None]
  /\ flight' = [flight EXCEPT ![held[c]] =
                  IF \E d \in Callers \ {c} : held[d] = held[c] THEN final ELSE None]
  /\ UNCHANGED <<arg, ended>>

-----------------------------------------------------------------------------
(* The lookup: lines 38-60, one critical section.                          *)

Hit(c, k) ==
  /\ pc[c] = "idle"
  /\ Fresh(k)
  /\ lru' = MoveToFront(items[k])
  /\ pc' = [pc EXCEPT ![c] = "done"]
  /\ arg' = [arg EXCEPT ![c] = k]
  /\ ret' = [ret EXCEPT ![c] = [data |-> entry[items[k]].data, cached |-> TRUE, err |-> "nil"]]
  /\ UNCHANGED <<entry, items, running, flight, held, ended>>

Join(c, k) ==
  /\ pc[c] = "idle"
  /\ ~Fresh(k)
  /\ running[k] # None
  /\ DropExpired(k)
  /\ pc' = [pc EXCEPT ![c] = "waiting"]
  /\ arg' = [arg EXCEPT ![c] = k]
  /\ held' = [held EXCEPT ![c] = running[k]]
  /\ UNCHANGED <<running, flight, ret, ended>>

\* Mutant: a caller leads without looking for a running flight.
LeadAlways(c, k, f) ==
  /\ pc[c] = "idle"
  /\ ~Fresh(k)
  /\ flight[f] = None
  /\ DropExpired(k)
  /\ running' = [running EXCEPT ![k] = f]
  /\ flight' = [flight EXCEPT ![f] = [done |-> FALSE, data |-> None, err |-> "nil"]]
  /\ pc' = [pc EXCEPT ![c] = "computing"]
  /\ arg' = [arg EXCEPT ![c] = k]
  /\ held' = [held EXCEPT ![c] = f]
  /\ UNCHANGED <<ret, ended>>

Lead(c, k, f) ==
  /\ pc[c] = "idle"
  /\ ~Fresh(k)
  /\ running[k] = None
  /\ flight[f] = None
  /\ DropExpired(k)
  /\ running' = [running EXCEPT ![k] = f]
  /\ flight' = [flight EXCEPT ![f] = [done |-> FALSE, data |-> None, err |-> "nil"]]
  /\ pc' = [pc EXCEPT ![c] = "computing"]
  /\ arg' = [arg EXCEPT ![c] = k]
  /\ held' = [held EXCEPT ![c] = f]
  /\ UNCHANGED <<ret, ended>>

-----------------------------------------------------------------------------
(* The leader, after fn.                                                   *)

\* Delete the flight from running, publish its outcome and close done.
Land(c, data, err, outcome) ==
  /\ running' = [running EXCEPT ![arg[c]] = None]
  /\ Settle(c, [data |-> data, cached |-> FALSE, err |-> outcome],
            [done |-> TRUE, data |-> data, err |-> err])

\* Mutant: errors are stored like values.
FinishStoringErrors(c, err) ==
  /\ pc[c] = "computing"
  /\ err = "ctx" => c \in ended
  /\ IF Capacity > 0
     THEN \E e \in Elements : entry[e] = None /\ PushAndEvict(e, arg[c], arg[c])
     ELSE UNCHANGED store
  /\ Land(c, IF err = "nil" THEN arg[c] ELSE None, err, err)

\* fn returned err (line 72), then lines 73-87.  Only a caller whose context
\* is done sees the context's error; fn may succeed after the deadline too.
Finish(c, err) ==
  /\ pc[c] = "computing"
  /\ err = "ctx" => c \in ended
  /\ IF err = "nil" /\ Capacity > 0
     THEN \E e \in Elements : entry[e] = None /\ PushAndEvict(e, arg[c], arg[c])
     ELSE UNCHANGED store
  /\ Land(c, IF err = "nil" THEN arg[c] ELSE None, err, err)

\* Mutants: the panic is shared as it is, or deletes the flight without
\* closing done.
PanicShared(c) ==
  /\ pc[c] = "computing"
  /\ Land(c, None, "panic", "panic")
  /\ UNCHANGED store
PanicLeavesOpen(c) ==
  /\ pc[c] = "computing"
  /\ running' = [running EXCEPT ![arg[c]] = None]
  /\ Settle(c, [data |-> None, cached |-> FALSE, err |-> "panic"], flight[held[c]])
  /\ UNCHANGED store

\* fn panicked: lines 62-71; the followers are told context.Canceled.
Panic(c) ==
  /\ pc[c] = "computing"
  /\ Land(c, None, "ctx", "panic")
  /\ UNCHANGED store

-----------------------------------------------------------------------------
(* A follower's select: lines 51-56.  When both channels are ready either  *)
(* case may be taken.                                                      *)

\* Mutant: a follower takes the bytes and not the error.
FollowerIgnoresError(c) ==
  /\ pc[c] = "waiting"
  /\ flight[held[c]].done
  /\ Settle(c, [data |-> flight[held[c]].data, cached |-> TRUE, err |-> "nil"], flight[held[c]])
  /\ UNCHANGED <<lru, entry, items, running>>

\* Mutant: a follower of a flight that failed waits on.
FollowerDoneOnSuccess(c) ==
  /\ pc[c] = "waiting"
  /\ flight[held[c]].done /\ flight[held[c]].err = "nil"
  /\ Settle(c, [data |-> flight[held[c]].data, cached |-> TRUE, err |-> "nil"], flight[held[c]])
  /\ UNCHANGED <<lru, entry, items, running>>

FollowerDone(c) ==
  /\ pc[c] = "waiting"
  /\ flight[held[c]].done
  /\ Settle(c, [data |-> flight[held[c]].data, cached |-> TRUE, err |-> flight[held[c]].err],
            flight[held[c]])
  /\ UNCHANGED <<lru, entry, items, running>>

\* Mutant: a follower does not watch its own context.
FollowerPatient(c) == FALSE /\ UNCHANGED vars

FollowerEnded(c) ==
  /\ pc[c] = "waiting"
  /\ c \in ended
  /\ Settle(c, [data |-> None, cached |-> FALSE, err |-> "ctx"], flight[held[c]])
  /\ UNCHANGED <<lru, entry, items, running>>

-----------------------------------------------------------------------------
(* The environment: the handler that called Do goes on and its goroutine   *)
(* serves the next request; deadlines pass and clients disconnect; entries *)
(* reach the end of their TTL.                                             *)

Return(c) ==
  /\ pc[c] = "done"
  /\ pc' = [pc EXCEPT ![c] = "idle"]
  /\ arg' = [arg EXCEPT ![c] = None]
  /\ ret' = [ret EXCEPT ![c] = None]
  /\ ended' = ended \ {c}
  /\ UNCHANGED <<lru, entry, items, running, flight, held>>

End(c) ==
  /\ c \notin ended
  /\ ended' = ended \cup {c}
  /\ UNCHANGED <<lru, entry, items, running, flight, pc, arg, held, ret>>

Expire(e) ==
  /\ entry[e] # None
  /\ ~entry[e].expired
  /\ entry' = [entry EXCEPT ![e].expired = TRUE]
  /\ UNCHANGED <<lru, items, running, flight, pc, arg, held, ret, ended>>

Lookup(c) == \E k \in Keys : Hit(c, k) \/ Join(c, k) \/ \E f \in Flights : Lead(c, k, f)
Compute(c) == (\E err \in Errs : Finish(c, err)) \/ Panic(c)
Wake(c) == FollowerDone(c) \/ FollowerEnded(c)

Next ==
  \/ \E c \in Callers : Lookup(c) \/ Compute(c) \/ Wake(c) \/ Return(c) \/ End(c)
  \/ \E e \in Elements : Expire(e)

Spec == Init /\ [][Next]_vars

\* A goroutine with a ready channel is scheduled.
FairSpec == Spec /\ \A c \in Callers : WF_vars(Wake(c))

\* fn returns: every loop of a calculation is bounded and the native gate is
\* released by each session.
FnReturns == \A c \in Callers : []<>(pc[c] # "computing")

\* The deadline the server puts on every context passes (server.go:286).
DeadlinesPass == \A c \in Callers : []<>(pc[c] = "waiting" => c \in ended)

-----------------------------------------------------------------------------
(* Safety.                                                                 *)

InList == {lru[i] : i \in 1..Len(lru)}

\* The list and the index describe the same entries (cache.go:42-47, 75-83):
\* every element of the list is indexed under its own key, once, and nothing
\* else is indexed.  A second PushFront for a stored key would break it.
IndexMatchesList ==
  /\ \A i, j \in 1..Len(lru) : lru[i] = lru[j] => i = j
  /\ \A e \in Elements : entry[e] # None <=> e \in InList
  /\ \A e \in InList : items[entry[e].key] = e
  /\ \A k \in Keys : items[k] # None => items[k] \in InList /\ entry[items[k]].key = k

\* Completed values never exceed the configured capacity (cache.go:79-83).
Bounded == Len(lru) <= Capacity

\* A key is never stored and being computed at the same time (cache.go:39-60):
\* this is why publishing a result cannot push a duplicate entry.
StoredNotRunning == \A k \in Keys : items[k] # None => running[k] = None

\* At most one caller computes a key, and running names exactly its flight
\* (cache.go:49, 58-60).
SingleFlight ==
  /\ \A c, d \in Callers : pc[c] = "computing" /\ pc[d] = "computing" /\ arg[c] = arg[d] => c = d
  /\ \A k \in Keys : running[k] # None <=>
       \E c \in Callers : pc[c] = "computing" /\ arg[c] = k /\ held[c] = running[k]

\* A follower of an open flight has a leader that is still computing the
\* follower's key: whatever fn does, nobody is left waiting (cache.go:61-71).
NoOrphan ==
  \A c \in Callers : pc[c] = "waiting" /\ ~flight[held[c]].done =>
    /\ running[arg[c]] = held[c]
    /\ \E d \in Callers : pc[d] = "computing" /\ held[d] = held[c] /\ arg[d] = arg[c]

\* Whatever path a call took, it returns bytes exactly when it returns no
\* error, and they are the bytes of the key it asked for (cache.go:44, 55, 87).
RightAnswer ==
  \A c \in Callers : pc[c] = "done" =>
    ret[c].data = IF ret[c].err = "nil" THEN arg[c] ELSE None

-----------------------------------------------------------------------------
(* Liveness.                                                               *)

\* Every call returns when fn does (cache.go:37-88).
CallsReturn ==
  FnReturns => \A c \in Callers : pc[c] \in {"computing", "waiting"} ~> pc[c] = "done"

\* A follower returns by its own deadline even if the leader never does
\* (cache.go:51-53).
FollowersReturn ==
  DeadlinesPass => \A c \in Callers : pc[c] = "waiting" ~> pc[c] = "done"

-----------------------------------------------------------------------------
(* Refinement: the abstract cache sees keys in place of elements, and the   *)
(* outcome of a shared computation in place of flights.                     *)

AbsCall(c) ==
  CASE pc[c] = "idle" -> [st |-> "idle"]
    [] pc[c] = "computing" -> [st |-> "leads", key |-> arg[c]]
    [] pc[c] = "waiting" ->
         [st |-> "follows", key |-> arg[c],
          share |-> IF flight[held[c]].done THEN flight[held[c]].err ELSE "open"]
    [] pc[c] = "done" ->
         [st |-> "returned", key |-> arg[c], err |-> ret[c].err, cached |-> ret[c].cached]

Abstract == INSTANCE CoalescedLRU WITH
  kept <- [i \in 1..Len(lru) |-> entry[lru[i]].key],
  old <- {k \in Keys : items[k] # None /\ entry[items[k]].expired},
  call <- [c \in Callers |-> AbsCall(c)]

\* Do is a bounded LRU store with one shared computation per key: every step
\* of cache.go:37-88 is a step of that store or changes nothing it shows.
ImplementsLRU == Abstract!Spec

\* With fn returning and goroutines scheduled, it also makes the progress the
\* store promises (cache.go:51-56, 73-87).
ImplementsProgress == FnReturns => Abstract!Progress
=============================================================================
