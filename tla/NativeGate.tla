----------------------------- MODULE NativeGate -----------------------------
(***************************************************************************)
(* internal/ephemeris/native.go: WithSessionTiming.  The Swiss Ephemeris   *)
(* library keeps its configuration and open files in global or, depending  *)
(* on how it was built, thread-local variables.  One channel of capacity 1 *)
(* serialises the sessions of the whole process, and each session runs     *)
(* pinned to one OS thread.  Between any two statements other goroutines   *)
(* run, so each statement that touches shared state is an action.          *)
(***************************************************************************)
EXTENDS Naturals, FiniteSets

CONSTANTS Callers,      \* goroutines that call WithSession
          Paths,        \* ephemeris directories of the Providers
          Threads,      \* OS threads
          ThreadLocal,  \* the library's variables are thread-local
          None

ASSUME ThreadLocalAssumption == ThreadLocal \in BOOLEAN
ASSUME NoneAssumption == None \notin Paths \cup Threads

VARIABLES gate,   \* len(nativeGate)
          lib,    \* the library's variables, per copy of them
          pin,    \* the thread a goroutine is locked to
          path,   \* the directory of the Provider that was called
          pc,     \* place in WithSessionTiming
          how,    \* what the call returns, once that is decided
          ended   \* callers whose context is done

vars == <<gate, lib, pin, path, pc, how, ended>>

Copies == IF ThreadLocal THEN Threads ELSE {"process"}
Copy(t) == IF ThreadLocal THEN t ELSE "process"

Untouched == [path |-> None, sid |-> None]
Library == [path : Paths \cup {None}, sid : {"lahiri", None}]

Outcomes == {"nil", "ctx", "noevent", "fail", "panic"}

\* The places of a call, in program order; the last four are its deferred
\* calls, which run in reverse order of their registration.
Entered == {"acquired", "locked", "pathSet", "inside", "closing", "unlocking", "releasing"}
Places == {"idle", "select", "over"} \cup Entered

TypeOK ==
  /\ gate \in 0..1
  /\ lib \in [Copies -> Library]
  /\ pin \in [Callers -> Threads \cup {None}]
  /\ path \in [Callers -> Paths \cup {None}]
  /\ pc \in [Callers -> Places]
  /\ how \in [Callers -> Outcomes \cup {None}]
  /\ ended \subseteq Callers

Init ==
  /\ gate = 0
  /\ lib = [x \in Copies |-> Untouched]
  /\ pin = [c \in Callers |-> None]
  /\ path = [c \in Callers |-> None]
  /\ pc = [c \in Callers |-> "idle"]
  /\ how = [c \in Callers |-> None]
  /\ ended = {}

\* The threads the scheduler may run c on: its own if it is locked to one,
\* else any that no other goroutine is locked to.
RunsOn(c, t) == IF pin[c] # None THEN t = pin[c] ELSE \A d \in Callers : pin[d] # t

Goto(c, place) == pc' = [pc EXCEPT ![c] = place]

-----------------------------------------------------------------------------

\* A Provider is called; with several of them in the process, any directory.
Call(c, p) ==
  /\ pc[c] = "idle"
  /\ Goto(c, "select")
  /\ path' = [path EXCEPT ![c] = p]
  /\ UNCHANGED <<gate, lib, pin, how, ended>>

\* Mutant: the channel does not block.
AcquireUnbounded(c) ==
  /\ pc[c] = "select"
  /\ gate' = gate + 1
  /\ Goto(c, "acquired")
  /\ UNCHANGED <<lib, pin, path, how, ended>>

\* Lines 75-82: the select takes either case when both are ready.
Acquire(c) ==
  /\ pc[c] = "select"
  /\ gate < 1
  /\ gate' = gate + 1
  /\ Goto(c, "acquired")
  /\ UNCHANGED <<lib, pin, path, how, ended>>

\* Mutant: the select has no case for the context.
GiveUpNever(c) == FALSE /\ UNCHANGED vars

GiveUp(c) ==
  /\ pc[c] = "select"
  /\ c \in ended
  /\ Goto(c, "over")
  /\ how' = [how EXCEPT ![c] = "ctx"]
  /\ UNCHANGED <<gate, lib, pin, path, ended>>

\* Mutant: the release is deferred only after the second look at the context.
TurnBackKeepingGate(c) ==
  /\ pc[c] = "acquired"
  /\ c \in ended
  /\ Goto(c, "over")
  /\ how' = [how EXCEPT ![c] = "ctx"]
  /\ UNCHANGED <<gate, lib, pin, path, ended>>

\* Lines 87-90: the context is checked again now that the gate is held.
TurnBack(c) ==
  /\ pc[c] = "acquired"
  /\ c \in ended
  /\ Goto(c, "releasing")
  /\ how' = [how EXCEPT ![c] = "ctx"]
  /\ UNCHANGED <<gate, lib, pin, path, ended>>

\* Mutant: without LockOSThread.
LockNothing(c, t) ==
  /\ pc[c] = "acquired"
  /\ c \notin ended
  /\ RunsOn(c, t)
  /\ Goto(c, "locked")
  /\ UNCHANGED <<gate, lib, pin, path, how, ended>>

LockThread(c, t) ==
  /\ pc[c] = "acquired"
  /\ c \notin ended
  /\ RunsOn(c, t)
  /\ pin' = [pin EXCEPT ![c] = t]
  /\ Goto(c, "locked")
  /\ UNCHANGED <<gate, lib, path, how, ended>>

\* Lines 94 and 95: swe_set_ephe_path, then swe_set_sid_mode.
SetPath(c, t) ==
  /\ pc[c] = "locked"
  /\ RunsOn(c, t)
  /\ lib' = [lib EXCEPT ![Copy(t)].path = path[c]]
  /\ Goto(c, "pathSet")
  /\ UNCHANGED <<gate, pin, path, how, ended>>

SetSidMode(c, t) ==
  /\ pc[c] = "pathSet"
  /\ RunsOn(c, t)
  /\ lib' = [lib EXCEPT ![Copy(t)].sid = "lahiri"]
  /\ Goto(c, "inside")
  /\ UNCHANGED <<gate, pin, path, how, ended>>

\* Mutant: swe_close is not deferred, so a panic passes it by.
LeaveUnclosed(c, outcome) ==
  /\ pc[c] = "inside"
  /\ outcome = "ctx" => c \in ended
  /\ how' = [how EXCEPT ![c] = outcome]
  /\ Goto(c, IF outcome = "panic" THEN "unlocking" ELSE "closing")
  /\ UNCHANGED <<gate, lib, pin, path, ended>>

\* Line 97: fn computes with the library, and returns or panics.
Leave(c, outcome) ==
  /\ pc[c] = "inside"
  /\ outcome = "ctx" => c \in ended
  /\ how' = [how EXCEPT ![c] = outcome]
  /\ Goto(c, "closing")
  /\ UNCHANGED <<gate, lib, pin, path, ended>>

\* The deferred calls: swe_close (96), UnlockOSThread (91), the gate (83).
Close(c, t) ==
  /\ pc[c] = "closing"
  /\ RunsOn(c, t)
  /\ lib' = [lib EXCEPT ![Copy(t)] = Untouched]
  /\ Goto(c, "unlocking")
  /\ UNCHANGED <<gate, pin, path, how, ended>>

UnlockThread(c) ==
  /\ pc[c] = "unlocking"
  /\ pin' = [pin EXCEPT ![c] = None]
  /\ Goto(c, "releasing")
  /\ UNCHANGED <<gate, lib, path, how, ended>>

Release(c) ==
  /\ pc[c] = "releasing"
  /\ gate > 0
  /\ gate' = gate - 1
  /\ Goto(c, "over")
  /\ UNCHANGED <<lib, pin, path, how, ended>>

-----------------------------------------------------------------------------

\* The caller goes on, to call again with the same context (Year, once for
\* every month: festivals.go:71) or with another.
Return(c) ==
  /\ pc[c] = "over"
  /\ Goto(c, "idle")
  /\ how' = [how EXCEPT ![c] = None]
  /\ path' = [path EXCEPT ![c] = None]
  /\ ended' \in {ended, ended \ {c}}
  /\ UNCHANGED <<gate, lib, pin>>

End(c) ==
  /\ c \notin ended
  /\ ended' = ended \cup {c}
  /\ UNCHANGED <<gate, lib, pin, path, pc, how>>

LeaveAny(c) == \E outcome \in Outcomes : Leave(c, outcome)

\* The statements of c other than the wait at the gate.
Proceed(c) ==
  \/ TurnBack(c) \/ LeaveAny(c) \/ UnlockThread(c) \/ Release(c)
  \/ \E t \in Threads : LockThread(c, t) \/ SetPath(c, t) \/ SetSidMode(c, t) \/ Close(c, t)

Next == \E c \in Callers :
  \/ \E p \in Paths : Call(c, p)
  \/ Acquire(c) \/ GiveUp(c) \/ Proceed(c) \/ Return(c) \/ End(c)

Spec == Init /\ [][Next]_vars

\* Goroutines that can run do, fn returns, and every context has a deadline
\* (server.go:93, 286); nothing is assumed of the order in which the channel
\* serves those who wait at it.
FairSpec ==
  Spec /\ \A c \in Callers : WF_vars(Proceed(c)) /\ WF_vars(Acquire(c) \/ GiveUp(c)) /\ WF_vars(End(c))

-----------------------------------------------------------------------------

\* Calls between the gate and its release are at most one, and the channel
\* holds their token (native.go:24, 76, 83).
OneSession ==
  /\ \A c, d \in Callers : pc[c] \in Entered /\ pc[d] \in Entered => c = d
  /\ gate = Cardinality({c \in Callers : pc[c] \in Entered})

\* While fn runs, the library is configured for its own Provider, whichever
\* thread the goroutine is on and however many Providers there are
\* (native.go:22-24, 90-97).
OwnConfiguration ==
  \A c \in Callers, t \in Threads : pc[c] = "inside" /\ RunsOn(c, t) =>
    lib[Copy(t)] = [path |-> path[c], sid |-> "lahiri"]

\* When the gate is free nothing of a session is left behind: the library is
\* closed in every copy and no goroutine keeps a thread, also after a panic
\* (native.go:83-96).
NothingLeft ==
  gate = 0 => /\ \A x \in Copies : lib[x] = Untouched
              /\ \A c \in Callers : pin[c] = None

\* Every call returns: what has entered leaves, and who waits is served or
\* gives up at its deadline (native.go:73-98).
CallsReturn == \A c \in Callers : pc[c] = "select" ~> pc[c] = "over"

Sessions == INSTANCE SessionGate WITH
  st <- [c \in Callers |->
           CASE pc[c] = "idle" -> [at |-> "out"]
             [] pc[c] = "select" -> [at |-> "waiting"]
             [] pc[c] \in Entered -> [at |-> "in"]
             [] pc[c] = "over" -> [at |-> "back", how |-> how[c]]]

\* WithSessionTiming provides the sessions the rest of the program relies on:
\* its nine statements are the four steps of SessionGate (native.go:73-98).
ImplementsSessionGate == Sessions!FairSpec
=============================================================================
