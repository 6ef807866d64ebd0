---------------------------- MODULE SessionGate -----------------------------
(***************************************************************************)
(* What Provider.WithSession promises (internal/ephemeris/session.go): the *)
(* sessions of a process follow one another, a caller waits its turn no    *)
(* longer than its context lasts, and it is told how its session ended.    *)
(***************************************************************************)
CONSTANTS Callers

VARIABLES st,     \* per caller: out, waiting, in a session, or back from one
          ended   \* callers whose context is done

vars == <<st, ended>>

Outcomes == {"nil", "ctx", "noevent", "fail", "panic"}
Out == [at |-> "out"]
Waiting == [at |-> "waiting"]
In == [at |-> "in"]
Back(how) == [at |-> "back", how |-> how]

Init == st = [c \in Callers |-> Out] /\ ended = {}

Ask(c) ==
  /\ st[c] = Out
  /\ st' = [st EXCEPT ![c] = Waiting]
  /\ UNCHANGED ended

Enter(c) ==
  /\ st[c] = Waiting
  /\ \A d \in Callers : st[d] # In
  /\ st' = [st EXCEPT ![c] = In]
  /\ UNCHANGED ended

GiveUp(c) ==
  /\ st[c] = Waiting
  /\ c \in ended
  /\ st' = [st EXCEPT ![c] = Back("ctx")]
  /\ UNCHANGED ended

Leave(c, how) ==
  /\ st[c] = In
  /\ how = "ctx" => c \in ended
  /\ st' = [st EXCEPT ![c] = Back(how)]
  /\ UNCHANGED ended

\* The next session may be asked for with the same context or another.
GoOn(c) ==
  /\ st[c].at = "back"
  /\ st' = [st EXCEPT ![c] = Out]
  /\ ended' \in {ended, ended \ {c}}

End(c) ==
  /\ c \notin ended
  /\ ended' = ended \cup {c}
  /\ UNCHANGED st

LeaveAny(c) == \E how \in Outcomes : Leave(c, how)
Wait(c) == Enter(c) \/ GiveUp(c)

Next == \E c \in Callers : Ask(c) \/ Wait(c) \/ LeaveAny(c) \/ GoOn(c) \/ End(c)

Spec == Init /\ [][Next]_vars

\* A session ends, and nobody waits past the end of its context.
FairSpec ==
  Spec /\ \A c \in Callers : WF_vars(LeaveAny(c)) /\ WF_vars(Wait(c)) /\ WF_vars(End(c))
=============================================================================
