---------------------------- MODULE CoalescedLRU ----------------------------
(***************************************************************************)
(* What internal/memo promises to a caller of Do, without its data         *)
(* structures: a bounded store whose victim is the least recently used     *)
(* key, a fresh value answered at once, one computation per key that the   *)
(* other callers of that key share, and a follower free to leave when its  *)
(* own context is done.                                                    *)
(***************************************************************************)
EXTENDS Naturals, Sequences, SequencesExt

CONSTANTS Callers, Keys, Capacity

VARIABLES kept,   \* keys with a stored value, most recently used first
          old,    \* the kept keys whose TTL has passed
          call,   \* per caller, what its call has come to
          ended   \* callers whose context is done

vars == <<kept, old, call, ended>>

Idle == [st |-> "idle"]
Leads(k) == [st |-> "leads", key |-> k]
\* share is the outcome of the computation that is followed, once there is one.
Follows(k, share) == [st |-> "follows", key |-> k, share |-> share]
Returned(k, err, cached) == [st |-> "returned", key |-> k, err |-> err, cached |-> cached]

Init ==
  /\ kept = <<>>
  /\ old = {}
  /\ call = [c \in Callers |-> Idle]
  /\ ended = {}

Led(k) == \E c \in Callers : call[c] = Leads(k)

\* A fresh value is always served, and becomes the most recently used.
Hit(c, k) ==
  /\ call[c] = Idle
  /\ k \in ToSet(kept) \ old
  /\ kept' = <<k>> \o RemoveFirst(kept, k)
  /\ call' = [call EXCEPT ![c] = Returned(k, "nil", TRUE)]
  /\ UNCHANGED <<old, ended>>

\* Without one, the caller computes the value unless somebody already does.
Miss(c, k) ==
  /\ call[c] = Idle
  /\ k \notin ToSet(kept) \ old
  /\ kept' = RemoveFirst(kept, k)
  /\ old' = old \ {k}
  /\ call' = [call EXCEPT ![c] = IF Led(k) THEN Follows(k, "open") ELSE Leads(k)]
  /\ UNCHANGED ended

\* The computation ends.  Only a success is kept; every follower of this
\* computation shares its outcome, a panic being a cancellation to them.
Compute(c, err) ==
  LET k == call[c].key
      share == IF err = "panic" THEN "ctx" ELSE err
      front == <<k>> \o kept
  IN /\ call[c].st = "leads"
     /\ err = "ctx" => c \in ended
     /\ kept' = IF err # "nil" \/ Capacity = 0 THEN kept
                ELSE IF Len(front) > Capacity THEN Front(front) ELSE front
     /\ old' = old \cap ToSet(kept')
     /\ call' = [d \in Callers |->
                   IF d = c THEN Returned(k, err, FALSE)
                   ELSE IF call[d] = Follows(k, "open") THEN Follows(k, share)
                   ELSE call[d]]
     /\ UNCHANGED ended

Leave(c) ==
  /\ call[c].st = "follows"
  /\ \/ /\ call[c].share # "open"
        /\ call' = [call EXCEPT ![c] = Returned(@.key, @.share, TRUE)]
     \/ /\ c \in ended
        /\ call' = [call EXCEPT ![c] = Returned(@.key, "ctx", FALSE)]
  /\ UNCHANGED <<kept, old, ended>>

Reset(c) ==
  /\ call[c].st = "returned"
  /\ call' = [call EXCEPT ![c] = Idle]
  /\ ended' = ended \ {c}
  /\ UNCHANGED <<kept, old>>

End(c) ==
  /\ c \notin ended
  /\ ended' = ended \cup {c}
  /\ UNCHANGED <<kept, old, call>>

Expire(k) ==
  /\ k \in ToSet(kept) \ old
  /\ old' = old \cup {k}
  /\ UNCHANGED <<kept, call, ended>>

ComputeAny(c) == \E err \in {"nil", "ctx", "noevent", "fail", "panic"} : Compute(c, err)

Next ==
  \/ \E c \in Callers, k \in Keys : Hit(c, k) \/ Miss(c, k)
  \/ \E c \in Callers : ComputeAny(c) \/ Leave(c) \/ Reset(c) \/ End(c)
  \/ \E k \in Keys : Expire(k)

Spec == Init /\ [][Next]_vars

\* Computations end, and whoever may leave does.
Progress == \A c \in Callers : WF_vars(ComputeAny(c)) /\ WF_vars(Leave(c))
FairSpec == Spec /\ Progress
=============================================================================
