----------------------------- MODULE MemoProofs -----------------------------
(***************************************************************************)
(* Proofs about Memo for every set of callers, keys, flights and elements  *)
(* and every capacity.                                                     *)
(***************************************************************************)
EXTENDS Memo, TLAPS, SequenceTheorems

-----------------------------------------------------------------------------
(* The list operations.                                                    *)

\* A sequence lists each of its elements once.
Distinct(s) == \A i, j \in 1..Len(s) : s[i] = s[j] => i = j

\* Removing position i of a sequence (list.Remove) keeps all other elements,
\* in order.
LEMMA RemoveAtProperties ==
  ASSUME NEW S, NEW s \in Seq(S), NEW i \in 1..Len(s)
  PROVE  /\ RemoveAt(s, i) \in Seq(S)
         /\ Len(RemoveAt(s, i)) = Len(s) - 1
         /\ \A j \in 1..(Len(s) - 1) : RemoveAt(s, i)[j] = IF j < i THEN s[j] ELSE s[j + 1]
<1> DEFINE a == SubSeq(s, 1, i - 1)
           b == SubSeq(s, i + 1, Len(s))
<1>0. Len(s) \in Nat /\ \A j \in 1..Len(s) : s[j] \in S
  BY LenProperties, ElementOfSeq
<1>1. /\ a \in Seq(S)
      /\ Len(a) = i - 1
      /\ \A j \in 1..(i - 1) : a[j] = s[j]
  <2>1. \A j \in 1..(i - 1) : s[j] \in S
    BY <1>0
  <2> QED BY <1>0, <2>1, SubSeqProperties
<1>2. /\ b \in Seq(S)
      /\ Len(b) = Len(s) - i
      /\ \A j \in 1..(Len(s) - i) : b[j] = s[i + j]
  <2>1. \A j \in (i + 1)..Len(s) : s[j] \in S
    BY <1>0
  <2> QED BY <1>0, <2>1, SubSeqProperties
<1>3. /\ a \o b \in Seq(S)
      /\ Len(a \o b) = Len(a) + Len(b)
      /\ \A j \in 1..(Len(a) + Len(b)) : (a \o b)[j] = IF j <= Len(a) THEN a[j] ELSE b[j - Len(a)]
  BY <1>1, <1>2, ConcatProperties
<1> HIDE DEF a, b
<1>4. PICK r : r = a \o b
  OBVIOUS
<1>5. \A j \in 1..(Len(s) - 1) : r[j] = IF j < i THEN s[j] ELSE s[j + 1]
  <2> SUFFICES ASSUME NEW j \in 1..(Len(s) - 1)
               PROVE  r[j] = IF j < i THEN s[j] ELSE s[j + 1]
    OBVIOUS
  <2>1. r[j] = IF j <= Len(a) THEN a[j] ELSE b[j - Len(a)]
    BY <1>0, <1>1, <1>2, <1>3, <1>4
  <2>2. CASE j < i
    BY <1>0, <1>1, <2>1, <2>2
  <2>3. CASE ~(j < i)
    <3>1. j - Len(a) \in 1..(Len(s) - i) /\ i + (j - Len(a)) = j + 1 /\ ~(j <= Len(a))
      BY <1>0, <1>1, <2>3
    <3> QED BY <1>2, <2>1, <2>3, <3>1
  <2> QED BY <2>2, <2>3
<1>6. r \in Seq(S) /\ Len(r) = Len(s) - 1
  BY <1>0, <1>1, <1>2, <1>3, <1>4
<1>7. r = RemoveAt(s, i)
  BY <1>4 DEF RemoveAt, a, b
<1> QED BY <1>5, <1>6, <1>7, Zenon

\* Unlinking an element that is listed once removes it and only it.
LEMMA UnlinkProperties ==
  ASSUME lru \in Seq(Elements), Distinct(lru), NEW e \in InList
  PROVE  /\ Unlink(e) \in Seq(Elements)
         /\ Len(Unlink(e)) = Len(lru) - 1
         /\ Distinct(Unlink(e))
         /\ {Unlink(e)[i] : i \in 1..Len(Unlink(e))} = InList \ {e}
<1> DEFINE i == CHOOSE i \in 1..Len(lru) : lru[i] = e
           r == RemoveAt(lru, i)
<1>0. Len(lru) \in Nat
  BY LenProperties
<1>1. i \in 1..Len(lru) /\ lru[i] = e
  BY DEF InList
<1>2. /\ r \in Seq(Elements)
      /\ Len(r) = Len(lru) - 1
      /\ \A j \in 1..(Len(lru) - 1) : r[j] = IF j < i THEN lru[j] ELSE lru[j + 1]
  BY <1>1, RemoveAtProperties
<1>3. Unlink(e) = r
  BY DEF Unlink
<1> HIDE DEF i, r
<1>4. Distinct(r)
  BY <1>0, <1>1, <1>2 DEF Distinct
<1>5. {r[j] : j \in 1..Len(r)} = InList \ {e}
  <2>1. ASSUME NEW j \in 1..Len(r)
        PROVE  r[j] \in InList \ {e}
    BY <1>0, <1>1, <1>2 DEF Distinct, InList
  <2>2. ASSUME NEW x \in InList \ {e}
        PROVE  \E j \in 1..Len(r) : r[j] = x
    <3>1. PICK j \in 1..Len(lru) : lru[j] = x
      BY DEF InList
    <3>2. CASE j < i
      BY <1>0, <1>1, <1>2, <3>1, <3>2
    <3>3. CASE j > i
      <4>1. j - 1 \in 1..Len(r) /\ r[j - 1] = lru[j]
        BY <1>0, <1>1, <1>2, <3>3
      <4> QED BY <3>1, <4>1
    <3> QED BY <1>0, <1>1, <3>1, <3>2, <3>3
  <2> QED BY <2>1, <2>2
<1> QED BY <1>2, <1>3, <1>4, <1>5

\* Putting an element in front of a list that does not hold it.
LEMMA PushProperties ==
  ASSUME NEW S, NEW s \in Seq(S), Distinct(s), NEW e \in S, e \notin {s[i] : i \in 1..Len(s)}
  PROVE  /\ <<e>> \o s \in Seq(S)
         /\ Len(<<e>> \o s) = Len(s) + 1
         /\ Distinct(<<e>> \o s)
         /\ {(<<e>> \o s)[i] : i \in 1..(Len(s) + 1)} = {e} \cup {s[i] : i \in 1..Len(s)}
<1> DEFINE g == <<e>> \o s
<1>0. Len(s) \in Nat
  BY LenProperties
<1>1. /\ g \in Seq(S)
      /\ Len(g) = Len(s) + 1
      /\ \A i \in 1..(Len(s) + 1) : g[i] = IF i = 1 THEN e ELSE s[i - 1]
  <2>1. /\ <<e>> \in Seq(S)
        /\ Len(<<e>>) = 1
        /\ <<e>>[1] = e
    OBVIOUS
  <2>2. /\ g \in Seq(S)
        /\ Len(g) = Len(<<e>>) + Len(s)
        /\ \A i \in 1..(Len(<<e>>) + Len(s)) : g[i] = IF i <= Len(<<e>>) THEN <<e>>[i] ELSE s[i - Len(<<e>>)]
    BY <2>1, ConcatProperties
  <2> QED BY <1>0, <2>1, <2>2
<1> HIDE DEF g
<1>2. Distinct(g)
  <2> SUFFICES ASSUME NEW i \in 1..Len(g), NEW j \in 1..Len(g), g[i] = g[j], i < j
               PROVE  FALSE
    BY <1>0, <1>1 DEF Distinct
  <2>1. g[j] = s[j - 1] /\ j - 1 \in 1..Len(s)
    BY <1>0, <1>1
  <2>2. CASE i = 1
    BY <1>0, <1>1, <2>1, <2>2
  <2>3. CASE i # 1
    <3>1. g[i] = s[i - 1] /\ i - 1 \in 1..Len(s)
      BY <1>0, <1>1, <2>3
    <3>2. i - 1 = j - 1
      BY <2>1, <3>1 DEF Distinct
    <3> QED BY <1>0, <1>1, <3>2
  <2> QED BY <2>2, <2>3
<1>3. {g[i] : i \in 1..(Len(s) + 1)} = {e} \cup {s[i] : i \in 1..Len(s)}
  <2>1. ASSUME NEW i \in 1..(Len(s) + 1)
        PROVE  g[i] \in {e} \cup {s[j] : j \in 1..Len(s)}
    BY <1>0, <1>1
  <2>2. e = g[1] /\ 1 \in 1..(Len(s) + 1)
    BY <1>0, <1>1
  <2>3. ASSUME NEW j \in 1..Len(s)
        PROVE  s[j] = g[j + 1] /\ j + 1 \in 1..(Len(s) + 1)
    BY <1>0, <1>1
  <2>4. e \in {g[i] : i \in 1..(Len(s) + 1)}
    BY <2>2, Zenon
  <2>5. ASSUME NEW j \in 1..Len(s)
        PROVE  s[j] \in {g[i] : i \in 1..(Len(s) + 1)}
    BY <2>3, Zenon
  <2>6. {g[i] : i \in 1..(Len(s) + 1)} \subseteq {e} \cup {s[j] : j \in 1..Len(s)}
    BY <2>1, Zenon
  <2>7. {s[j] : j \in 1..Len(s)} \subseteq {g[i] : i \in 1..(Len(s) + 1)}
    BY <2>5, Zenon
  <2> QED BY <2>4, <2>6, <2>7, Zenon
<1> QED BY <1>1, <1>2, <1>3, Zenon DEF g

-----------------------------------------------------------------------------
(* What the three updates of the store preserve.                           *)

StoreInv ==
  /\ lru \in Seq(Elements)
  /\ entry \in [Elements -> Entry \cup {None}]
  /\ items \in [Keys -> Elements \cup {None}]
  /\ IndexMatchesList
  /\ Bounded
  /\ \A e \in Elements : entry[e] # None => entry[e].data = entry[e].key

\* nil is no value of any kind.
LEMMA NoneIsNoElement ==
  /\ None \notin Elements /\ None \notin Keys /\ None \notin Flights
  /\ None \notin Entry /\ None \notin Flight /\ None \notin Result
BY NoneAssumption

\* A hit (MoveToFront) only reorders the list.
LEMMA HitKeepsStore ==
  ASSUME StoreInv, NEW k \in Keys, items[k] # None,
         lru' = MoveToFront(items[k]), UNCHANGED <<entry, items>>
  PROVE  StoreInv'
<1> DEFINE e == items[k]
           u == Unlink(e)
<1>0. e \in InList /\ e \in Elements
  BY NoneIsNoElement DEF StoreInv, IndexMatchesList
<1>1. lru \in Seq(Elements) /\ Distinct(lru) /\ Len(lru) \in Nat /\ Len(lru) <= Capacity
  BY LenProperties DEF StoreInv, IndexMatchesList, Distinct, Bounded
<1>2. /\ u \in Seq(Elements)
      /\ Len(u) = Len(lru) - 1
      /\ Distinct(u)
      /\ {u[i] : i \in 1..Len(u)} = InList \ {e}
  BY <1>0, <1>1, UnlinkProperties
<1>3. lru' = <<e>> \o u
  BY DEF MoveToFront
<1> HIDE DEF u, e
<1>4. e \notin {u[i] : i \in 1..Len(u)}
  BY <1>2
<1>5. /\ lru' \in Seq(Elements)
      /\ Len(lru') = Len(lru)
      /\ Distinct(lru')
      /\ {lru'[i] : i \in 1..Len(lru')} = InList
  <2>1. /\ <<e>> \o u \in Seq(Elements)
        /\ Len(<<e>> \o u) = Len(u) + 1
        /\ Distinct(<<e>> \o u)
        /\ {(<<e>> \o u)[i] : i \in 1..(Len(u) + 1)} = {e} \cup {u[i] : i \in 1..Len(u)}
    BY <1>0, <1>2, <1>4, PushProperties
  <2>2. Len(u) + 1 = Len(lru)
    BY <1>1, <1>2
  <2>3. {e} \cup (InList \ {e}) = InList
    BY <1>0
  <2> QED BY <1>2, <1>3, <2>1, <2>2, <2>3, Zenon
<1>6. InList' = InList
  BY <1>5 DEF InList
<1>7. IndexMatchesList'
  BY <1>5, <1>6 DEF IndexMatchesList, StoreInv, Distinct
<1>8. Bounded'
  BY <1>1, <1>5 DEF Bounded
<1> QED BY <1>5, <1>7, <1>8 DEF StoreInv

\* Dropping the expired entry of k keeps every other entry, and leaves k
\* without one.
LEMMA DropKeepsStore ==
  ASSUME StoreInv, NEW k \in Keys, DropExpired(k)
  PROVE  /\ StoreInv'
         /\ items'[k] = None
         /\ \A j \in Keys : items'[j] # None => items[j] # None
<1>1. CASE items[k] = None
  BY <1>1 DEF DropExpired, store, StoreInv, IndexMatchesList, Bounded, InList, Entry
<1>2. CASE items[k] # None
  <2> DEFINE e == items[k]
  <2>0. /\ e \in InList /\ e \in Elements /\ entry[e].key = k
        /\ lru' = Unlink(e)
        /\ entry' = [entry EXCEPT ![e] = None]
        /\ items' = [items EXCEPT ![k] = None]
    BY <1>2, NoneIsNoElement DEF StoreInv, IndexMatchesList, DropExpired
  <2>1. lru \in Seq(Elements) /\ Distinct(lru) /\ Len(lru) \in Nat /\ Len(lru) <= Capacity
    BY LenProperties DEF StoreInv, IndexMatchesList, Distinct, Bounded
  <2>2. /\ lru' \in Seq(Elements)
        /\ Len(lru') = Len(lru) - 1
        /\ Distinct(lru')
        /\ {lru'[i] : i \in 1..Len(lru')} = InList \ {e}
    BY <2>0, <2>1, UnlinkProperties
  <2>3. InList' = InList \ {e}
    BY <2>2 DEF InList
  <2>4. /\ entry' \in [Elements -> Entry \cup {None}]
        /\ items' \in [Keys -> Elements \cup {None}]
        /\ \A x \in Elements : entry'[x] # None => entry'[x] = entry[x] /\ x # e
        /\ \A x \in Elements \ {e} : entry'[x] = entry[x]
        /\ \A j \in Keys \ {k} : items'[j] = items[j]
        /\ items'[k] = None /\ entry'[e] = None
    BY <2>0 DEF StoreInv
  <2>5. IndexMatchesList'
    <3>1. \A i, j \in 1..Len(lru') : lru'[i] = lru'[j] => i = j
      BY <2>2 DEF Distinct
    <3>2. \A x \in Elements : entry'[x] # None <=> x \in InList'
      BY <2>3, <2>4 DEF StoreInv, IndexMatchesList
    <3>3. ASSUME NEW x \in InList'
          PROVE  items'[entry'[x].key] = x
      <4>1. x \in InList /\ x # e /\ x \in Elements
        BY <2>1, <2>3, ElementOfSeq DEF InList
      <4>2. items[entry[x].key] = x /\ entry'[x] = entry[x] /\ entry[x] \in Entry
        BY <2>4, <4>1 DEF StoreInv, IndexMatchesList
      <4> QED BY <2>4, <4>1, <4>2 DEF Entry
    <3>4. ASSUME NEW j \in Keys, items'[j] # None
          PROVE  items'[j] \in InList' /\ entry'[items'[j]].key = j
      <4>1. j # k /\ items'[j] = items[j] /\ items[j] \in Elements
        BY <2>4, <3>4 DEF StoreInv
      <4>2. items[j] \in InList /\ entry[items[j]].key = j
        BY <3>4, <4>1 DEF StoreInv, IndexMatchesList
      <4>3. items[j] # e
        BY <2>0, <4>1, <4>2
      <4> QED BY <2>3, <2>4, <4>1, <4>2, <4>3
    <3> QED BY <3>1, <3>2, <3>3, <3>4 DEF IndexMatchesList
  <2>6. Bounded'
    BY <2>1, <2>2, CapacityAssumption DEF Bounded
  <2>7. \A j \in Keys : items'[j] # None => items[j] # None
    BY <2>4
  <2> QED BY <2>2, <2>4, <2>5, <2>6, <2>7 DEF StoreInv
<1> QED BY <1>1, <1>2

\* Pushing a new entry for a key that has none, and evicting the tail.  That
\* the key has none is what keeps its old element from staying in the list,
\* unindexed.
LEMMA PushKeepsStore ==
  ASSUME StoreInv, Capacity > 0, NEW k \in Keys, items[k] = None,
         NEW e \in Elements, entry[e] = None, PushAndEvict(e, k, k)
  PROVE  /\ StoreInv'
         /\ \A j \in Keys : items'[j] # None => j = k \/ items[j] # None
<1> DEFINE grown == <<e>> \o lru
           n == Len(grown)
           m == IF n > Capacity THEN Capacity ELSE n
           evicted == {grown[i] : i \in (Capacity + 1)..n}
           entries == [entry EXCEPT ![e] = [key |-> k, data |-> k, expired |-> FALSE]]
<1>0. /\ lru \in Seq(Elements) /\ Distinct(lru)
      /\ Len(lru) \in Nat /\ Len(lru) <= Capacity
      /\ \A x \in Elements : entry[x] # None <=> x \in InList
      /\ e \notin InList
  BY LenProperties DEF StoreInv, IndexMatchesList, Distinct, Bounded
<1>1. /\ grown \in Seq(Elements)
      /\ n = Len(lru) + 1
      /\ \A i, j \in 1..n : grown[i] = grown[j] => i = j
      /\ {grown[i] : i \in 1..n} = {e} \cup InList
  <2>1. e \notin {lru[i] : i \in 1..Len(lru)}
    BY <1>0 DEF InList
  <2>2. /\ grown \in Seq(Elements)
        /\ Len(grown) = Len(lru) + 1
        /\ Distinct(grown)
        /\ {grown[i] : i \in 1..(Len(lru) + 1)} = {e} \cup {lru[i] : i \in 1..Len(lru)}
    BY <1>0, <2>1, PushProperties
  <2> HIDE DEF grown
  <2>3. \A i, j \in 1..n : grown[i] = grown[j] => i = j
    BY <2>2, Zenon DEF Distinct
  <2> QED BY <2>2, <2>3, Zenon DEF InList
<1>2. /\ lru' = SubSeq(grown, 1, m)
      /\ entry' = [x \in Elements |-> IF x \in evicted THEN None ELSE entries[x]]
      /\ items' = [j \in Keys |-> IF \E x \in evicted : entries[x].key = j THEN None
                                  ELSE IF j = k THEN e ELSE items[j]]
  BY Zenon DEF PushAndEvict
<1> HIDE DEF grown
<1>3. m \in 1..n /\ m <= Capacity /\ m \in Nat /\ n \in Nat
  BY <1>0, <1>1, CapacityAssumption
<1>3a. \A i \in 1..n : i \in 1..m \/ i \in (Capacity + 1)..n
  BY <1>0, <1>1, CapacityAssumption
<1>3b. \A i \in (Capacity + 1)..n : i \in 1..n /\ i \notin 1..m /\ i # 1
  BY <1>0, <1>1, CapacityAssumption
<1>4. /\ entries \in [Elements -> Entry \cup {None}]
      /\ entries[e] = [key |-> k, data |-> k, expired |-> FALSE]
      /\ entries[e] \in Entry
      /\ \A x \in Elements \ {e} : entries[x] = entry[x]
  BY DEF StoreInv, Entry
<1>5. grown[1] = e
  <2>1. <<e>> \in Seq(Elements) /\ Len(<<e>>) = 1 /\ <<e>>[1] = e
    OBVIOUS
  <2> QED BY <1>0, <2>1, ConcatProperties DEF grown
<1> HIDE DEF m, n, entries
<1>6. /\ lru' \in Seq(Elements)
      /\ Len(lru') = m
      /\ \A i \in 1..m : lru'[i] = grown[i]
  <2>1. \A i \in 1..m : grown[i] \in Elements
    BY <1>1, <1>3, ElementOfSeq DEF n
  <2>2. /\ SubSeq(grown, 1, m) \in Seq(Elements)
        /\ Len(SubSeq(grown, 1, m)) = IF 1 <= m THEN m - 1 + 1 ELSE 0
        /\ \A i \in 1..(m - 1 + 1) : SubSeq(grown, 1, m)[i] = grown[1 + i - 1]
    BY <1>3, <2>1, SubSeqProperties
  <2> QED BY <1>2, <1>3, <2>2
<1>7. Distinct(lru')
  BY <1>1, <1>3, <1>6 DEF Distinct
<1>8. /\ InList' = ({e} \cup InList) \ evicted
      /\ e \notin evicted
      /\ evicted \subseteq {e} \cup InList
  <2>1. ASSUME NEW x \in InList'
        PROVE  x \in ({e} \cup InList) \ evicted
    <3>1. PICK i \in 1..m : grown[i] = x
      BY <1>6, <2>1 DEF InList
    <3>2. i \in 1..n /\ x \in {e} \cup InList
      BY <1>1, <1>3, <3>1
    <3>3. ASSUME NEW j \in (Capacity + 1)..n, grown[j] = x
          PROVE  FALSE
      <4>1. i = j
        BY <1>1, <1>3b, <3>1, <3>2, <3>3
      <4> QED BY <1>3b, <4>1
    <3> QED BY <3>2, <3>3
  <2>2. ASSUME NEW x \in ({e} \cup InList) \ evicted
        PROVE  x \in InList'
    <3>1. PICK i \in 1..n : grown[i] = x
      BY <1>1
    <3>2. i \in 1..m
      BY <1>3a, <3>1
    <3> QED BY <1>6, <3>1, <3>2 DEF InList
  <2>3. e \notin evicted
    BY <1>1, <1>3, <1>3b, <1>5 DEF Distinct
  <2>4. evicted \subseteq {e} \cup InList
    BY <1>1, <1>3b
  <2> QED BY <2>1, <2>2, <2>3, <2>4
<1>8a. InList \subseteq Elements /\ InList' \subseteq Elements
  BY <1>0, <1>6, ElementOfSeq DEF InList
<1> HIDE DEF evicted
<1>9. /\ entry' \in [Elements -> Entry \cup {None}]
      /\ items' \in [Keys -> Elements \cup {None}]
  BY <1>2, <1>4 DEF StoreInv
<1>10. \A x \in Elements : entry'[x] # None <=> x \in InList'
  <2> TAKE x \in Elements
  <2>1. CASE x = e
    <3>1. entry'[e] = entries[e] /\ e \in InList'
      BY <1>2, <1>8
    <3>2. entries[e] # None
      BY <1>4, NoneIsNoElement
    <3> QED BY <2>1, <3>1, <3>2
  <2>2. CASE x # e
    BY <1>0, <1>2, <1>4, <1>8, <2>2
  <2> QED BY <2>1, <2>2
<1>11. ASSUME NEW x \in InList'
       PROVE  items'[entry'[x].key] = x
  <2>1. /\ x \in Elements /\ x \notin evicted /\ entry'[x] = entries[x]
        /\ entries[x] # None /\ entries[x] \in Entry
    BY <1>2, <1>4, <1>8, <1>8a, <1>10, <1>11
  <2>2. ASSUME NEW y \in evicted
        PROVE  entries[y].key # entries[x].key
    <3>1. y \in InList /\ y # e /\ y # x /\ y \in Elements /\ entries[y] = entry[y]
      BY <1>4, <1>8, <1>8a, <1>11
    <3>2. items[entry[y].key] = y
      BY <3>1 DEF StoreInv, IndexMatchesList
    <3>3. CASE x = e
      BY <1>4, <3>1, <3>2, <3>3, NoneIsNoElement
    <3>4. CASE x # e
      <4>1. x \in InList /\ entries[x] = entry[x]
        BY <1>4, <1>8, <1>11, <2>1, <3>4
      <4>2. items[entry[x].key] = x
        BY <4>1 DEF StoreInv, IndexMatchesList
      <4> QED BY <3>1, <3>2, <4>1, <4>2
    <3> QED BY <3>3, <3>4
  <2>3. entries[x].key \in Keys
    BY <2>1 DEF Entry
  <2>4. items'[entries[x].key] = IF entries[x].key = k THEN e ELSE items[entries[x].key]
    BY <1>2, <2>2, <2>3
  <2>5. CASE x = e
    BY <1>4, <2>1, <2>4, <2>5
  <2>6. CASE x # e
    <3>1. x \in InList /\ entries[x] = entry[x]
      BY <1>4, <1>8, <1>11, <2>1, <2>6
    <3>2. items[entries[x].key] = x
      BY <3>1 DEF StoreInv, IndexMatchesList
    <3>3. entries[x].key # k
      BY <2>1, <3>2, NoneIsNoElement
    <3> QED BY <2>1, <2>4, <3>2, <3>3
  <2> QED BY <2>5, <2>6
<1>12. ASSUME NEW j \in Keys, items'[j] # None
       PROVE  /\ items'[j] \in InList'
              /\ entry'[items'[j]].key = j
              /\ j = k \/ items[j] # None
  <2>1. /\ ~ \E x \in evicted : entries[x].key = j
        /\ items'[j] = IF j = k THEN e ELSE items[j]
    BY <1>2, <1>12
  <2>2. CASE j = k
    BY <1>2, <1>4, <1>8, <2>1, <2>2
  <2>3. CASE j # k
    <3>1. /\ items'[j] = items[j] /\ items[j] \in InList
          /\ entry[items[j]].key = j /\ items[j] \in Elements
      BY <1>8a, <1>12, <2>1, <2>3 DEF StoreInv, IndexMatchesList
    <3>2. items[j] # e /\ entries[items[j]] = entry[items[j]]
      BY <1>0, <1>4, <3>1
    <3>3. items[j] \notin evicted
      BY <2>1, <3>1, <3>2
    <3> QED BY <1>2, <1>8, <1>12, <3>1, <3>2, <3>3
  <2> QED BY <2>2, <2>3
<1>13. IndexMatchesList'
  BY <1>7, <1>10, <1>11, <1>12 DEF IndexMatchesList, Distinct
<1>14. Bounded'
  BY <1>3, <1>6 DEF Bounded
<1>15. \A x \in Elements : entry'[x] # None => entry'[x].data = entry'[x].key
  <2> TAKE x \in Elements
  <2> HAVE entry'[x] # None
  <2>1. entry'[x] = entries[x]
    BY <1>2
  <2>2. CASE x = e
    BY <1>4, <2>1, <2>2
  <2>3. CASE x # e
    BY <1>4, <2>1, <2>3 DEF StoreInv
  <2> QED BY <2>2, <2>3
<1> QED BY <1>6, <1>9, <1>12, <1>13, <1>14, <1>15 DEF StoreInv

-----------------------------------------------------------------------------
(* The inductive invariant: the store, and for every caller what its place  *)
(* in Do says about the flight it holds.                                    *)

\* A leader's flight is open and is the one running names for its key.
LeaderInv ==
  \A c \in Callers : pc[c] = "computing" =>
    /\ arg[c] \in Keys /\ held[c] \in Flights
    /\ running[arg[c]] = held[c]
    /\ flight[held[c]] \in Flight
    /\ ~flight[held[c]].done

\* A follower's flight is open and named by running, or holds the outcome for
\* the key the follower asked for.
FollowerInv ==
  \A c \in Callers : pc[c] = "waiting" =>
    /\ arg[c] \in Keys /\ held[c] \in Flights
    /\ flight[held[c]] \in Flight
    /\ IF flight[held[c]].done
       THEN flight[held[c]].data = IF flight[held[c]].err = "nil" THEN arg[c] ELSE None
       ELSE running[arg[c]] = held[c]

\* Whatever running names is led by one caller, for that key.
RunningInv ==
  /\ \A k \in Keys : running[k] # None =>
       \E c \in Callers : pc[c] = "computing" /\ arg[c] = k /\ held[c] = running[k]
  /\ \A c, d \in Callers :
       pc[c] = "computing" /\ pc[d] = "computing" /\ held[c] = held[d] => c = d

\* Callers outside Do hold no flight; a call that is over has a result.
OutsideInv ==
  \A c \in Callers :
    /\ pc[c] \in {"idle", "done"} => held[c] = None
    /\ pc[c] = "done" => arg[c] \in Keys /\ ret[c] \in Result

IInv ==
  /\ TypeOK
  /\ StoreInv
  /\ LeaderInv
  /\ FollowerInv
  /\ RunningInv
  /\ OutsideInv
  /\ StoredNotRunning
  /\ RightAnswer

LEMMA InitIInv == Init => IInv
<1> SUFFICES ASSUME Init PROVE IInv
  OBVIOUS
<1> USE DEF Init
<1>1. TypeOK
  BY DEF TypeOK
<1>2. StoreInv
  <2>1. Len(<<>>) = 0 /\ Capacity >= 0
    BY CapacityAssumption
  <2> QED BY <2>1 DEF StoreInv, IndexMatchesList, InList, Bounded
<1>3. LeaderInv /\ FollowerInv /\ RunningInv /\ OutsideInv /\ StoredNotRunning /\ RightAnswer
  BY DEF LeaderInv, FollowerInv, RunningInv, OutsideInv, StoredNotRunning, RightAnswer
<1> QED BY <1>1, <1>2, <1>3 DEF IInv

LEMMA HitIInv ==
  ASSUME IInv, NEW c \in Callers, NEW k \in Keys, Hit(c, k)
  PROVE  IInv'
<1> USE DEF IInv
<1>1. items[k] # None /\ items[k] \in Elements /\ entry[items[k]] \in Entry /\ entry[items[k]].data = k
  BY DEF Hit, Fresh, StoreInv, IndexMatchesList, InList
<1>2. StoreInv'
  BY <1>1, HitKeepsStore DEF Hit
<1>3. TypeOK'
  BY <1>1, <1>2 DEF Hit, TypeOK, StoreInv, Entry, Result, Errs
<1>4. LeaderInv' /\ FollowerInv' /\ RunningInv' /\ StoredNotRunning'
  BY DEF Hit, TypeOK, LeaderInv, FollowerInv, RunningInv, StoredNotRunning
<1>5. OutsideInv' /\ RightAnswer'
  BY <1>1 DEF Hit, TypeOK, OutsideInv, RightAnswer, Entry, Result, Errs
<1> QED BY <1>2, <1>3, <1>4, <1>5

LEMMA JoinIInv ==
  ASSUME IInv, NEW c \in Callers, NEW k \in Keys, Join(c, k)
  PROVE  IInv'
<1> USE DEF IInv
<1>1. StoreInv' /\ \A j \in Keys : items'[j] # None => items[j] # None
  BY DropKeepsStore DEF Join
<1>2. TypeOK'
  BY <1>1 DEF Join, TypeOK, StoreInv
<1>3. running[k] \in Flights /\ flight[running[k]] \in Flight /\ ~flight[running[k]].done
  BY DEF Join, RunningInv, LeaderInv, TypeOK
<1>4. LeaderInv' /\ FollowerInv'
  BY <1>3 DEF Join, TypeOK, LeaderInv, FollowerInv
<1>5. RunningInv' /\ OutsideInv' /\ RightAnswer'
  BY DEF Join, TypeOK, RunningInv, OutsideInv, RightAnswer
<1>6. StoredNotRunning'
  BY <1>1 DEF Join, StoredNotRunning
<1> QED BY <1>1, <1>2, <1>4, <1>5, <1>6

LEMMA LeadIInv ==
  ASSUME IInv, NEW c \in Callers, NEW k \in Keys, NEW f \in Flights, Lead(c, k, f)
  PROVE  IInv'
<1> USE DEF IInv
<1>1. /\ StoreInv' /\ items'[k] = None
      /\ \A j \in Keys : items'[j] # None => items[j] # None
  BY DropKeepsStore DEF Lead
<1>2. flight'[f] \in Flight /\ ~flight'[f].done
  BY DEF Lead, TypeOK, Flight, Errs
<1>3. TypeOK'
  BY <1>1, <1>2 DEF Lead, TypeOK, StoreInv
<1>4. \A d \in Callers : pc[d] \in {"computing", "waiting"} => held[d] # f
  BY NoneIsNoElement DEF LeaderInv, FollowerInv, Lead
<1>5. LeaderInv' /\ FollowerInv'
  BY <1>2, <1>4, NoneIsNoElement DEF Lead, TypeOK, LeaderInv, FollowerInv
<1>6. RunningInv'
  <2>1. /\ pc' = [pc EXCEPT ![c] = "computing"] /\ pc[c] = "idle"
        /\ arg' = [arg EXCEPT ![c] = k] /\ held' = [held EXCEPT ![c] = f]
        /\ running' = [running EXCEPT ![k] = f]
    BY DEF Lead
  <2>2. ASSUME NEW j \in Keys, running'[j] # None
        PROVE  \E d \in Callers : pc'[d] = "computing" /\ arg'[d] = j /\ held'[d] = running'[j]
    <3>1. CASE j = k
      BY <2>1, <3>1 DEF TypeOK
    <3>2. CASE j # k
      <4>1. PICK d \in Callers : pc[d] = "computing" /\ arg[d] = j /\ held[d] = running[j]
        BY <2>1, <2>2, <3>2 DEF TypeOK, RunningInv
      <4> QED BY <2>1, <3>2, <4>1 DEF TypeOK
    <3> QED BY <3>1, <3>2
  <2>3. ASSUME NEW d \in Callers, NEW b \in Callers,
               pc'[d] = "computing", pc'[b] = "computing", held'[d] = held'[b]
        PROVE  d = b
    BY <1>4, <2>1, <2>3 DEF TypeOK, RunningInv
  <2> QED BY <2>2, <2>3 DEF RunningInv
<1>7. OutsideInv' /\ RightAnswer'
  BY DEF Lead, TypeOK, OutsideInv, RightAnswer
<1>8. StoredNotRunning'
  BY <1>1 DEF Lead, TypeOK, StoredNotRunning
<1> QED BY <1>1, <1>3, <1>5, <1>6, <1>7, <1>8

-----------------------------------------------------------------------------
(* The steps by which a caller leaves Do with its flight.                  *)

\* A flight that lands is deleted from running, so only its own followers
\* see a change; they asked for the leader's key.
LEMMA LandKeepsFlights ==
  ASSUME IInv, NEW c \in Callers, pc[c] = "computing",
         NEW data \in Keys \cup {None}, NEW err \in Errs, NEW outcome \in Errs \cup {"panic"},
         data = IF err = "nil" THEN arg[c] ELSE None, (outcome = "nil") = (err = "nil"),
         Land(c, data, err, outcome), StoreInv',
         \A j \in Keys : items'[j] # None => j = arg[c] \/ items[j] # None
  PROVE  IInv'
<1> USE DEF IInv
<1> DEFINE f == held[c]
           k == arg[c]
           final == [done |-> TRUE, data |-> data, err |-> err]
           shared == \E d \in Callers \ {c} : held[d] = f
<1>1. /\ k \in Keys /\ f \in Flights /\ running[k] = f /\ ~flight[f].done
  BY DEF LeaderInv
<1>2. /\ running' = [running EXCEPT ![k] = None]
      /\ pc' = [pc EXCEPT ![c] = "done"]
      /\ ret' = [ret EXCEPT ![c] = [data |-> data, cached |-> FALSE, err |-> outcome]]
      /\ held' = [held EXCEPT ![c] = None]
      /\ flight' = [flight EXCEPT ![f] = IF shared THEN final ELSE None]
      /\ UNCHANGED <<arg, ended>>
  BY DEF Land, Settle
<1>3. final \in Flight /\ [data |-> data, cached |-> FALSE, err |-> outcome] \in Result
  BY DEF Flight, Result
<1>4. final.done = TRUE /\ final.data = data /\ final.err = err
  OBVIOUS
<1> HIDE DEF final
<1>5. TypeOK'
  BY <1>1, <1>2, <1>3 DEF TypeOK, StoreInv
<1>6. \A d \in Callers \ {c} : /\ pc[d] = "computing" => held[d] # f /\ arg[d] # k
                               /\ pc[d] = "waiting" /\ held[d] = f => arg[d] = k
                               /\ pc'[d] = pc[d] /\ held'[d] = held[d] /\ arg'[d] = arg[d]
  <2> TAKE d \in Callers \ {c}
  <2>1. pc[d] = "computing" => held[d] # f /\ arg[d] # k
    BY <1>1 DEF RunningInv, LeaderInv
  <2>2. ASSUME pc[d] = "waiting", held[d] = f
        PROVE  arg[d] = k
    <3>1. arg[d] \in Keys /\ running[arg[d]] = f
      BY <1>1, <2>2 DEF FollowerInv
    <3>2. PICK b \in Callers : pc[b] = "computing" /\ arg[b] = arg[d] /\ held[b] = f
      BY <1>1, <3>1, NoneIsNoElement DEF RunningInv
    <3>3. b = c
      BY <3>2 DEF RunningInv
    <3> QED BY <3>2, <3>3
  <2> QED BY <1>2, <2>1, <2>2 DEF TypeOK
<1>7. pc'[c] = "done" /\ held'[c] = None
  BY <1>2 DEF TypeOK
<1> HIDE DEF f, k
<1>8. LeaderInv'
  <2> SUFFICES ASSUME NEW d \in Callers, pc'[d] = "computing"
               PROVE  /\ arg'[d] \in Keys /\ held'[d] \in Flights
                      /\ running'[arg'[d]] = held'[d]
                      /\ flight'[held'[d]] \in Flight
                      /\ ~flight'[held'[d]].done
    BY DEF LeaderInv
  <2>1. d # c /\ pc[d] = "computing" /\ held[d] # f /\ arg[d] # k
    BY <1>6, <1>7
  <2> QED BY <1>1, <1>2, <1>6, <2>1 DEF LeaderInv, TypeOK
<1>9. FollowerInv'
  <2> SUFFICES ASSUME NEW d \in Callers, pc'[d] = "waiting"
               PROVE  /\ arg'[d] \in Keys /\ held'[d] \in Flights
                      /\ flight'[held'[d]] \in Flight
                      /\ IF flight'[held'[d]].done
                         THEN flight'[held'[d]].data =
                                IF flight'[held'[d]].err = "nil" THEN arg'[d] ELSE None
                         ELSE running'[arg'[d]] = held'[d]
    BY DEF FollowerInv
  <2>1. d # c /\ pc[d] = "waiting" /\ held'[d] = held[d] /\ arg'[d] = arg[d]
    BY <1>6, <1>7
  <2>2. CASE held[d] = f
    <3>1. arg[d] = k /\ shared
      BY <1>6, <2>1, <2>2
    <3>2. flight'[f] = final
      BY <1>1, <1>2, <3>1 DEF TypeOK
    <3> QED BY <1>1, <1>3, <1>4, <2>1, <2>2, <3>1, <3>2 DEF k
  <2>3. CASE held[d] # f
    <3>1. /\ flight'[held[d]] = flight[held[d]]
          /\ held[d] \in Flights /\ arg[d] \in Keys
      BY <1>2, <2>1, <2>3 DEF TypeOK, FollowerInv
    <3>2. ~flight[held[d]].done => running'[arg[d]] = held[d]
      BY <1>1, <1>2, <2>1, <2>3 DEF TypeOK, FollowerInv
    <3> QED BY <2>1, <3>1, <3>2 DEF FollowerInv
  <2> QED BY <2>2, <2>3
<1>10. RunningInv'
  <2>1. ASSUME NEW j \in Keys, running'[j] # None
        PROVE  \E d \in Callers : pc'[d] = "computing" /\ arg'[d] = j /\ held'[d] = running'[j]
    <3>1. j # k /\ running'[j] = running[j]
      BY <1>1, <1>2, <2>1 DEF TypeOK
    <3>2. PICK d \in Callers : pc[d] = "computing" /\ arg[d] = j /\ held[d] = running[j]
      BY <2>1, <3>1 DEF RunningInv
    <3>3. d # c
      BY <3>1, <3>2 DEF k
    <3> QED BY <1>6, <3>1, <3>2, <3>3
  <2>2. ASSUME NEW d \in Callers, NEW b \in Callers,
               pc'[d] = "computing", pc'[b] = "computing", held'[d] = held'[b]
        PROVE  d = b
    BY <1>6, <1>7, <2>2 DEF RunningInv
  <2> QED BY <2>1, <2>2 DEF RunningInv
<1>11. OutsideInv' /\ RightAnswer'
  BY <1>1, <1>2, <1>3, <1>6, <1>7 DEF OutsideInv, RightAnswer, TypeOK, k
<1>12. StoredNotRunning'
  BY <1>1, <1>2 DEF StoredNotRunning, TypeOK, k
<1> QED BY <1>5, <1>8, <1>9, <1>10, <1>11, <1>12

\* A follower that leaves changes nothing for anybody else.
LEMMA FollowerLeaves ==
  ASSUME IInv, NEW c \in Callers, pc[c] = "waiting",
         NEW r \in Result, r.data = IF r.err = "nil" THEN arg[c] ELSE None,
         Settle(c, r, flight[held[c]]), UNCHANGED <<lru, entry, items, running>>
  PROVE  IInv'
<1> USE DEF IInv
<1>1. held[c] \in Flights /\ arg[c] \in Keys
  BY DEF FollowerInv
<1>2. /\ pc' = [pc EXCEPT ![c] = "done"]
      /\ ret' = [ret EXCEPT ![c] = r]
      /\ held' = [held EXCEPT ![c] = None]
      /\ flight' = [flight EXCEPT ![held[c]] =
                      IF \E d \in Callers \ {c} : held[d] = held[c] THEN flight[held[c]] ELSE None]
      /\ UNCHANGED <<arg, ended>>
  BY DEF Settle
<1>3. StoreInv'
  BY DEF StoreInv, IndexMatchesList, Bounded, InList
<1>4. TypeOK'
  BY <1>1, <1>2 DEF TypeOK
<1>5. \A d \in Callers \ {c} : /\ pc'[d] = pc[d] /\ held'[d] = held[d]
                               /\ held[d] \in Flights => flight'[held[d]] = flight[held[d]]
  BY <1>1, <1>2 DEF TypeOK
<1>6. pc'[c] = "done" /\ held'[c] = None /\ ret'[c] = r
  BY <1>2 DEF TypeOK
<1>7. LeaderInv' /\ FollowerInv'
  BY <1>2, <1>5, <1>6 DEF LeaderInv, FollowerInv
<1>8. RunningInv'
  <2>1. \A d \in Callers : pc[d] = "computing" <=> pc'[d] = "computing"
    BY <1>5, <1>6
  <2>2. \A d \in Callers : pc[d] = "computing" => held'[d] = held[d]
    BY <1>5
  <2> QED BY <1>2, <2>1, <2>2 DEF RunningInv
<1>9. OutsideInv' /\ RightAnswer'
  BY <1>1, <1>2, <1>5, <1>6 DEF OutsideInv, RightAnswer, TypeOK
<1>10. StoredNotRunning'
  BY DEF StoredNotRunning
<1> QED BY <1>3, <1>4, <1>7, <1>8, <1>9, <1>10

LEMMA FinishIInv ==
  ASSUME IInv, NEW c \in Callers, NEW err \in Errs, Finish(c, err)
  PROVE  IInv'
<1> USE DEF IInv
<1>1. /\ pc[c] = "computing" /\ arg[c] \in Keys /\ held[c] \in Flights
      /\ running[arg[c]] = held[c]
  BY DEF Finish, LeaderInv
<1>2. items[arg[c]] = None
  BY <1>1, NoneIsNoElement DEF StoredNotRunning
<1>3. StoreInv' /\ \A j \in Keys : items'[j] # None => j = arg[c] \/ items[j] # None
  <2>1. CASE err = "nil" /\ Capacity > 0
    <3>1. PICK e \in Elements : entry[e] = None /\ PushAndEvict(e, arg[c], arg[c])
      BY <2>1 DEF Finish
    <3> QED BY <1>1, <1>2, <2>1, <3>1, PushKeepsStore
  <2>2. CASE ~(err = "nil" /\ Capacity > 0)
    BY <2>2 DEF Finish, store, StoreInv, IndexMatchesList, Bounded, InList
  <2> QED BY <2>1, <2>2
<1> DEFINE data == IF err = "nil" THEN arg[c] ELSE None
<1>4. Land(c, data, err, err)
  BY DEF Finish
<1>5. data \in Keys \cup {None} /\ err \in Errs \cup {"panic"} /\ data = IF err = "nil" THEN arg[c] ELSE None
  BY <1>1
<1> HIDE DEF data
<1> QED BY <1>1, <1>3, <1>4, <1>5, LandKeepsFlights

LEMMA PanicIInv ==
  ASSUME IInv, NEW c \in Callers, Panic(c)
  PROVE  IInv'
<1> USE DEF IInv
<1>1. pc[c] = "computing" /\ Land(c, None, "ctx", "panic")
  BY DEF Panic
<1>2. StoreInv' /\ \A j \in Keys : items'[j] # None => j = arg[c] \/ items[j] # None
  BY DEF Panic, store, StoreInv, IndexMatchesList, Bounded, InList
<1>3. /\ None \in Keys \cup {None} /\ "ctx" \in Errs /\ "panic" \in Errs \cup {"panic"}
      /\ None = IF "ctx" = "nil" THEN arg[c] ELSE None
      /\ ("panic" = "nil") = ("ctx" = "nil")
  BY DEF Errs
<1> QED BY <1>1, <1>2, <1>3, LandKeepsFlights

LEMMA WakeIInv ==
  ASSUME IInv, NEW c \in Callers, Wake(c)
  PROVE  IInv'
<1> USE DEF IInv
<1>1. CASE FollowerDone(c)
  <2> DEFINE r == [data |-> flight[held[c]].data, cached |-> TRUE, err |-> flight[held[c]].err]
  <2>1. /\ pc[c] = "waiting" /\ flight[held[c]].done /\ flight[held[c]] \in Flight
        /\ flight[held[c]].data = IF flight[held[c]].err = "nil" THEN arg[c] ELSE None
    BY <1>1 DEF FollowerDone, FollowerInv
  <2>2. r \in Result /\ r.data = IF r.err = "nil" THEN arg[c] ELSE None
    BY <2>1 DEF Flight, Result
  <2>3. Settle(c, r, flight[held[c]]) /\ UNCHANGED <<lru, entry, items, running>>
    BY <1>1 DEF FollowerDone
  <2> HIDE DEF r
  <2> QED BY <2>1, <2>2, <2>3, FollowerLeaves
<1>2. CASE FollowerEnded(c)
  <2> DEFINE r == [data |-> None, cached |-> FALSE, err |-> "ctx"]
  <2>1. r \in Result /\ r.data = IF r.err = "nil" THEN arg[c] ELSE None
    BY DEF Result, Errs
  <2>2. Settle(c, r, flight[held[c]]) /\ UNCHANGED <<lru, entry, items, running>> /\ pc[c] = "waiting"
    BY <1>2 DEF FollowerEnded
  <2> HIDE DEF r
  <2> QED BY <2>1, <2>2, FollowerLeaves
<1> QED BY <1>1, <1>2 DEF Wake

LEMMA EnvironmentIInv ==
  ASSUME IInv,
         \/ \E c \in Callers : Return(c) \/ End(c)
         \/ \E e \in Elements : Expire(e)
         \/ UNCHANGED vars
  PROVE  IInv'
<1> USE DEF IInv
<1>1. ASSUME NEW c \in Callers, Return(c)
      PROVE  IInv'
  <2>1. StoreInv' /\ StoredNotRunning'
    BY <1>1 DEF Return, StoreInv, IndexMatchesList, Bounded, InList, StoredNotRunning
  <2>2. TypeOK'
    BY <1>1 DEF Return, TypeOK
  <2>3. LeaderInv' /\ FollowerInv'
    BY <1>1 DEF Return, TypeOK, LeaderInv, FollowerInv
  <2>4. RunningInv' /\ OutsideInv' /\ RightAnswer'
    BY <1>1 DEF Return, TypeOK, RunningInv, OutsideInv, RightAnswer
  <2> QED BY <2>1, <2>2, <2>3, <2>4
<1>2. ASSUME NEW c \in Callers, End(c)
      PROVE  IInv'
  BY <1>2 DEF End, TypeOK, StoreInv, IndexMatchesList, Bounded, InList, LeaderInv, FollowerInv,
              RunningInv, OutsideInv, StoredNotRunning, RightAnswer
<1>3. ASSUME NEW e \in Elements, Expire(e)
      PROVE  IInv'
  <2>1. /\ entry' = [entry EXCEPT ![e].expired = TRUE] /\ entry[e] \in Entry
        /\ UNCHANGED <<lru, items, running, flight, pc, arg, held, ret, ended>>
    BY <1>3 DEF Expire, StoreInv
  <2>2. /\ entry' \in [Elements -> Entry \cup {None}]
        /\ \A x \in Elements : entry'[x] # None <=> entry[x] # None
        /\ \A x \in Elements : entry[x] # None => /\ entry'[x].key = entry[x].key
                                                  /\ entry'[x].data = entry[x].data
    BY <2>1, NoneIsNoElement DEF StoreInv, Entry
  <2>3. InList' = InList /\ InList \subseteq Elements
    BY <2>1, ElementOfSeq DEF InList, StoreInv
  <2>4. IndexMatchesList'
    BY <2>1, <2>2, <2>3 DEF StoreInv, IndexMatchesList
  <2>5. StoreInv'
    BY <2>1, <2>2, <2>4 DEF StoreInv, Bounded
  <2>6. TypeOK' /\ LeaderInv' /\ FollowerInv'
    BY <2>1, <2>2 DEF TypeOK, LeaderInv, FollowerInv
  <2>7. RunningInv' /\ OutsideInv' /\ StoredNotRunning' /\ RightAnswer'
    BY <2>1 DEF RunningInv, OutsideInv, StoredNotRunning, RightAnswer
  <2> QED BY <2>5, <2>6, <2>7
<1>4. ASSUME UNCHANGED vars
      PROVE  IInv'
  BY <1>4 DEF vars, TypeOK, StoreInv, IndexMatchesList, Bounded, InList, LeaderInv, FollowerInv,
              RunningInv, OutsideInv, StoredNotRunning, RightAnswer
<1> QED BY <1>1, <1>2, <1>3, <1>4

LEMMA NextIInv == IInv /\ [Next]_vars => IInv'
<1> SUFFICES ASSUME IInv, [Next]_vars PROVE IInv'
  OBVIOUS
<1>1. ASSUME NEW c \in Callers, Lookup(c)
      PROVE  IInv'
  BY <1>1, HitIInv, JoinIInv, LeadIInv DEF Lookup
<1>2. ASSUME NEW c \in Callers, Compute(c)
      PROVE  IInv'
  BY <1>2, FinishIInv, PanicIInv DEF Compute
<1>3. ASSUME NEW c \in Callers, Wake(c)
      PROVE  IInv'
  BY <1>3, WakeIInv
<1> QED BY <1>1, <1>2, <1>3, EnvironmentIInv DEF Next

-----------------------------------------------------------------------------
(* The theorems.                                                           *)

LEMMA SpecIInv == Spec => []IInv
BY InitIInv, NextIInv, PTL DEF Spec

\* Every variable of cache.go keeps its type, whatever the calls do.
THEOREM TypeCorrect == Spec => []TypeOK
<1>1. IInv => TypeOK
  BY DEF IInv
<1> QED BY <1>1, SpecIInv, PTL

\* The LRU list and the index always describe the same entries, one per key: no
\* interleaving of computations that end with hits that move an entry and drops of
\* expired ones leaves an element in one that is not in the other (cache.go:39-48, 73-85).
THEOREM IndexIsTheList == Spec => []IndexMatchesList
<1>1. IInv => IndexMatchesList
  BY DEF IInv, StoreInv
<1> QED BY <1>1, SpecIInv, PTL

\* There are no more of them than the capacity, and a stored key is not being
\* computed (cache.go:49-60, 79-83).
THEOREM StoreCorrect == Spec => [](Bounded /\ StoredNotRunning)
<1>1. IInv => Bounded /\ StoredNotRunning
  BY DEF IInv, StoreInv
<1> QED BY <1>1, SpecIInv, PTL

\* One caller at most computes a key at any time (cache.go:49-60).
THEOREM OneFlightPerKey == Spec => []SingleFlight
<1>1. IInv => SingleFlight
  <2> SUFFICES ASSUME IInv PROVE SingleFlight
    OBVIOUS
  <2>1. \A c, d \in Callers : pc[c] = "computing" /\ pc[d] = "computing" /\ arg[c] = arg[d] => c = d
    BY DEF IInv, LeaderInv, RunningInv
  <2>2. ASSUME NEW k \in Keys
        PROVE  running[k] # None <=>
                 \E c \in Callers : pc[c] = "computing" /\ arg[c] = k /\ held[c] = running[k]
    BY NoneIsNoElement DEF IInv, LeaderInv, RunningInv
  <2> QED BY <2>1, <2>2 DEF SingleFlight
<1> QED BY <1>1, SpecIInv, PTL

\* No follower is left with a flight that nobody will land: while its flight
\* is open some caller computes it, for the same key (cache.go:61-71).
THEOREM FollowersHaveLeader == Spec => []NoOrphan
<1>1. IInv => NoOrphan
  <2> SUFFICES ASSUME IInv, NEW c \in Callers, pc[c] = "waiting", ~flight[held[c]].done
               PROVE  /\ running[arg[c]] = held[c]
                      /\ \E d \in Callers : pc[d] = "computing" /\ held[d] = held[c] /\ arg[d] = arg[c]
    BY DEF NoOrphan
  <2>1. arg[c] \in Keys /\ held[c] \in Flights /\ running[arg[c]] = held[c]
    BY DEF IInv, FollowerInv
  <2> QED BY <2>1, NoneIsNoElement DEF IInv, RunningInv
<1> QED BY <1>1, SpecIInv, PTL

\* A call answers with the bytes of its own key, or with an error and no
\* bytes, however it was served (cache.go:44, 53, 55, 87).
THEOREM AnswersAreRight == Spec => []RightAnswer
<1>1. IInv => RightAnswer
  BY DEF IInv
<1> QED BY <1>1, SpecIInv, PTL

-----------------------------------------------------------------------------
(* Memo implements CoalescedLRU: each critical section of cache.go is one   *)
(* step of the abstract store, or changes nothing it shows.                 *)

\* What the mapping shows of the store and of the calls.
KeptKeys == [i \in 1..Len(lru) |-> entry[lru[i]].key]
OldKeys == {k \in Keys : items[k] # None /\ entry[items[k]].expired}
Calls == [c \in Callers |-> AbsCall(c)]

-----------------------------------------------------------------------------
(* The kept keys.                                                          *)

\* Removing the first occurrence of a key that is listed once.
LEMMA RemoveListed ==
  ASSUME NEW S, NEW s \in Seq(S), Distinct(s), NEW i \in 1..Len(s)
  PROVE  RemoveFirst(s, s[i]) = RemoveAt(s, i)
<1> DEFINE I == {j \in 1..Len(s) : s[j] = s[i]}
<1>0. Len(s) \in Nat
  BY LenProperties
<1>1. I = {i}
  BY DEF Distinct
<1>2. Min(I) = i
  <2>1. i \in I /\ \A y \in I : i <= y
    BY <1>0, <1>1
  <2>2. \A x \in I : (\A y \in I : x <= y) => x = i
    BY <1>1
  <2> HIDE DEF I
  <2>3. Min(I) \in I /\ \A y \in I : Min(I) <= y
    BY <2>1, Zenon DEF Min
  <2> QED
    BY <2>2, <2>3
<1>3. SelectInSeq(s, LAMBDA v : v = s[i]) = IF I # {} THEN Min(I) ELSE 0
  BY DEF SelectInSeq
<1>4. RemoveFirst(s, s[i]) = IF \E j \in 1..Len(s) : s[j] = s[i]
                             THEN RemoveAt(s, IF I # {} THEN Min(I) ELSE 0) ELSE s
  BY DEF RemoveFirst, SelectInSeq
<1> HIDE DEF I
<1>5. \E j \in 1..Len(s) : s[j] = s[i]
  OBVIOUS
<1> QED
  BY <1>1, <1>2, <1>4, <1>5

\* Nothing is removed if the key is not listed.
LEMMA RemoveUnlisted ==
  ASSUME NEW s, NEW k, \A i \in 1..Len(s) : s[i] # k
  PROVE  RemoveFirst(s, k) = s
BY DEF RemoveFirst

\* The mapping reads the same keys from the list as from the index.
LEMMA KeptFacts ==
  ASSUME StoreInv
  PROVE  /\ KeptKeys \in Seq(Keys)
         /\ Len(KeptKeys) = Len(lru) /\ Len(lru) \in Nat
         /\ Distinct(KeptKeys)
         /\ \A k \in Keys : items[k] # None <=> \E i \in 1..Len(lru) : KeptKeys[i] = k
         /\ \A i \in 1..Len(lru) : /\ lru[i] \in Elements /\ entry[lru[i]] \in Entry
                                   /\ KeptKeys[i] = entry[lru[i]].key
                                   /\ KeptKeys[i] \in Keys
                                   /\ items[KeptKeys[i]] = lru[i]
         /\ ToSet(KeptKeys) = {k \in Keys : items[k] # None}
<1>0. Len(lru) \in Nat /\ lru \in [1..Len(lru) -> Elements]
  BY LenProperties DEF StoreInv
<1>1. \A i \in 1..Len(lru) : /\ lru[i] \in Elements /\ entry[lru[i]] \in Entry
                             /\ KeptKeys[i] = entry[lru[i]].key
                             /\ KeptKeys[i] \in Keys
                             /\ items[KeptKeys[i]] = lru[i]
  <2> TAKE i \in 1..Len(lru)
  <2>1. lru[i] \in Elements /\ lru[i] \in InList
    BY <1>0 DEF InList
  <2>2. entry[lru[i]] \in Entry /\ items[entry[lru[i]].key] = lru[i]
    BY <2>1 DEF StoreInv, IndexMatchesList
  <2>3. KeptKeys[i] = entry[lru[i]].key
    BY DEF KeptKeys
  <2> QED
    BY <2>1, <2>2, <2>3 DEF Entry
<1>2. KeptKeys \in [1..Len(lru) -> Keys]
  BY <1>1 DEF KeptKeys
<1>3. KeptKeys \in Seq(Keys)
  BY <1>0, <1>2, SeqDef
<1>4. Len(KeptKeys) = Len(lru)
  <2>1. DOMAIN KeptKeys = 1..Len(KeptKeys) /\ Len(KeptKeys) \in Nat
    BY <1>3, LenProperties
  <2>2. DOMAIN KeptKeys = 1..Len(lru)
    BY DEF KeptKeys
  <2>3. \A m, n \in Nat : 1..m = 1..n => m = n
    <3> SUFFICES ASSUME NEW m \in Nat, NEW n \in Nat, 1..m = 1..n PROVE m = n
      OBVIOUS
    <3>1. (m = 0 \/ m \in 1..n) /\ (n = 0 \/ n \in 1..m)
      OBVIOUS
    <3> QED
      BY <3>1
  <2> QED
    BY <1>0, <2>1, <2>2, <2>3
<1>5. Distinct(KeptKeys)
  <2> SUFFICES ASSUME NEW i \in 1..Len(lru), NEW j \in 1..Len(lru), KeptKeys[i] = KeptKeys[j]
               PROVE  i = j
    BY <1>4 DEF Distinct
  <2>1. lru[i] = lru[j]
    BY <1>1
  <2> QED
    BY <2>1 DEF StoreInv, IndexMatchesList
<1>6. ASSUME NEW k \in Keys
      PROVE  items[k] # None <=> \E i \in 1..Len(lru) : KeptKeys[i] = k
  <2>1. ASSUME items[k] # None PROVE \E i \in 1..Len(lru) : KeptKeys[i] = k
    BY <2>1, <1>1 DEF StoreInv, IndexMatchesList, InList
  <2>2. ASSUME NEW i \in 1..Len(lru), KeptKeys[i] = k PROVE items[k] # None
    BY <2>2, <1>1, NoneIsNoElement
  <2> QED
    BY <2>1, <2>2
<1>7. ToSet(KeptKeys) = {k \in Keys : items[k] # None}
  <2>1. DOMAIN KeptKeys = 1..Len(lru)
    BY DEF KeptKeys
  <2> QED
    BY <2>1, <1>1, <1>6 DEF ToSet
<1> QED
  BY <1>0, <1>1, <1>3, <1>4, <1>5, <1>6, <1>7

\* The same of the next state.
KeptShape ==
  /\ KeptKeys \in Seq(Keys)
  /\ Len(KeptKeys) = Len(lru)
  /\ \A i \in 1..Len(lru) : KeptKeys[i] = entry[lru[i]].key
  /\ ToSet(KeptKeys) = {k \in Keys : items[k] # None}

LEMMA KeptFactsNext == StoreInv' => KeptShape'
<1>1. StoreInv => KeptShape
  BY KeptFacts DEF KeptShape
<1> QED
  BY <1>1, PTL

\* Dropping the expired entry of a key removes that key.
LEMMA DropShown ==
  ASSUME StoreInv, NEW k \in Keys, DropExpired(k)
  PROVE  KeptKeys' = RemoveFirst(KeptKeys, k) /\ OldKeys' = OldKeys \ {k}
<1>1. CASE items[k] = None
  <2>1. UNCHANGED store
    BY <1>1 DEF DropExpired
  <2>2. KeptKeys' = KeptKeys /\ OldKeys' = OldKeys
    BY <2>1 DEF store, KeptKeys, OldKeys
  <2>3. \A i \in 1..Len(KeptKeys) : KeptKeys[i] # k
    BY <1>1, KeptFacts
  <2>4. RemoveFirst(KeptKeys, k) = KeptKeys
    BY <2>3, RemoveUnlisted
  <2>5. k \notin OldKeys
    BY <1>1 DEF OldKeys
  <2> QED
    BY <2>2, <2>4, <2>5
<1>2. CASE items[k] # None
  <2> DEFINE e == items[k]
  <2>1. PICK i \in 1..Len(lru) : KeptKeys[i] = k
    BY <1>2, KeptFacts
  <2>2. lru[i] = e /\ e \in Elements
    BY <2>1, KeptFacts
  <2>3. lru' = Unlink(e) /\ entry' = [entry EXCEPT ![e] = None] /\ items' = [items EXCEPT ![k] = None]
    BY <1>2 DEF DropExpired
  <2>4. Unlink(e) = RemoveAt(lru, i)
    <3>1. (CHOOSE j \in 1..Len(lru) : lru[j] = e) = i
      BY <2>2 DEF StoreInv, IndexMatchesList
    <3> QED
      BY <3>1 DEF Unlink
  <2>5. RemoveFirst(KeptKeys, k) = RemoveAt(KeptKeys, i)
    BY <2>1, KeptFacts, RemoveListed
  <2>6. /\ Len(lru') = Len(lru) - 1
        /\ \A j \in 1..(Len(lru) - 1) : lru'[j] = IF j < i THEN lru[j] ELSE lru[j + 1]
    BY <2>3, <2>4, RemoveAtProperties DEF StoreInv
  <2>7. /\ RemoveAt(KeptKeys, i) \in Seq(Keys)
        /\ Len(RemoveAt(KeptKeys, i)) = Len(lru) - 1
        /\ \A j \in 1..(Len(lru) - 1) :
             RemoveAt(KeptKeys, i)[j] = IF j < i THEN KeptKeys[j] ELSE KeptKeys[j + 1]
    <3>1. KeptKeys \in Seq(Keys) /\ Len(KeptKeys) = Len(lru) /\ i \in 1..Len(KeptKeys)
      BY KeptFacts
    <3> QED
      BY <3>1, RemoveAtProperties
  <2>8. StoreInv'
    BY DropKeepsStore
  <2>9. /\ KeptKeys' \in Seq(Keys) /\ Len(KeptKeys') = Len(lru')
        /\ \A j \in 1..Len(lru') : KeptKeys'[j] = entry'[lru'[j]].key
    BY <2>8, KeptFactsNext DEF KeptShape
  <2>10. ASSUME NEW j \in 1..Len(lru') PROVE KeptKeys'[j] = RemoveAt(KeptKeys, i)[j]
    <3>1. j \in 1..(Len(lru) - 1) /\ Len(lru) \in Nat
      BY <2>6, KeptFacts
    <3> DEFINE n == IF j < i THEN j ELSE j + 1
    <3>2. n \in 1..Len(lru) /\ n # i
      BY <3>1
    <3>3. lru'[j] = lru[n] /\ RemoveAt(KeptKeys, i)[j] = KeptKeys[n]
      BY <2>6, <2>7, <3>1
    <3> HIDE DEF n
    <3>4. lru[n] # e /\ lru[n] \in Elements
      BY <2>2, <3>2, KeptFacts DEF StoreInv, IndexMatchesList
    <3>5. entry'[lru[n]] = entry[lru[n]]
      BY <2>3, <3>4 DEF StoreInv
    <3> QED
      BY <2>9, <3>2, <3>3, <3>5, KeptFacts
  <2>11. KeptKeys' = RemoveAt(KeptKeys, i)
    BY <2>6, <2>7, <2>9, <2>10, SeqEqual
  <2>12. OldKeys' = OldKeys \ {k}
    <3> SUFFICES ASSUME NEW j \in Keys
                 PROVE  (items'[j] # None /\ entry'[items'[j]].expired)
                        <=> (j # k /\ items[j] # None /\ entry[items[j]].expired)
      BY Zenon DEF OldKeys
    <3>1. CASE j = k
      BY <2>3, <3>1 DEF StoreInv
    <3>2. CASE j # k
      <4>1. items'[j] = items[j]
        BY <2>3, <3>2 DEF StoreInv
      <4>2. items[j] # None => items[j] # e /\ items[j] \in Elements
        BY <1>2, <3>2 DEF StoreInv, IndexMatchesList, InList
      <4>3. items[j] # None => entry'[items[j]] = entry[items[j]]
        BY <2>3, <4>2 DEF StoreInv
      <4> QED
        BY <3>2, <4>1, <4>3
    <3> QED
      BY <3>1, <3>2
  <2> QED
    BY <2>5, <2>11, <2>12
<1> QED
  BY <1>1, <1>2

\* A hit makes its key the most recently used.
LEMMA HitShown ==
  ASSUME StoreInv, NEW k \in Keys, items[k] # None,
         lru' = MoveToFront(items[k]), UNCHANGED <<entry, items>>
  PROVE  KeptKeys' = <<k>> \o RemoveFirst(KeptKeys, k) /\ OldKeys' = OldKeys
<1> DEFINE e == items[k]
<1>1. PICK i \in 1..Len(lru) : KeptKeys[i] = k
  BY KeptFacts
<1>2. lru[i] = e /\ e \in Elements /\ entry[e].key = k
  BY <1>1, KeptFacts
<1>3. Unlink(e) = RemoveAt(lru, i)
  <2>1. (CHOOSE j \in 1..Len(lru) : lru[j] = e) = i
    BY <1>2 DEF StoreInv, IndexMatchesList
  <2> QED
    BY <2>1 DEF Unlink
<1>4. RemoveFirst(KeptKeys, k) = RemoveAt(KeptKeys, i)
  BY <1>1, KeptFacts, RemoveListed
<1> DEFINE r == RemoveAt(lru, i)
           q == RemoveAt(KeptKeys, i)
<1>5. /\ r \in Seq(Elements) /\ Len(r) = Len(lru) - 1
      /\ \A j \in 1..(Len(lru) - 1) : r[j] = IF j < i THEN lru[j] ELSE lru[j + 1]
  BY RemoveAtProperties DEF StoreInv
<1>6. /\ q \in Seq(Keys) /\ Len(q) = Len(lru) - 1
      /\ \A j \in 1..(Len(lru) - 1) : q[j] = IF j < i THEN KeptKeys[j] ELSE KeptKeys[j + 1]
  <2>1. KeptKeys \in Seq(Keys) /\ Len(KeptKeys) = Len(lru) /\ i \in 1..Len(KeptKeys)
    BY KeptFacts
  <2> QED
    BY <2>1, RemoveAtProperties
<1>7. lru' = <<e>> \o r
  BY <1>3 DEF MoveToFront
<1> HIDE DEF r, q
<1>8. /\ <<e>> \in Seq(Elements) /\ Len(<<e>>) = 1 /\ <<e>>[1] = e
      /\ <<k>> \in Seq(Keys) /\ Len(<<k>>) = 1 /\ <<k>>[1] = k
  BY <1>2
<1>9. Len(lru) \in Nat
  BY KeptFacts
<1>10. /\ Len(lru') = Len(lru)
       /\ \A j \in 1..Len(lru) : lru'[j] = IF j = 1 THEN e ELSE r[j - 1]
  <2>1. /\ Len(lru') = Len(<<e>>) + Len(r)
        /\ \A j \in 1..(Len(<<e>>) + Len(r)) :
             lru'[j] = IF j <= Len(<<e>>) THEN <<e>>[j] ELSE r[j - Len(<<e>>)]
    BY <1>5, <1>7, <1>8, ConcatProperties
  <2> QED
    BY <1>5, <1>8, <1>9, <2>1
<1>11. /\ <<k>> \o q \in Seq(Keys) /\ Len(<<k>> \o q) = Len(lru)
       /\ \A j \in 1..Len(lru) : (<<k>> \o q)[j] = IF j = 1 THEN k ELSE q[j - 1]
  <2>1. /\ <<k>> \o q \in Seq(Keys)
        /\ Len(<<k>> \o q) = Len(<<k>>) + Len(q)
        /\ \A j \in 1..(Len(<<k>>) + Len(q)) :
             (<<k>> \o q)[j] = IF j <= Len(<<k>>) THEN <<k>>[j] ELSE q[j - Len(<<k>>)]
    BY <1>6, <1>8, ConcatProperties
  <2> QED
    BY <1>6, <1>8, <1>9, <2>1
<1>12. StoreInv'
  BY HitKeepsStore
<1>13. /\ KeptKeys' \in Seq(Keys) /\ Len(KeptKeys') = Len(lru')
       /\ \A j \in 1..Len(lru') : KeptKeys'[j] = entry'[lru'[j]].key
  BY <1>12, KeptFactsNext DEF KeptShape
<1>14. ASSUME NEW j \in 1..Len(lru) PROVE KeptKeys'[j] = (<<k>> \o q)[j]
  <2>1. CASE j = 1
    BY <1>2, <1>10, <1>11, <1>13, <2>1
  <2>2. CASE j # 1
    <3>1. j - 1 \in 1..(Len(lru) - 1)
      BY <1>9, <2>2
    <3> DEFINE n == IF j - 1 < i THEN j - 1 ELSE (j - 1) + 1
    <3>2. n \in 1..Len(lru) /\ r[j - 1] = lru[n] /\ q[j - 1] = KeptKeys[n]
      BY <1>5, <1>6, <1>9, <3>1
    <3> HIDE DEF n
    <3>3. KeptKeys[n] = entry[lru[n]].key
      BY <3>2, KeptFacts
    <3>4. lru'[j] = lru[n] /\ (<<k>> \o q)[j] = KeptKeys[n]
      BY <1>10, <1>11, <2>2, <3>2
    <3>5. KeptKeys'[j] = entry[lru[n]].key
      BY <1>10, <1>13, <3>4
    <3> QED
      BY <3>3, <3>4, <3>5
  <2> QED
    BY <2>1, <2>2
<1>15. KeptKeys' = <<k>> \o q
  <2>1. /\ Len(KeptKeys') = Len(<<k>> \o q)
        /\ \A j \in 1..Len(KeptKeys') : KeptKeys'[j] = (<<k>> \o q)[j]
    BY <1>10, <1>11, <1>13, <1>14, Zenon
  <2> QED
    BY <1>11, <1>13, <2>1, SeqEqual, Zenon
<1>16. OldKeys' = OldKeys
  BY DEF OldKeys
<1> QED
  BY <1>4, <1>15, <1>16 DEF q

\* A new key comes in front, and pushes the last one out of a full store.
LEMMA PushShown ==
  ASSUME StoreInv, Capacity > 0, NEW k \in Keys, items[k] = None,
         NEW e \in Elements, entry[e] = None, PushAndEvict(e, k, k)
  PROVE  /\ KeptKeys' = IF Len(<<k>> \o KeptKeys) > Capacity
                        THEN Front(<<k>> \o KeptKeys) ELSE <<k>> \o KeptKeys
         /\ OldKeys' = OldKeys \cap ToSet(KeptKeys')
<1> DEFINE grown == <<e>> \o lru
           m == IF Len(grown) > Capacity THEN Capacity ELSE Len(grown)
           evicted == {grown[i] : i \in (Capacity + 1)..Len(grown)}
           entries == [entry EXCEPT ![e] = [key |-> k, data |-> k, expired |-> FALSE]]
           front == <<k>> \o KeptKeys
<1>1. /\ lru' = SubSeq(grown, 1, m)
      /\ entry' = [x \in Elements |-> IF x \in evicted THEN None ELSE entries[x]]
      /\ items' = [j \in Keys |-> IF \E x \in evicted : entries[x].key = j THEN None
                                  ELSE IF j = k THEN e ELSE items[j]]
  BY Zenon DEF PushAndEvict
<1>2. /\ Len(lru) \in Nat /\ Len(lru) <= Capacity /\ lru \in Seq(Elements)
  BY KeptFacts DEF StoreInv, Bounded
<1>3. /\ <<e>> \in Seq(Elements) /\ Len(<<e>>) = 1 /\ <<e>>[1] = e
      /\ <<k>> \in Seq(Keys) /\ Len(<<k>>) = 1 /\ <<k>>[1] = k
  OBVIOUS
<1>4. /\ grown \in Seq(Elements) /\ Len(grown) = Len(lru) + 1
      /\ \A i \in 1..(Len(lru) + 1) : grown[i] = IF i = 1 THEN e ELSE lru[i - 1]
  <2>1. /\ grown \in Seq(Elements) /\ Len(grown) = Len(<<e>>) + Len(lru)
        /\ \A i \in 1..(Len(<<e>>) + Len(lru)) :
             grown[i] = IF i <= Len(<<e>>) THEN <<e>>[i] ELSE lru[i - Len(<<e>>)]
    BY <1>2, <1>3, ConcatProperties
  <2> HIDE DEF grown
  <2> QED
    BY <1>2, <1>3, <2>1
<1>5. /\ front \in Seq(Keys) /\ Len(front) = Len(lru) + 1
      /\ \A i \in 1..(Len(lru) + 1) : front[i] = IF i = 1 THEN k ELSE KeptKeys[i - 1]
  <2>1. /\ front \in Seq(Keys) /\ Len(front) = Len(<<k>>) + Len(KeptKeys)
        /\ \A i \in 1..(Len(<<k>>) + Len(KeptKeys)) :
             front[i] = IF i <= Len(<<k>>) THEN <<k>>[i] ELSE KeptKeys[i - Len(<<k>>)]
    BY <1>3, KeptFacts, ConcatProperties
  <2>2. Len(KeptKeys) = Len(lru)
    BY KeptFacts
  <2> HIDE DEF front
  <2> QED
    BY <1>2, <1>3, <2>1, <2>2
<1>6. entries[e].key = k /\ entries[e].expired = FALSE /\ \A x \in Elements \ {e} : entries[x] = entry[x]
  BY DEF StoreInv
<1> HIDE DEF grown, evicted, entries, front
<1>7. m \in 1..(Len(lru) + 1) /\ m \in Nat /\ (Len(front) > Capacity => m = Len(front) - 1)
      /\ (~(Len(front) > Capacity) => m = Len(front))
  BY <1>2, <1>4, <1>5, CapacityAssumption
<1> HIDE DEF m
<1>8. Len(lru') = m /\ \A i \in 1..m : lru'[i] = grown[i]
  <2>1. \A i \in 1..m : grown[i] \in Elements
    BY <1>2, <1>4, <1>7, ElementOfSeq
  <2>2. /\ Len(SubSeq(grown, 1, m)) = IF 1 <= m THEN m - 1 + 1 ELSE 0
        /\ \A i \in 1..(m - 1 + 1) : SubSeq(grown, 1, m)[i] = grown[1 + i - 1]
    BY <1>7, <2>1, SubSeqProperties
  <2> QED
    BY <1>1, <1>2, <1>7, <2>2
<1>9. StoreInv'
  BY PushKeepsStore
<1>10. /\ KeptKeys' \in Seq(Keys) /\ Len(KeptKeys') = m
       /\ \A i \in 1..m : KeptKeys'[i] = entry'[lru'[i]].key
       /\ ToSet(KeptKeys') = {j \in Keys : items'[j] # None}
  BY <1>8, <1>9, KeptFactsNext DEF KeptShape
<1>11. \A x \in Elements : x \in InList' => entry'[x] = entries[x]
  BY <1>1, <1>9 DEF StoreInv, IndexMatchesList
<1>12. ASSUME NEW i \in 1..m PROVE KeptKeys'[i] = front[i]
  <2>1. lru'[i] = grown[i] /\ lru'[i] \in InList' /\ grown[i] \in Elements
    <3>1. i \in 1..Len(grown) /\ i \in 1..Len(lru')
      BY <1>2, <1>4, <1>7, <1>8
    <3>2. grown[i] \in Elements
      BY <1>4, <3>1, ElementOfSeq
    <3> QED
      BY <1>8, <3>1, <3>2 DEF InList
  <2>2. KeptKeys'[i] = entries[grown[i]].key
    BY <1>10, <1>11, <2>1
  <2>3. CASE i = 1
    BY <1>2, <1>4, <1>5, <1>6, <2>2, <2>3
  <2>4. CASE i # 1
    <3>1. i - 1 \in 1..Len(lru) /\ grown[i] = lru[i - 1] /\ front[i] = KeptKeys[i - 1]
      BY <1>2, <1>4, <1>5, <1>7, <2>4
    <3>2. lru[i - 1] \in Elements /\ lru[i - 1] # e /\ KeptKeys[i - 1] = entry[lru[i - 1]].key
      BY <3>1, KeptFacts, NoneIsNoElement
    <3> QED
      BY <1>6, <2>2, <3>1, <3>2
  <2> QED
    BY <2>3, <2>4
<1>13. KeptKeys' = SubSeq(front, 1, m)
  <2>1. \A i \in 1..m : front[i] \in Keys
    BY <1>2, <1>5, <1>7, ElementOfSeq
  <2>2. /\ SubSeq(front, 1, m) \in Seq(Keys)
        /\ Len(SubSeq(front, 1, m)) = IF 1 <= m THEN m - 1 + 1 ELSE 0
        /\ \A i \in 1..(m - 1 + 1) : SubSeq(front, 1, m)[i] = front[1 + i - 1]
    BY <1>7, <2>1, SubSeqProperties
  <2>3. /\ Len(SubSeq(front, 1, m)) = m
        /\ \A i \in 1..m : SubSeq(front, 1, m)[i] = front[i]
    BY <1>2, <1>7, <2>2
  <2>4. /\ Len(KeptKeys') = Len(SubSeq(front, 1, m))
        /\ \A i \in 1..Len(KeptKeys') : KeptKeys'[i] = SubSeq(front, 1, m)[i]
    BY <1>10, <1>12, <2>3
  <2> QED
    BY <1>10, <2>2, <2>4, SeqEqual, Zenon
<1>14. KeptKeys' = IF Len(front) > Capacity THEN Front(front) ELSE front
  <2>1. CASE Len(front) > Capacity
    BY <1>7, <1>13, <2>1 DEF Front
  <2>2. CASE ~(Len(front) > Capacity)
    BY <1>5, <1>7, <1>13, <2>2, SubSeqFull
  <2> QED
    BY <2>1, <2>2
<1>15. OldKeys' = OldKeys \cap ToSet(KeptKeys')
  <2> SUFFICES ASSUME NEW j \in Keys
               PROVE  (items'[j] # None /\ entry'[items'[j]].expired)
                      <=> (items[j] # None /\ entry[items[j]].expired /\ items'[j] # None)
    BY <1>10 DEF OldKeys
  <2>1. items'[j] # None => items'[j] = IF j = k THEN e ELSE items[j]
    BY <1>1
  <2>2. items'[j] # None => items'[j] \in InList' /\ items'[j] \in Elements
    BY <1>9 DEF StoreInv, IndexMatchesList
  <2>3. CASE j = k
    BY <1>6, <1>11, <2>1, <2>2, <2>3
  <2>4. CASE j # k
    <3>1. items[j] # None => items[j] # e
      BY DEF StoreInv, IndexMatchesList
    <3> QED
      BY <1>6, <1>11, <2>1, <2>2, <2>4, <3>1
  <2> QED
    BY <2>3, <2>4
<1> QED
  BY <1>14, <1>15 DEF front

\* A TTL that passes makes one more key old.
LEMMA ExpireShown ==
  ASSUME StoreInv, NEW e \in Elements, Expire(e)
  PROVE  \E k \in Keys : /\ k \in ToSet(KeptKeys) \ OldKeys
                         /\ KeptKeys' = KeptKeys /\ OldKeys' = OldKeys \cup {k}
<1> DEFINE k == entry[e].key
<1>1. /\ entry[e] # None /\ ~entry[e].expired /\ lru' = lru /\ items' = items
      /\ entry' = [entry EXCEPT ![e].expired = TRUE]
  BY DEF Expire
<1>2. entry[e] \in Entry /\ k \in Keys /\ items[k] = e
  BY <1>1 DEF StoreInv, IndexMatchesList, Entry
<1>3. \A x \in Elements : entry[x] # None => /\ entry'[x].key = entry[x].key
                                             /\ entry'[x].expired = (x = e \/ entry[x].expired)
  BY <1>1 DEF StoreInv, Entry
<1>4. \A i \in 1..Len(lru) : entry'[lru[i]].key = entry[lru[i]].key
  BY <1>3, KeptFacts, NoneIsNoElement
<1>5. KeptKeys' = KeptKeys
  BY <1>1, <1>4 DEF KeptKeys
<1> HIDE DEF k
<1>6. k \in ToSet(KeptKeys) \ OldKeys
  BY <1>1, <1>2, KeptFacts, NoneIsNoElement DEF OldKeys
<1>7. OldKeys' = OldKeys \cup {k}
  <2>1. \A j \in Keys : items[j] # None => items[j] \in Elements /\ entry[items[j]] # None /\ (items[j] = e => j = k)
    BY <1>2 DEF StoreInv, IndexMatchesList, InList, k
  <2> QED
    BY <1>1, <1>2, <1>3, <2>1, NoneIsNoElement DEF OldKeys
<1> QED
  BY <1>2, <1>5, <1>6, <1>7

-----------------------------------------------------------------------------
(* The calls.                                                              *)

Share(c) == IF flight[held[c]].done THEN flight[held[c]].err ELSE "open"

\* What the mapping shows of a call, by its place in Do.
CallShape ==
  \A c \in Callers :
    /\ pc[c] = "idle" => Calls[c] = [st |-> "idle"]
    /\ pc[c] = "computing" => Calls[c] = [st |-> "leads", key |-> arg[c]]
    /\ pc[c] = "waiting" => Calls[c] = [st |-> "follows", key |-> arg[c], share |-> Share(c)]
    /\ pc[c] = "done" =>
         Calls[c] = [st |-> "returned", key |-> arg[c], err |-> ret[c].err, cached |-> ret[c].cached]

LEMMA CallFacts == CallShape /\ CallShape'
<1>1. CallShape
  BY DEF CallShape, Calls, AbsCall, Share
<1> QED
  BY <1>1, PTL

\* A step that concerns c alone.
LEMMA CallStep ==
  ASSUME NEW c \in Callers, \A d \in Callers \ {c} : Calls'[d] = Calls[d]
  PROVE  Calls' = [Calls EXCEPT ![c] = Calls'[c]]
<1>1. Calls = [d \in Callers |-> Calls[d]] /\ Calls' = [d \in Callers |-> Calls'[d]]
  BY DEF Calls
<1> QED
  BY <1>1

\* Another call is shown as before if its place, and the flight it waits for, are.
LEMMA OthersSame ==
  ASSUME TypeOK, NEW d \in Callers, pc'[d] = pc[d], arg'[d] = arg[d], ret'[d] = ret[d], held'[d] = held[d],
         pc[d] = "waiting" => flight'[held[d]] = flight[held[d]]
  PROVE  Calls'[d] = Calls[d]
<1>1. pc[d] \in {"idle", "computing", "waiting", "done"}
  BY DEF TypeOK
<1>2. pc[d] = "waiting" => Share(d)' = Share(d)
  BY DEF Share
<1> QED
  BY <1>1, <1>2, CallFacts DEF CallShape

\* The abstract store computes a key exactly if running names a flight for it.
LEMMA LedIsRunning ==
  ASSUME IInv, NEW k \in Keys
  PROVE  running[k] # None <=> \E d \in Callers : Calls[d] = [st |-> "leads", key |-> k]
<1>1. ASSUME running[k] # None PROVE \E d \in Callers : Calls[d] = [st |-> "leads", key |-> k]
  <2>1. PICK d \in Callers : pc[d] = "computing" /\ arg[d] = k
    BY <1>1 DEF IInv, RunningInv
  <2>2. Calls[d] = [st |-> "leads", key |-> k]
    BY <2>1, CallFacts DEF CallShape
  <2> QED
    BY <2>2
<1>2. ASSUME NEW d \in Callers, Calls[d] = [st |-> "leads", key |-> k] PROVE running[k] # None
  <2>1. Calls[d].st = "leads" /\ Calls[d].key = k
    BY <1>2
  <2>2. pc[d] = "computing"
    <3>1. pc[d] \in {"idle", "computing", "waiting", "done"}
      BY DEF IInv, TypeOK
    <3>2. ASSUME pc[d] = "idle" PROVE Calls[d].st = "idle"
      <4>1. Calls[d] = [st |-> "idle"]
        BY <3>2, CallFacts DEF CallShape
      <4> QED
        BY <4>1
    <3>3. ASSUME pc[d] = "waiting" PROVE Calls[d].st = "follows"
      <4>1. Calls[d] = [st |-> "follows", key |-> arg[d], share |-> Share(d)]
        BY <3>3, CallFacts DEF CallShape
      <4> QED
        BY <4>1
    <3>4. ASSUME pc[d] = "done" PROVE Calls[d].st = "returned"
      <4>1. Calls[d] = [st |-> "returned", key |-> arg[d], err |-> ret[d].err, cached |-> ret[d].cached]
        BY <3>4, CallFacts DEF CallShape
      <4> QED
        BY <4>1
    <3> QED
      BY <2>1, <3>1, <3>2, <3>3, <3>4
  <2>3. Calls[d] = [st |-> "leads", key |-> arg[d]]
    BY <2>2, CallFacts DEF CallShape
  <2>4. arg[d] = k
    BY <1>2, <2>3
  <2> QED
    BY <2>2, <2>4, NoneIsNoElement DEF IInv, LeaderInv
<1> QED
  BY <1>1, <1>2

-----------------------------------------------------------------------------
(* The steps of the abstract store, in terms of what the mapping shows.    *)

\* The abstract store reads sequences with the operators used here.
LEMMA SameOperators ==
  /\ \A s : Abstract!ToSet(s) = ToSet(s)
  /\ \A s : Abstract!Front(s) = Front(s)
  /\ \A s, k : Abstract!RemoveFirst(s, k) = RemoveFirst(s, k)
<1>1. \A s : Abstract!ToSet(s) = ToSet(s)
  BY Zenon DEF Abstract!ToSet, ToSet
<1>2. \A s : Abstract!Front(s) = Front(s)
  BY Zenon DEF Abstract!Front, Front
<1>3. \A s, k : Abstract!RemoveFirst(s, k) = RemoveFirst(s, k)
  BY Zenon DEF Abstract!RemoveFirst, Abstract!SelectInSeq, Abstract!RemoveAt, Abstract!Min,
     RemoveFirst, SelectInSeq, RemoveAt, Min
<1> QED
  BY <1>1, <1>2, <1>3

LEMMA StoreSteps ==
  ASSUME NEW k \in Keys
  PROVE  /\ \A c \in Callers :
              (/\ Calls[c] = [st |-> "idle"]
               /\ k \in ToSet(KeptKeys) \ OldKeys
               /\ KeptKeys' = <<k>> \o RemoveFirst(KeptKeys, k)
               /\ Calls' = [Calls EXCEPT ![c] = [st |-> "returned", key |-> k, err |-> "nil", cached |-> TRUE]]
               /\ OldKeys' = OldKeys /\ ended' = ended)
              => Abstract!Hit(c, k)
         /\ \A c \in Callers :
              (/\ Calls[c] = [st |-> "idle"]
               /\ k \notin ToSet(KeptKeys) \ OldKeys
               /\ KeptKeys' = RemoveFirst(KeptKeys, k)
               /\ OldKeys' = OldKeys \ {k}
               /\ Calls' = [Calls EXCEPT ![c] =
                              IF \E d \in Callers : Calls[d] = [st |-> "leads", key |-> k]
                              THEN [st |-> "follows", key |-> k, share |-> "open"]
                              ELSE [st |-> "leads", key |-> k]]
               /\ ended' = ended)
              => Abstract!Miss(c, k)
         /\ (/\ k \in ToSet(KeptKeys) \ OldKeys
             /\ OldKeys' = OldKeys \cup {k}
             /\ KeptKeys' = KeptKeys /\ Calls' = Calls /\ ended' = ended)
            => Abstract!Expire(k)
<1> DEFINE kept == [i \in 1..Len(lru) |-> entry[lru[i]].key]
           old == {j \in Keys : items[j] # None /\ entry[items[j]].expired}
           call == [d \in Callers |-> AbsCall(d)]
<1>1. /\ kept = KeptKeys /\ old = OldKeys /\ call = Calls
      /\ kept' = KeptKeys' /\ old' = OldKeys' /\ call' = Calls'
  BY Zenon DEF KeptKeys, OldKeys, Calls
<1>2. \A c : Abstract!Hit(c, k) =
               (/\ call[c] = Abstract!Idle
                /\ k \in Abstract!ToSet(kept) \ old
                /\ kept' = <<k>> \o Abstract!RemoveFirst(kept, k)
                /\ call' = [call EXCEPT ![c] = Abstract!Returned(k, "nil", TRUE)]
                /\ UNCHANGED <<old, ended>>)
  BY Zenon DEF Abstract!Hit
<1>3. \A c : Abstract!Miss(c, k) =
               (/\ call[c] = Abstract!Idle
                /\ k \notin Abstract!ToSet(kept) \ old
                /\ kept' = Abstract!RemoveFirst(kept, k)
                /\ old' = old \ {k}
                /\ call' = [call EXCEPT ![c] = IF \E d \in Callers : call[d] = Abstract!Leads(k)
                                               THEN Abstract!Follows(k, "open") ELSE Abstract!Leads(k)]
                /\ UNCHANGED ended)
  BY Zenon DEF Abstract!Miss, Abstract!Led
<1>4. Abstract!Expire(k) =
        (/\ k \in Abstract!ToSet(kept) \ old
         /\ old' = old \cup {k}
         /\ UNCHANGED <<kept, call, ended>>)
  BY Zenon DEF Abstract!Expire
<1>5. /\ Abstract!Idle = [st |-> "idle"]
      /\ Abstract!Returned(k, "nil", TRUE) = [st |-> "returned", key |-> k, err |-> "nil", cached |-> TRUE]
      /\ Abstract!Leads(k) = [st |-> "leads", key |-> k]
      /\ Abstract!Follows(k, "open") = [st |-> "follows", key |-> k, share |-> "open"]
  BY Zenon DEF Abstract!Idle, Abstract!Returned, Abstract!Leads, Abstract!Follows
<1> HIDE DEF kept, old, call
<1> QED
  BY <1>1, <1>2, <1>3, <1>4, <1>5, SameOperators

LEMMA ComputeStep ==
  ASSUME NEW c \in Callers, NEW k \in Keys, NEW err, NEW share,
         Calls[c] = [st |-> "leads", key |-> k],
         err = "ctx" => c \in ended,
         share = IF err = "panic" THEN "ctx" ELSE err,
         KeptKeys' = IF err # "nil" \/ Capacity = 0 THEN KeptKeys
                     ELSE IF Len(<<k>> \o KeptKeys) > Capacity
                          THEN Front(<<k>> \o KeptKeys) ELSE <<k>> \o KeptKeys,
         OldKeys' = OldKeys \cap ToSet(KeptKeys'),
         Calls' = [d \in Callers |->
                     IF d = c THEN [st |-> "returned", key |-> k, err |-> err, cached |-> FALSE]
                     ELSE IF Calls[d] = [st |-> "follows", key |-> k, share |-> "open"]
                          THEN [st |-> "follows", key |-> k, share |-> share] ELSE Calls[d]],
         ended' = ended
  PROVE  Abstract!Compute(c, err)
<1> DEFINE kept == [i \in 1..Len(lru) |-> entry[lru[i]].key]
           old == {j \in Keys : items[j] # None /\ entry[items[j]].expired}
           call == [d \in Callers |-> AbsCall(d)]
<1>1. /\ kept = KeptKeys /\ old = OldKeys /\ call = Calls
      /\ kept' = KeptKeys' /\ old' = OldKeys' /\ call' = Calls'
  BY Zenon DEF KeptKeys, OldKeys, Calls
<1>2. Abstract!Compute(c, err) =
        (/\ call[c].st = "leads"
         /\ err = "ctx" => c \in ended
         /\ kept' = IF err # "nil" \/ Capacity = 0 THEN kept
                    ELSE IF Len(<<call[c].key>> \o kept) > Capacity
                         THEN Abstract!Front(<<call[c].key>> \o kept) ELSE <<call[c].key>> \o kept
         /\ old' = old \cap Abstract!ToSet(kept')
         /\ call' = [d \in Callers |->
                       IF d = c THEN Abstract!Returned(call[c].key, err, FALSE)
                       ELSE IF call[d] = Abstract!Follows(call[c].key, "open")
                            THEN Abstract!Follows(call[c].key, IF err = "panic" THEN "ctx" ELSE err)
                            ELSE call[d]]
         /\ UNCHANGED ended)
  BY Zenon DEF Abstract!Compute
<1>3. /\ \A e, b : Abstract!Returned(k, e, b) = [st |-> "returned", key |-> k, err |-> e, cached |-> b]
      /\ \A h : Abstract!Follows(k, h) = [st |-> "follows", key |-> k, share |-> h]
  BY Zenon DEF Abstract!Returned, Abstract!Follows
<1>4. Calls[c].st = "leads" /\ Calls[c].key = k
  OBVIOUS
<1> HIDE DEF kept, old, call
<1>5. call[c].st = "leads" /\ call[c].key = k
  BY <1>1, <1>4
<1>6. kept' = IF err # "nil" \/ Capacity = 0 THEN kept
              ELSE IF Len(<<call[c].key>> \o kept) > Capacity
                   THEN Abstract!Front(<<call[c].key>> \o kept) ELSE <<call[c].key>> \o kept
  BY <1>1, <1>5, SameOperators
<1>7. old' = old \cap Abstract!ToSet(kept')
  BY <1>1, SameOperators
<1>8. call' = [d \in Callers |->
                 IF d = c THEN Abstract!Returned(call[c].key, err, FALSE)
                 ELSE IF call[d] = Abstract!Follows(call[c].key, "open")
                      THEN Abstract!Follows(call[c].key, IF err = "panic" THEN "ctx" ELSE err)
                      ELSE call[d]]
  BY <1>1, <1>3, <1>5
<1> QED
  BY <1>2, <1>5, <1>6, <1>7, <1>8

LEMMA CallSteps ==
  ASSUME NEW c \in Callers, KeptKeys' = KeptKeys, OldKeys' = OldKeys
  PROVE  /\ \A k, share :
              (/\ Calls[c] = [st |-> "follows", key |-> k, share |-> share]
               /\ share # "open"
               /\ Calls' = [Calls EXCEPT ![c] = [st |-> "returned", key |-> k, err |-> share, cached |-> TRUE]]
               /\ ended' = ended)
              => Abstract!Leave(c)
         /\ \A k, share :
              (/\ Calls[c] = [st |-> "follows", key |-> k, share |-> share]
               /\ c \in ended
               /\ Calls' = [Calls EXCEPT ![c] = [st |-> "returned", key |-> k, err |-> "ctx", cached |-> FALSE]]
               /\ ended' = ended)
              => Abstract!Leave(c)
         /\ (/\ Calls[c].st = "returned"
             /\ Calls' = [Calls EXCEPT ![c] = [st |-> "idle"]]
             /\ ended' = ended \ {c})
            => Abstract!Reset(c)
         /\ (c \notin ended /\ ended' = ended \cup {c} /\ Calls' = Calls) => Abstract!End(c)
<1> DEFINE kept == [i \in 1..Len(lru) |-> entry[lru[i]].key]
           old == {j \in Keys : items[j] # None /\ entry[items[j]].expired}
           call == [d \in Callers |-> AbsCall(d)]
<1>1. /\ kept = KeptKeys /\ old = OldKeys /\ call = Calls
      /\ kept' = KeptKeys' /\ old' = OldKeys' /\ call' = Calls'
  BY Zenon DEF KeptKeys, OldKeys, Calls
<1>2. Abstract!Leave(c) =
        (/\ call[c].st = "follows"
         /\ \/ /\ call[c].share # "open"
               /\ call' = [call EXCEPT ![c] = Abstract!Returned(call[c].key, call[c].share, TRUE)]
            \/ /\ c \in ended
               /\ call' = [call EXCEPT ![c] = Abstract!Returned(call[c].key, "ctx", FALSE)]
         /\ UNCHANGED <<kept, old, ended>>)
  BY Zenon DEF Abstract!Leave
<1>3. Abstract!Reset(c) =
        (/\ call[c].st = "returned"
         /\ call' = [call EXCEPT ![c] = Abstract!Idle]
         /\ ended' = ended \ {c}
         /\ UNCHANGED <<kept, old>>)
  BY Zenon DEF Abstract!Reset
<1>4. Abstract!End(c) = (c \notin ended /\ ended' = ended \cup {c} /\ UNCHANGED <<kept, old, call>>)
  BY Zenon DEF Abstract!End
<1>5. /\ \A k, e, b : Abstract!Returned(k, e, b) = [st |-> "returned", key |-> k, err |-> e, cached |-> b]
      /\ Abstract!Idle = [st |-> "idle"]
  BY Zenon DEF Abstract!Returned, Abstract!Idle
<1> HIDE DEF kept, old, call
<1>6. ASSUME NEW k, NEW share, Calls[c] = [st |-> "follows", key |-> k, share |-> share], ended' = ended,
             \/ share # "open"
                /\ Calls' = [Calls EXCEPT ![c] = [st |-> "returned", key |-> k, err |-> share, cached |-> TRUE]]
             \/ c \in ended
                /\ Calls' = [Calls EXCEPT ![c] = [st |-> "returned", key |-> k, err |-> "ctx", cached |-> FALSE]]
      PROVE  Abstract!Leave(c)
  <2>1. Calls[c].st = "follows" /\ Calls[c].key = k /\ Calls[c].share = share
    BY <1>6
  <2>2. call[c].st = "follows" /\ call[c].key = k /\ call[c].share = share
    BY <1>1, <2>1
  <2> QED
    BY <1>1, <1>2, <1>5, <1>6, <2>2
<1>7. (Calls[c].st = "returned" /\ Calls' = [Calls EXCEPT ![c] = [st |-> "idle"]] /\ ended' = ended \ {c})
      => Abstract!Reset(c)
  BY <1>1, <1>3, <1>5
<1>8. (c \notin ended /\ ended' = ended \cup {c} /\ Calls' = Calls) => Abstract!End(c)
  BY <1>1, <1>4
<1> QED
  BY <1>6, <1>7, <1>8, Zenon
-----------------------------------------------------------------------------
(* Every action of Memo is a step of the abstract store.                   *)

LEMMA HitRefines ==
  ASSUME IInv, NEW c \in Callers, NEW k \in Keys, Hit(c, k)
  PROVE  Abstract!Hit(c, k)
<1> USE DEF IInv
<1>1. /\ pc[c] = "idle" /\ items[k] # None /\ ~entry[items[k]].expired
      /\ lru' = MoveToFront(items[k]) /\ entry' = entry /\ items' = items
      /\ flight' = flight /\ held' = held /\ ended' = ended
      /\ pc' = [pc EXCEPT ![c] = "done"] /\ arg' = [arg EXCEPT ![c] = k]
  BY DEF Hit, Fresh
<1>2. pc'[c] = "done" /\ arg'[c] = k /\ ret'[c].err = "nil" /\ ret'[c].cached = TRUE
  BY DEF Hit, TypeOK
<1>3. Calls[c] = [st |-> "idle"]
      /\ Calls'[c] = [st |-> "returned", key |-> k, err |-> "nil", cached |-> TRUE]
  BY <1>1, <1>2, CallFacts DEF CallShape
<1>4. \A d \in Callers \ {c} : Calls'[d] = Calls[d]
  <2> TAKE d \in Callers \ {c}
  <2>1. pc'[d] = pc[d] /\ arg'[d] = arg[d] /\ ret'[d] = ret[d] /\ held'[d] = held[d]
        /\ flight'[held[d]] = flight[held[d]]
    BY DEF Hit, TypeOK
  <2> QED
    BY <2>1, OthersSame
<1>5. Calls' = [Calls EXCEPT ![c] = [st |-> "returned", key |-> k, err |-> "nil", cached |-> TRUE]]
  BY <1>3, <1>4, CallStep
<1>6. k \in ToSet(KeptKeys) \ OldKeys
  BY <1>1, KeptFacts DEF OldKeys
<1>7. KeptKeys' = <<k>> \o RemoveFirst(KeptKeys, k) /\ OldKeys' = OldKeys
  BY <1>1, HitShown
<1> QED
  BY <1>1, <1>3, <1>5, <1>6, <1>7, StoreSteps

\* The keys that are not fresh are those the abstract store misses.
LEMMA NotFresh ==
  ASSUME IInv, NEW k \in Keys, ~Fresh(k)
  PROVE  k \notin ToSet(KeptKeys) \ OldKeys
BY KeptFacts DEF IInv, Fresh, OldKeys

LEMMA JoinRefines ==
  ASSUME IInv, NEW c \in Callers, NEW k \in Keys, Join(c, k)
  PROVE  Abstract!Miss(c, k)
<1> USE DEF IInv
<1>1. /\ pc[c] = "idle" /\ ~Fresh(k) /\ running[k] # None /\ DropExpired(k)
      /\ flight' = flight /\ ended' = ended
  BY DEF Join
<1>2. pc'[c] = "waiting" /\ arg'[c] = k /\ held'[c] = running[k]
  BY DEF Join, TypeOK
<1>3. ~flight[running[k]].done
  BY <1>1 DEF RunningInv, LeaderInv
<1>4. Share(c)' = "open"
  BY <1>1, <1>2, <1>3 DEF Share
<1>5. Calls[c] = [st |-> "idle"] /\ Calls'[c] = [st |-> "follows", key |-> k, share |-> "open"]
  BY <1>1, <1>2, <1>4, CallFacts DEF CallShape
<1>6. \A d \in Callers \ {c} : Calls'[d] = Calls[d]
  <2> TAKE d \in Callers \ {c}
  <2>1. pc'[d] = pc[d] /\ arg'[d] = arg[d] /\ ret'[d] = ret[d] /\ held'[d] = held[d]
        /\ flight'[held[d]] = flight[held[d]]
    BY DEF Join, TypeOK
  <2> QED
    BY <2>1, OthersSame
<1>7. Calls' = [Calls EXCEPT ![c] = [st |-> "follows", key |-> k, share |-> "open"]]
  BY <1>5, <1>6, CallStep
<1>8. \E d \in Callers : Calls[d] = [st |-> "leads", key |-> k]
  BY <1>1, LedIsRunning
<1>9. KeptKeys' = RemoveFirst(KeptKeys, k) /\ OldKeys' = OldKeys \ {k}
  BY <1>1, DropShown
<1>10. k \notin ToSet(KeptKeys) \ OldKeys
  BY <1>1, NotFresh
<1> QED
  BY <1>1, <1>5, <1>7, <1>8, <1>9, <1>10, StoreSteps

LEMMA LeadRefines ==
  ASSUME IInv, NEW c \in Callers, NEW k \in Keys, NEW f \in Flights, Lead(c, k, f)
  PROVE  Abstract!Miss(c, k)
<1> USE DEF IInv
<1>1. /\ pc[c] = "idle" /\ ~Fresh(k) /\ running[k] = None /\ DropExpired(k)
      /\ flight[f] = None /\ ended' = ended
  BY DEF Lead
<1>2. pc'[c] = "computing" /\ arg'[c] = k
  BY DEF Lead, TypeOK
<1>3. Calls[c] = [st |-> "idle"] /\ Calls'[c] = [st |-> "leads", key |-> k]
  BY <1>1, <1>2, CallFacts DEF CallShape
<1>4. \A d \in Callers \ {c} : Calls'[d] = Calls[d]
  <2> TAKE d \in Callers \ {c}
  <2>1. pc'[d] = pc[d] /\ arg'[d] = arg[d] /\ ret'[d] = ret[d] /\ held'[d] = held[d]
    BY DEF Lead, TypeOK
  <2>2. pc[d] = "waiting" => held[d] \in Flights /\ held[d] # f
    BY <1>1, NoneIsNoElement DEF FollowerInv
  <2>3. pc[d] = "waiting" => flight'[held[d]] = flight[held[d]]
    BY <2>2 DEF Lead, TypeOK
  <2> QED
    BY <2>1, <2>3, OthersSame
<1>5. Calls' = [Calls EXCEPT ![c] = [st |-> "leads", key |-> k]]
  BY <1>3, <1>4, CallStep
<1>6. ~\E d \in Callers : Calls[d] = [st |-> "leads", key |-> k]
  BY <1>1, LedIsRunning
<1>7. KeptKeys' = RemoveFirst(KeptKeys, k) /\ OldKeys' = OldKeys \ {k}
  BY <1>1, DropShown
<1>8. k \notin ToSet(KeptKeys) \ OldKeys
  BY <1>1, NotFresh
<1> QED
  BY <1>1, <1>3, <1>5, <1>6, <1>7, <1>8, StoreSteps

\* When a flight lands its followers, and no other caller, see the outcome.
LEMMA LandShown ==
  ASSUME IInv, NEW c \in Callers, pc[c] = "computing",
         NEW data, NEW err \in Errs, NEW outcome, Land(c, data, err, outcome)
  PROVE  /\ Calls[c] = [st |-> "leads", key |-> arg[c]]
         /\ Calls' = [d \in Callers |->
              IF d = c THEN [st |-> "returned", key |-> arg[c], err |-> outcome, cached |-> FALSE]
              ELSE IF Calls[d] = [st |-> "follows", key |-> arg[c], share |-> "open"]
                   THEN [st |-> "follows", key |-> arg[c], share |-> err] ELSE Calls[d]]
         /\ ended' = ended
<1> USE DEF IInv
<1> DEFINE final == [done |-> TRUE, data |-> data, err |-> err]
<1>1. /\ pc' = [pc EXCEPT ![c] = "done"] /\ arg' = arg /\ ended' = ended
      /\ ret' = [ret EXCEPT ![c] = [data |-> data, cached |-> FALSE, err |-> outcome]]
      /\ held' = [held EXCEPT ![c] = None]
      /\ flight' = [flight EXCEPT ![held[c]] =
                      IF \E d \in Callers \ {c} : held[d] = held[c] THEN final ELSE None]
  BY DEF Land, Settle
<1>2. /\ arg[c] \in Keys /\ held[c] \in Flights /\ running[arg[c]] = held[c]
      /\ ~flight[held[c]].done
  BY DEF LeaderInv
<1>3. pc'[c] = "done" /\ arg'[c] = arg[c] /\ ret'[c].err = outcome /\ ret'[c].cached = FALSE
  BY <1>1 DEF TypeOK
<1>4. /\ Calls[c] = [st |-> "leads", key |-> arg[c]]
      /\ Calls'[c] = [st |-> "returned", key |-> arg[c], err |-> outcome, cached |-> FALSE]
  BY <1>3, CallFacts DEF CallShape
<1>5. ASSUME NEW d \in Callers, d # c
      PROVE  Calls'[d] = IF Calls[d] = [st |-> "follows", key |-> arg[c], share |-> "open"]
                         THEN [st |-> "follows", key |-> arg[c], share |-> err] ELSE Calls[d]
  <2>1. pc'[d] = pc[d] /\ arg'[d] = arg[d] /\ ret'[d] = ret[d] /\ held'[d] = held[d]
    BY <1>1, <1>5 DEF TypeOK
  <2>2. CASE pc[d] # "waiting"
    <3>1. Calls'[d] = Calls[d]
      BY <2>1, <2>2, OthersSame
    <3>2. Calls[d] # [st |-> "follows", key |-> arg[c], share |-> "open"]
      <4>1. pc[d] \in {"idle", "computing", "done"}
        BY <2>2 DEF TypeOK
      <4>2. /\ [st |-> "idle"].st = "idle" /\ [st |-> "leads", key |-> arg[d]].st = "leads"
            /\ [st |-> "returned", key |-> arg[d], err |-> ret[d].err, cached |-> ret[d].cached].st = "returned"
            /\ [st |-> "follows", key |-> arg[c], share |-> "open"].st = "follows"
        OBVIOUS
      <4>3. Calls[d].st \in {"idle", "leads", "returned"}
        BY <4>1, <4>2, CallFacts DEF CallShape
      <4> QED
        BY <4>2, <4>3
    <3> QED
      BY <3>1, <3>2
  <2>3. CASE pc[d] = "waiting"
    <3>1. /\ arg[d] \in Keys /\ held[d] \in Flights /\ flight[held[d]] \in Flight
          /\ Calls[d] = [st |-> "follows", key |-> arg[d], share |-> Share(d)]
      BY <2>3, CallFacts DEF FollowerInv, CallShape
    <3>2. CASE held[d] = held[c]
      <4>1. running[arg[d]] = held[d]
        BY <1>2, <2>3, <3>2 DEF FollowerInv
      <4>2. PICK b \in Callers : pc[b] = "computing" /\ arg[b] = arg[d] /\ held[b] = held[d]
        BY <3>1, <4>1, NoneIsNoElement DEF RunningInv
      <4>3. b = c
        BY <3>2, <4>2 DEF RunningInv
      <4>4. arg[d] = arg[c]
        BY <4>2, <4>3
      <4>5. Share(d) = "open"
        BY <1>2, <3>2 DEF Share
      <4>6. flight'[held[c]] = final
        BY <1>1, <1>2, <1>5, <3>2 DEF TypeOK
      <4>7. Share(d)' = err
        BY <2>1, <3>2, <4>6 DEF Share
      <4>8. Calls'[d] = [st |-> "follows", key |-> arg'[d], share |-> Share(d)']
        BY <2>1, <2>3, CallFacts DEF CallShape
      <4> QED
        BY <2>1, <3>1, <4>4, <4>5, <4>7, <4>8
    <3>3. CASE held[d] # held[c]
      <4>1. flight'[held[d]] = flight[held[d]]
        BY <1>1, <3>1, <3>3 DEF TypeOK
      <4>2. Calls'[d] = Calls[d]
        BY <2>1, <4>1, OthersSame
      <4>3. ASSUME Calls[d] = [st |-> "follows", key |-> arg[c], share |-> "open"] PROVE FALSE
        <5>1. arg[d] = arg[c] /\ Share(d) = "open"
          <6>1. Calls[d].key = arg[d] /\ Calls[d].share = Share(d)
            BY <3>1
          <6>2. Calls[d].key = arg[c] /\ Calls[d].share = "open"
            BY <4>3
          <6> QED
            BY <6>1, <6>2
        <5>2. "open" \notin Errs /\ flight[held[d]].err \in Errs
          BY <3>1 DEF Errs, Flight
        <5>3. ~flight[held[d]].done
          BY <5>1, <5>2 DEF Share
        <5>4. running[arg[d]] = held[d]
          BY <2>3, <5>3 DEF FollowerInv
        <5> QED
          BY <1>2, <3>3, <5>1, <5>4
      <4> QED
        BY <4>2, <4>3
    <3> QED
      BY <3>2, <3>3
  <2> QED
    BY <2>2, <2>3
<1>6. Calls' = [d \in Callers |-> Calls'[d]]
  BY DEF Calls
<1> QED
  BY <1>1, <1>4, <1>5, <1>6

LEMMA StoreSame ==
  ASSUME UNCHANGED store
  PROVE  KeptKeys' = KeptKeys /\ OldKeys' = OldKeys
BY DEF store, KeptKeys, OldKeys

\* Old keys are kept keys.
LEMMA OldIsKept == StoreInv => OldKeys = OldKeys \cap ToSet(KeptKeys)
BY KeptFacts DEF OldKeys

LEMMA FinishRefines ==
  ASSUME IInv, NEW c \in Callers, NEW err \in Errs, Finish(c, err)
  PROVE  Abstract!Compute(c, err)
<1> USE DEF IInv
<1> DEFINE data == IF err = "nil" THEN arg[c] ELSE None
<1>1. pc[c] = "computing" /\ (err = "ctx" => c \in ended) /\ Land(c, data, err, err)
  BY DEF Finish
<1> HIDE DEF data
<1>2. arg[c] \in Keys /\ items[arg[c]] = None
  BY <1>1, NoneIsNoElement DEF LeaderInv, StoredNotRunning
<1>3. /\ KeptKeys' = IF err # "nil" \/ Capacity = 0 THEN KeptKeys
                     ELSE IF Len(<<arg[c]>> \o KeptKeys) > Capacity
                          THEN Front(<<arg[c]>> \o KeptKeys) ELSE <<arg[c]>> \o KeptKeys
      /\ OldKeys' = OldKeys \cap ToSet(KeptKeys')
  <2>1. CASE err = "nil" /\ Capacity > 0
    <3>1. PICK e \in Elements : entry[e] = None /\ PushAndEvict(e, arg[c], arg[c])
      BY <2>1 DEF Finish
    <3>2. ~(err # "nil" \/ Capacity = 0)
      BY <2>1
    <3> QED
      BY <1>2, <2>1, <3>1, <3>2, PushShown
  <2>2. CASE ~(err = "nil" /\ Capacity > 0)
    <3>1. UNCHANGED store
      BY <2>2 DEF Finish
    <3>2. err # "nil" \/ Capacity = 0
      BY <2>2, CapacityAssumption
    <3> QED
      BY <3>1, <3>2, StoreSame, OldIsKept
  <2> QED
    BY <2>1, <2>2
<1>4. err = IF err = "panic" THEN "ctx" ELSE err
  BY DEF Errs
<1>5. /\ Calls[c] = [st |-> "leads", key |-> arg[c]] /\ ended' = ended
      /\ Calls' = [d \in Callers |->
           IF d = c THEN [st |-> "returned", key |-> arg[c], err |-> err, cached |-> FALSE]
           ELSE IF Calls[d] = [st |-> "follows", key |-> arg[c], share |-> "open"]
                THEN [st |-> "follows", key |-> arg[c], share |-> err] ELSE Calls[d]]
  BY <1>1, LandShown
<1>6. PICK k \in Keys : k = arg[c]
  BY <1>2
<1> QED
  BY <1>1, <1>3, <1>4, <1>5, <1>6, ComputeStep

LEMMA PanicRefines ==
  ASSUME IInv, NEW c \in Callers, Panic(c)
  PROVE  Abstract!Compute(c, "panic")
<1> USE DEF IInv
<1>1. pc[c] = "computing" /\ Land(c, None, "ctx", "panic") /\ UNCHANGED store
  BY DEF Panic
<1>2. arg[c] \in Keys /\ "ctx" \in Errs
  BY <1>1 DEF LeaderInv, Errs
<1>3. PICK k \in Keys : k = arg[c]
  BY <1>2
<1>4. PICK share \in Errs : share = "ctx"
  BY <1>2
<1>5. PICK err : err = "panic"
  OBVIOUS
<1>6. Land(c, None, share, err)
  BY <1>1, <1>4, <1>5 DEF Land, Settle
<1>7. /\ Calls[c] = [st |-> "leads", key |-> k] /\ ended' = ended
      /\ Calls' = [d \in Callers |->
           IF d = c THEN [st |-> "returned", key |-> k, err |-> err, cached |-> FALSE]
           ELSE IF Calls[d] = [st |-> "follows", key |-> k, share |-> "open"]
                THEN [st |-> "follows", key |-> k, share |-> share] ELSE Calls[d]]
  BY <1>1, <1>3, <1>6, LandShown
<1>8. /\ (err = "ctx" => c \in ended) /\ share = (IF err = "panic" THEN "ctx" ELSE err)
      /\ KeptKeys' = IF err # "nil" \/ Capacity = 0 THEN KeptKeys
                     ELSE IF Len(<<k>> \o KeptKeys) > Capacity
                          THEN Front(<<k>> \o KeptKeys) ELSE <<k>> \o KeptKeys
      /\ OldKeys' = OldKeys \cap ToSet(KeptKeys')
  BY <1>1, <1>4, <1>5, StoreSame, OldIsKept
<1>9. Abstract!Compute(c, err)
  BY <1>7, <1>8, ComputeStep
<1> QED
  BY <1>5, <1>9

\* A follower that leaves changes nothing for the others.
LEMMA SettleShown ==
  ASSUME IInv, NEW c \in Callers, pc[c] = "waiting", NEW r, Settle(c, r, flight[held[c]])
  PROVE  /\ Calls' = [Calls EXCEPT ![c] =
                        [st |-> "returned", key |-> arg[c], err |-> r.err, cached |-> r.cached]]
         /\ ended' = ended
<1> USE DEF IInv
<1>1. pc'[c] = "done" /\ arg'[c] = arg[c] /\ ret'[c] = r /\ ended' = ended
  BY DEF Settle, TypeOK
<1>2. Calls'[c] = [st |-> "returned", key |-> arg[c], err |-> r.err, cached |-> r.cached]
  BY <1>1, CallFacts DEF CallShape
<1>3. \A d \in Callers \ {c} : Calls'[d] = Calls[d]
  <2> TAKE d \in Callers \ {c}
  <2>1. pc'[d] = pc[d] /\ arg'[d] = arg[d] /\ ret'[d] = ret[d] /\ held'[d] = held[d]
    BY DEF Settle, TypeOK
  <2>2. pc[d] = "waiting" => flight'[held[d]] = flight[held[d]]
    <3> SUFFICES ASSUME pc[d] = "waiting" PROVE flight'[held[d]] = flight[held[d]]
      OBVIOUS
    <3>1. held[d] \in Flights
      BY DEF FollowerInv
    <3>2. flight' = [flight EXCEPT ![held[c]] =
                       IF \E b \in Callers \ {c} : held[b] = held[c] THEN flight[held[c]] ELSE None]
      BY DEF Settle
    <3> QED
      BY <3>1, <3>2 DEF TypeOK
  <2> QED
    BY <2>1, <2>2, OthersSame
<1> QED
  BY <1>1, <1>2, <1>3, CallStep

LEMMA WakeRefines ==
  ASSUME IInv, NEW c \in Callers, Wake(c)
  PROVE  Abstract!Leave(c)
<1> USE DEF IInv
<1>1. pc[c] = "waiting" /\ UNCHANGED <<lru, entry, items>>
  BY DEF Wake, FollowerDone, FollowerEnded
<1>2. KeptKeys' = KeptKeys /\ OldKeys' = OldKeys
  BY <1>1, StoreSame DEF store
<1>3. Calls[c] = [st |-> "follows", key |-> arg[c], share |-> Share(c)]
  BY <1>1, CallFacts DEF CallShape
<1>4. CASE FollowerDone(c)
  <2> DEFINE r == [data |-> flight[held[c]].data, cached |-> TRUE, err |-> flight[held[c]].err]
  <2>1. flight[held[c]].done /\ Settle(c, r, flight[held[c]])
    BY <1>4 DEF FollowerDone
  <2>2. r.err = flight[held[c]].err /\ r.cached = TRUE
    OBVIOUS
  <2> HIDE DEF r
  <2>3. Share(c) = flight[held[c]].err /\ Share(c) # "open"
    BY <1>1, <2>1 DEF Share, FollowerInv, Flight, Errs
  <2>4. /\ Calls' = [Calls EXCEPT ![c] =
                       [st |-> "returned", key |-> arg[c], err |-> Share(c), cached |-> TRUE]]
        /\ ended' = ended
    BY <1>1, <2>1, <2>2, <2>3, SettleShown
  <2> QED
    BY <1>2, <1>3, <2>3, <2>4, CallSteps
<1>5. CASE FollowerEnded(c)
  <2> DEFINE r == [data |-> None, cached |-> FALSE, err |-> "ctx"]
  <2>1. c \in ended /\ Settle(c, r, flight[held[c]])
    BY <1>5 DEF FollowerEnded
  <2>2. r.err = "ctx" /\ r.cached = FALSE
    OBVIOUS
  <2> HIDE DEF r
  <2>3. /\ Calls' = [Calls EXCEPT ![c] =
                       [st |-> "returned", key |-> arg[c], err |-> "ctx", cached |-> FALSE]]
        /\ ended' = ended
    BY <1>1, <2>1, <2>2, SettleShown
  <2> QED
    BY <1>2, <1>3, <2>1, <2>3, CallSteps
<1> QED
  BY <1>4, <1>5 DEF Wake

LEMMA ReturnRefines ==
  ASSUME IInv, NEW c \in Callers, Return(c)
  PROVE  Abstract!Reset(c)
<1> USE DEF IInv
<1>1. /\ pc[c] = "done" /\ ended' = ended \ {c} /\ pc'[c] = "idle" /\ UNCHANGED <<lru, entry, items, flight>>
  BY DEF Return, TypeOK
<1>2. Calls[c] = [st |-> "returned", key |-> arg[c], err |-> ret[c].err, cached |-> ret[c].cached]
      /\ Calls'[c] = [st |-> "idle"]
  BY <1>1, CallFacts DEF CallShape
<1>3. Calls[c].st = "returned"
  BY <1>2
<1>4. \A d \in Callers \ {c} : Calls'[d] = Calls[d]
  <2> TAKE d \in Callers \ {c}
  <2>1. pc'[d] = pc[d] /\ arg'[d] = arg[d] /\ ret'[d] = ret[d] /\ held'[d] = held[d]
        /\ flight'[held[d]] = flight[held[d]]
    BY DEF Return, TypeOK
  <2> QED
    BY <2>1, OthersSame
<1>5. Calls' = [Calls EXCEPT ![c] = [st |-> "idle"]]
  BY <1>2, <1>4, CallStep
<1>6. KeptKeys' = KeptKeys /\ OldKeys' = OldKeys
  BY <1>1, StoreSame DEF store
<1> QED
  BY <1>1, <1>3, <1>5, <1>6, CallSteps

\* Nothing the mapping shows of the calls depends on the store or on ended.
LEMMA CallsSame ==
  ASSUME UNCHANGED <<flight, pc, arg, held, ret>>
  PROVE  Calls' = Calls
BY DEF Calls, AbsCall

LEMMA EndRefines ==
  ASSUME NEW c \in Callers, End(c)
  PROVE  Abstract!End(c)
<1>1. /\ c \notin ended /\ ended' = ended \cup {c}
      /\ UNCHANGED store /\ UNCHANGED <<flight, pc, arg, held, ret>>
  BY DEF End, store
<1> QED
  BY <1>1, StoreSame, CallsSame, CallSteps

LEMMA ExpireRefines ==
  ASSUME IInv, NEW e \in Elements, Expire(e)
  PROVE  \E k \in Keys : Abstract!Expire(k)
<1>1. PICK k \in Keys : /\ k \in ToSet(KeptKeys) \ OldKeys
                        /\ KeptKeys' = KeptKeys /\ OldKeys' = OldKeys \cup {k}
  BY ExpireShown DEF IInv
<1>2. Calls' = Calls /\ ended' = ended
  BY CallsSame DEF Expire
<1>3. Abstract!Expire(k)
  BY <1>1, <1>2, StoreSteps
<1> QED
  BY <1>3, Zenon

LEMMA UnchangedRefines ==
  ASSUME UNCHANGED vars
  PROVE  UNCHANGED Abstract!vars
<1>1. KeptKeys' = KeptKeys /\ OldKeys' = OldKeys /\ Calls' = Calls /\ ended' = ended
  BY StoreSame, CallsSame DEF vars, store
<1> QED
  BY <1>1, Zenon DEF Abstract!vars, KeptKeys, OldKeys, Calls

LEMMA InitRefines ==
  ASSUME Init
  PROVE  Abstract!Init
<1>1. KeptKeys = <<>>
  BY DEF Init, KeptKeys
<1>2. OldKeys = {}
  BY DEF Init, OldKeys
<1>3. Calls = [c \in Callers |-> [st |-> "idle"]]
  <2>1. \A c \in Callers : Calls[c] = [st |-> "idle"]
    BY CallFacts DEF Init, CallShape
  <2>2. Calls = [c \in Callers |-> Calls[c]]
    BY DEF Calls
  <2> QED
    BY <2>1, <2>2
<1>4. ended = {}
  BY DEF Init
<1> QED
  BY <1>1, <1>2, <1>3, <1>4, Zenon DEF Abstract!Init, Abstract!Idle, KeptKeys, OldKeys, Calls

LEMMA NextRefines == IInv /\ [Next]_vars => [Abstract!Next]_(Abstract!vars)
<1> SUFFICES ASSUME IInv, [Next]_vars PROVE [Abstract!Next]_(Abstract!vars)
  OBVIOUS
<1>1. ASSUME NEW c \in Callers, Lookup(c) PROVE Abstract!Next
  <2>1. PICK k \in Keys : Hit(c, k) \/ Join(c, k) \/ \E f \in Flights : Lead(c, k, f)
    BY <1>1 DEF Lookup
  <2>2. Abstract!Hit(c, k) \/ Abstract!Miss(c, k)
    BY <2>1, HitRefines, JoinRefines, LeadRefines
  <2> QED
    BY <2>2, Zenon DEF Abstract!Next
<1>2. ASSUME NEW c \in Callers, Compute(c) PROVE Abstract!Next
  <2>1. CASE Panic(c)
    BY <2>1, PanicRefines, Zenon DEF Abstract!Next, Abstract!ComputeAny
  <2>2. CASE \E err \in Errs : Finish(c, err)
    <3>1. PICK err \in Errs : Finish(c, err)
      BY <2>2
    <3>2. Abstract!Compute(c, err) /\ err \in {"nil", "ctx", "noevent", "fail", "panic"}
      BY <3>1, FinishRefines DEF Errs
    <3> QED
      BY <3>2, Zenon DEF Abstract!Next, Abstract!ComputeAny
  <2> QED
    BY <1>2, <2>1, <2>2 DEF Compute
<1>3. ASSUME NEW c \in Callers, Wake(c) \/ Return(c) \/ End(c) PROVE Abstract!Next
  <2>1. Abstract!Leave(c) \/ Abstract!Reset(c) \/ Abstract!End(c)
    BY <1>3, WakeRefines, ReturnRefines, EndRefines
  <2> QED
    BY <2>1, Zenon DEF Abstract!Next
<1>4. ASSUME NEW e \in Elements, Expire(e) PROVE Abstract!Next
  BY <1>4, ExpireRefines, Zenon DEF Abstract!Next
<1>5. CASE UNCHANGED vars
  BY <1>5, UnchangedRefines
<1> QED
  BY <1>1, <1>2, <1>3, <1>4, <1>5 DEF Next

\* For every capacity and any number of callers, keys and entries, Do is a
\* bounded LRU store with one shared computation per key (cache.go:37-88).
THEOREM MemoImplementsLRU == Spec => ImplementsLRU
BY InitRefines, NextRefines, SpecIInv, PTL DEF Spec, ImplementsLRU, Abstract!Spec
=============================================================================
