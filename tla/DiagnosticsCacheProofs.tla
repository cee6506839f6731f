----------------------- MODULE DiagnosticsCacheProofs -----------------------
(***************************************************************************)
(* What the operations of the diagnostics cache keep, drop and bound, for  *)
(* any entries and any bound.                                              *)
(***************************************************************************)
EXTENDS DiagnosticsCache, SequenceTheorems, TLAPS

\* What the cache holds of a file is one of its entries, and the only one.
LEMMA HeldEntry ==
  ASSUME NEW E, NEW s, IsCache(s, E), NEW f
  PROVE  /\ Holds(s, f) <=> \E e \in ToSet(s) : e.file = f
         /\ Holds(s, f) => /\ at(s, f) \in 1..Len(s)
                           /\ Snapshot(s, f) \in ToSet(s) /\ Snapshot(s, f) \in E
                           /\ Snapshot(s, f).file = f
         /\ ToSet(s) \subseteq E
         /\ \A e, x \in ToSet(s) : e.file = x.file => e = x
<1>1. DOMAIN s = 1..Len(s) /\ \A i \in DOMAIN s : s[i] \in E
  BY LenProperties, ElementOfSeq DEF IsCache
<1>2. ASSUME Holds(s, f) PROVE at(s, f) \in DOMAIN s /\ s[at(s, f)].file = f
  BY <1>2 DEF Holds, at
<1> QED
  BY <1>1, <1>2 DEF Holds, ToSet, IsCache, Snapshot

\* A sequence with one entry taken out, and what is left of its order.
LEMMA Removed ==
  ASSUME NEW E, NEW s \in Seq(E), NEW n \in 1..Len(s)
  PROVE  /\ RemoveAt(s, n) \in Seq(E)
         /\ Len(RemoveAt(s, n)) = Len(s) - 1
         /\ \A i \in 1..(Len(s) - 1) : RemoveAt(s, n)[i] = s[IF i < n THEN i ELSE i + 1]
<1> DEFINE l == SubSeq(s, 1, n - 1)
           r == SubSeq(s, n + 1, Len(s))
<1>1. Len(s) \in Nat /\ n \in Nat /\ \A i \in 1..Len(s) : s[i] \in E
  BY LenProperties, ElementOfSeq
<1>2. /\ l \in Seq(E) /\ Len(l) = n - 1
      /\ \A i \in 1..(n - 1) : l[i] = s[i]
  <2>1. \A i \in 1..(n - 1) : s[i] \in E
    BY <1>1
  <2>2. /\ l \in Seq(E) /\ Len(l) = IF 1 <= n - 1 THEN (n - 1) - 1 + 1 ELSE 0
        /\ \A i \in 1..((n - 1) - 1 + 1) : l[i] = s[1 + i - 1]
    BY <1>1, <2>1, SubSeqProperties
  <2> QED
    BY <1>1, <2>2
<1>3. /\ r \in Seq(E) /\ Len(r) = Len(s) - n
      /\ \A i \in 1..(Len(s) - n) : r[i] = s[n + i]
  <2>1. \A i \in (n + 1)..Len(s) : s[i] \in E
    BY <1>1
  <2>2. /\ r \in Seq(E) /\ Len(r) = IF n + 1 <= Len(s) THEN Len(s) - (n + 1) + 1 ELSE 0
        /\ \A i \in 1..(Len(s) - (n + 1) + 1) : r[i] = s[(n + 1) + i - 1]
    BY <1>1, <2>1, SubSeqProperties
  <2> QED
    BY <1>1, <2>2
<1>4. /\ l \o r \in Seq(E) /\ Len(l \o r) = Len(l) + Len(r)
      /\ \A i \in 1..(Len(l) + Len(r)) : (l \o r)[i] = IF i <= Len(l) THEN l[i] ELSE r[i - Len(l)]
  BY <1>2, <1>3, ConcatProperties
<1> HIDE DEF l, r
<1>5. ASSUME NEW i \in 1..(Len(s) - 1)
      PROVE  (l \o r)[i] = s[IF i < n THEN i ELSE i + 1]
  BY <1>1, <1>2, <1>3, <1>4
<1>6. RemoveAt(s, n) = l \o r
  BY DEF RemoveAt, l, r
<1>7. Len(l \o r) = Len(s) - 1
  BY <1>1, <1>2, <1>3, <1>4
<1> QED
  BY <1>4, <1>5, <1>6, <1>7

\* Map.delete: one file's entry goes, and every other stays.
LEMMA Deleted ==
  ASSUME NEW E, NEW s, IsCache(s, E), NEW f
  PROVE  /\ IsCache(delete(s, f), E)
         /\ ~Holds(delete(s, f), f)
         /\ ToSet(delete(s, f)) = {e \in ToSet(s) : e.file # f}
         /\ Holds(s, f) => Len(delete(s, f)) = Len(s) - 1
<1>1. CASE ~Holds(s, f)
  BY <1>1, HeldEntry DEF delete, Holds, ToSet
<1>2. CASE Holds(s, f)
  <2> DEFINE n == at(s, f)
             d == delete(s, f)
  <2>1. /\ s \in Seq(E) /\ Len(s) \in Nat /\ Len(s) <= CacheMaxFiles /\ DOMAIN s = 1..Len(s)
        /\ n \in 1..Len(s) /\ s[n].file = f
    BY <1>2, HeldEntry, LenProperties DEF IsCache, Snapshot
  <2>2. \A i \in 1..Len(s) : s[i].file = f => i = n
    BY <2>1 DEF IsCache
  <2>3. /\ d \in Seq(E) /\ Len(d) = Len(s) - 1
        /\ \A i \in 1..(Len(s) - 1) : d[i] = s[IF i < n THEN i ELSE i + 1]
    BY <1>2, <2>1, Removed DEF delete
  <2>4. DOMAIN d = 1..(Len(s) - 1)
    BY <2>3, LenProperties
  <2> HIDE DEF n, d
  <2>5. ASSUME NEW i \in DOMAIN d, NEW j \in DOMAIN d, d[i].file = d[j].file PROVE i = j
    <3>1. /\ (IF i < n THEN i ELSE i + 1) \in 1..Len(s)
          /\ (IF j < n THEN j ELSE j + 1) \in 1..Len(s)
      BY <2>1, <2>4
    <3>2. (IF i < n THEN i ELSE i + 1) = (IF j < n THEN j ELSE j + 1)
      BY <2>1, <2>3, <2>4, <2>5, <3>1 DEF IsCache
    <3> QED
      BY <2>1, <2>4, <3>2
  <2>6. ASSUME NEW i \in DOMAIN d
        PROVE  /\ d[i] \in ToSet(s) /\ d[i].file # f
    <3>1. (IF i < n THEN i ELSE i + 1) \in 1..Len(s) /\ (IF i < n THEN i ELSE i + 1) # n
      BY <2>1, <2>4
    <3> QED
      BY <2>1, <2>2, <2>3, <2>4, <3>1 DEF ToSet
  <2>7. ASSUME NEW i \in 1..Len(s), s[i].file # f PROVE s[i] \in ToSet(d)
    <3>1. i # n
      BY <2>1, <2>7
    <3>2. CASE i < n
      <4>1. i \in DOMAIN d /\ d[i] = s[i]
        BY <2>1, <2>3, <2>4, <3>2
      <4> QED
        BY <4>1 DEF ToSet
    <3>3. CASE i > n
      <4>1. i - 1 \in DOMAIN d /\ d[i - 1] = s[i]
        BY <2>1, <2>3, <2>4, <3>3
      <4> QED
        BY <4>1 DEF ToSet
    <3> QED
      BY <2>1, <3>1, <3>2, <3>3
  <2>8. IsCache(d, E)
    BY <2>1, <2>3, <2>5, CapacityAssumption DEF IsCache
  <2>9. ~Holds(d, f)
    BY <2>6 DEF Holds
  <2>10. ToSet(d) = {e \in ToSet(s) : e.file # f}
    BY <2>1, <2>6, <2>7 DEF ToSet
  <2> QED
    BY <2>3, <2>8, <2>9, <2>10 DEF d
<1> QED
  BY <1>1, <1>2

\* Map.set of a fresh key: the entry comes after all there are.
LEMMA Appended ==
  ASSUME NEW E, NEW s \in Seq(E), NEW e \in E
  PROVE  /\ Append(s, e) \in Seq(E) /\ Len(Append(s, e)) = Len(s) + 1
         /\ \A i \in 1..Len(s) : Append(s, e)[i] = s[i]
         /\ Append(s, e)[Len(s) + 1] = e
         /\ ToSet(Append(s, e)) = ToSet(s) \cup {e}
<1> DEFINE a == Append(s, e)
<1>1. /\ a \in Seq(E) /\ Len(s) \in Nat /\ Len(a) = Len(s) + 1
      /\ \A i \in 1..Len(s) : a[i] = s[i]
      /\ a[Len(s) + 1] = e
      /\ DOMAIN s = 1..Len(s) /\ DOMAIN a = 1..(Len(s) + 1)
  BY AppendProperties, LenProperties
<1> HIDE DEF a
<1>2. 1..(Len(s) + 1) = 1..Len(s) \cup {Len(s) + 1}
  BY <1>1
<1>3. ToSet(a) = ToSet(s) \cup {e}
  BY <1>1, <1>2 DEF ToSet
<1> QED
  BY <1>1, <1>3 DEF a

\* An entry of a file that the cache does not hold.
LEMMA Inserted ==
  ASSUME NEW E, NEW s \in Seq(E), NEW e \in E, ~Holds(s, e.file),
         \A i, j \in DOMAIN s : s[i].file = s[j].file => i = j
  PROVE  \A i, j \in DOMAIN Append(s, e) :
           Append(s, e)[i].file = Append(s, e)[j].file => i = j
<1> DEFINE a == Append(s, e)
<1>1. /\ DOMAIN s = 1..Len(s) /\ Len(s) \in Nat
      /\ DOMAIN a = 1..(Len(s) + 1)
      /\ \A i \in 1..Len(s) : a[i] = s[i]
      /\ a[Len(s) + 1] = e
  BY Appended, LenProperties
<1> HIDE DEF a
<1>2. \A i \in 1..Len(s) : s[i].file # e.file
  BY <1>1 DEF Holds
<1> SUFFICES ASSUME NEW i \in DOMAIN a, NEW j \in DOMAIN a, a[i].file = a[j].file
             PROVE  i = j
  BY DEF a
<1>3. CASE i \in 1..Len(s) /\ j \in 1..Len(s)
  BY <1>1, <1>3
<1>4. CASE i = Len(s) + 1 /\ j \in 1..Len(s)
  BY <1>1, <1>2, <1>4
<1>5. CASE i \in 1..Len(s) /\ j = Len(s) + 1
  BY <1>1, <1>2, <1>5
<1> QED
  BY <1>1, <1>3, <1>4, <1>5

\* LruDiagnosticsCache.set: the new snapshot is held, and the others are of other
\* files, all from before; one is lost only when the bound would be exceeded.
LEMMA WasSet ==
  ASSUME NEW E, NEW s, IsCache(s, E), NEW e \in E
  PROVE  /\ IsCache(set(s, e), E)
         /\ e \in ToSet(set(s, e))
         /\ \A x \in ToSet(set(s, e)) : x = e \/ (x \in ToSet(s) /\ x.file # e.file)
<1> DEFINE d == delete(s, e.file)
           a == Append(d, e)
<1>1. /\ IsCache(d, E) /\ ~Holds(d, e.file)
      /\ ToSet(d) = {x \in ToSet(s) : x.file # e.file}
  BY Deleted
<1>2. d \in Seq(E) /\ Len(d) \in Nat /\ Len(d) <= CacheMaxFiles /\ CacheMaxFiles \in Nat \ {0}
  BY <1>1, LenProperties, CapacityAssumption DEF IsCache
<1>3. /\ a \in Seq(E) /\ Len(a) = Len(d) + 1
      /\ a[Len(a)] = e
      /\ ToSet(a) = ToSet(d) \cup {e}
      /\ DOMAIN a = 1..Len(a)
  BY <1>2, Appended, LenProperties
<1>4. \A i, j \in DOMAIN a : a[i].file = a[j].file => i = j
  BY <1>1, <1>2, Inserted DEF IsCache
<1> HIDE DEF d, a
<1>5. CASE Len(a) <= CacheMaxFiles
  <2>1. set(s, e) = a
    BY <1>2, <1>3, <1>5 DEF set, a, d
  <2>2. IsCache(a, E)
    BY <1>3, <1>4, <1>5 DEF IsCache
  <2> QED
    BY <1>1, <1>3, <2>1, <2>2
<1>6. CASE Len(a) > CacheMaxFiles
  <2>1. set(s, e) = Tail(a)
    BY <1>6 DEF set, a, d
  <2> DEFINE t == Tail(a)
  <2>2. a # <<>>
    BY <1>2, <1>6, <1>3, EmptySeq
  <2>3. /\ t \in Seq(E) /\ Len(t) = Len(a) - 1
        /\ \A i \in 1..Len(t) : t[i] = a[i + 1]
        /\ DOMAIN t = 1..Len(t)
    BY <1>3, <2>2, HeadTailProperties, LenProperties
  <2> HIDE DEF t
  <2>4. Len(t) = Len(d) /\ \A i \in DOMAIN t : i + 1 \in DOMAIN a /\ t[i] = a[i + 1]
    BY <1>2, <1>3, <2>3
  <2>5. IsCache(t, E)
    <3>1. \A i, j \in DOMAIN t : t[i].file = t[j].file => i = j
      <4> SUFFICES ASSUME NEW i \in DOMAIN t, NEW j \in DOMAIN t, t[i].file = t[j].file
                   PROVE  i = j
        OBVIOUS
      <4>1. i + 1 = j + 1
        BY <1>4, <2>4
      <4> QED
        BY <2>3, <4>1
    <3> QED
      BY <1>2, <2>3, <2>4, <3>1 DEF IsCache
  <2>6. e \in ToSet(t)
    <3>1. Len(t) \in DOMAIN t /\ t[Len(t)] = a[Len(a)]
      BY <1>2, <1>3, <1>6, <2>3, <2>4
    <3> QED
      BY <1>3, <3>1 DEF ToSet
  <2>7. ToSet(t) \subseteq ToSet(a)
    BY <2>4 DEF ToSet
  <2> QED
    BY <1>1, <1>3, <2>1, <2>5, <2>6, <2>7 DEF t
<1> QED
  BY <1>2, <1>3, <1>5, <1>6

\* LruDiagnosticsCache.get: a look-up changes the order and nothing else.
LEMMA WasGot ==
  ASSUME NEW E, NEW s, IsCache(s, E), NEW f
  PROVE  IsCache(get(s, f), E) /\ ToSet(get(s, f)) = ToSet(s)
<1>1. CASE ~Holds(s, f)
  BY <1>1 DEF get
<1>2. CASE Holds(s, f)
  <2> DEFINE e == Snapshot(s, f)
             d == delete(s, f)
             a == Append(d, e)
  <2>1. e \in ToSet(s) /\ e \in E /\ e.file = f
    BY <1>2, HeldEntry
  <2>2. \A x \in ToSet(s) : x.file = f => x = e
    BY <2>1, HeldEntry
  <2>3. /\ IsCache(d, E) /\ ~Holds(d, f) /\ Len(d) = Len(s) - 1
        /\ ToSet(d) = {x \in ToSet(s) : x.file # f}
    BY <1>2, Deleted
  <2>4. s \in Seq(E) /\ Len(s) \in Nat /\ Len(s) <= CacheMaxFiles /\ d \in Seq(E)
    BY <2>3, LenProperties DEF IsCache
  <2> HIDE DEF e, d
  <2>5. /\ a \in Seq(E) /\ Len(a) = Len(s) /\ ToSet(a) = ToSet(d) \cup {e}
    BY <2>1, <2>3, <2>4, Appended
  <2>6. \A i, j \in DOMAIN a : a[i].file = a[j].file => i = j
    BY <2>1, <2>3, <2>4, Inserted DEF IsCache
  <2>7. get(s, f) = a
    BY <1>2 DEF get, e, d
  <2> HIDE DEF a
  <2>8. ToSet(a) = ToSet(s)
    BY <2>1, <2>2, <2>3, <2>5
  <2> QED
    BY <2>4, <2>5, <2>6, <2>7, <2>8 DEF IsCache
<1> QED
  BY <1>1, <1>2

LEMMA EmptyCache == \A E : IsCache(<<>>, E)
  BY EmptySeq, CapacityAssumption DEF IsCache
=============================================================================
