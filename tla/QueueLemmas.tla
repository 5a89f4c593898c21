----------------------------- MODULE QueueLemmas -----------------------------
(***************************************************************************)
(* Facts the proofs about the wait queues share: queues without repetition *)
(* and the cardinality of sets that gain or lose one member.               *)
(***************************************************************************)
EXTENDS Integers, SequencesExt, SequenceTheorems, FiniteSetTheorems, TLAPS

\* Adding an element to, and removing a member from, a subset of a finite set moves
\* its cardinality by one.
LEMMA CountMovesByOne ==
  ASSUME NEW T, IsFiniteSet(T), NEW S \in SUBSET T, NEW t \in T
  PROVE  /\ Cardinality(S) \in Nat
         /\ t \notin S => Cardinality(S \cup {t}) = Cardinality(S) + 1
         /\ t \in S => /\ Cardinality(S \ {t}) = Cardinality(S) - 1
                       /\ Cardinality(S) >= 1
         /\ Cardinality(S) = 0 => S = {}
<1>1. IsFiniteSet(S)
  BY FS_Subset
<1>2. Cardinality(S) \in Nat /\ Cardinality(S \ {t}) \in Nat
  BY <1>1, FS_CardinalityType, FS_RemoveElement
<1>3. t \notin S => Cardinality(S \cup {t}) = Cardinality(S) + 1
  BY <1>1, FS_AddElement
<1>4. t \in S => Cardinality(S \ {t}) = Cardinality(S) - 1
  BY <1>1, FS_RemoveElement
<1>5. t \in S => Cardinality(S) >= 1
  BY <1>2, <1>4
<1>6. Cardinality(S) = 0 => S = {}
  BY <1>1, FS_EmptySet
<1>7. QED
  BY <1>2, <1>3, <1>4, <1>5, <1>6

\* A queue that gets a new member at its end.
LEMMA AppendNew ==
  ASSUME NEW S, NEW s \in Seq(S), NEW x \in S, IsInjective(s), x \notin ToSet(s)
  PROVE  /\ Append(s, x) \in Seq(S) /\ Append(s, x) # <<>>
         /\ IsInjective(Append(s, x))
         /\ ToSet(Append(s, x)) = ToSet(s) \cup {x}
<1> DEFINE r == Append(s, x)
<1>1. /\ r \in Seq(S) /\ r # <<>> /\ Len(r) = Len(s) + 1
      /\ \A i \in 1..Len(s) : r[i] = s[i]
      /\ r[Len(s) + 1] = x
  BY AppendProperties
<1>2. Len(s) \in Nat /\ DOMAIN s = 1..Len(s) /\ DOMAIN r = 1..(Len(s) + 1)
  BY <1>1
<1> HIDE DEF r
<1>3. IsInjective(r)
  BY <1>1, <1>2 DEF IsInjective, ToSet
<1>4. ToSet(r) \subseteq ToSet(s) \cup {x}
  BY <1>1, <1>2 DEF ToSet
<1>5. \A i \in DOMAIN s : s[i] \in ToSet(r)
  BY <1>1, <1>2 DEF ToSet
<1>6. x \in ToSet(r)
  <2>1. Len(s) + 1 \in DOMAIN r
    BY <1>2
  <2>2. QED
    BY <2>1, <1>1 DEF ToSet
<1>7. QED
  BY <1>1, <1>3, <1>4, <1>5, <1>6 DEF ToSet, r

\* A queue without its first k members.
LEMMA DropFirst ==
  ASSUME NEW S, NEW s \in Seq(S), NEW k \in 1..Len(s), IsInjective(s)
  PROVE  LET first == SubSeq(s, 1, k)
             rest == SubSeq(s, k + 1, Len(s))
         IN  /\ rest \in Seq(S) /\ IsInjective(rest)
             /\ ToSet(rest) = ToSet(s) \ ToSet(first)
             /\ ToSet(first) \subseteq ToSet(s)
             /\ \A i \in 1..k : s[i] \in ToSet(first)
             /\ \A j \in (k + 1)..Len(s) : s[j] \notin ToSet(first)
             /\ rest = <<>> <=> k = Len(s)
<1> DEFINE first == SubSeq(s, 1, k)
           rest == SubSeq(s, k + 1, Len(s))
<1>1. Len(s) \in Nat /\ DOMAIN s = 1..Len(s) /\ k \in Nat /\ k >= 1 /\ k <= Len(s)
  OBVIOUS
<1>2. /\ first \in Seq(S) /\ Len(first) = k
      /\ \A i \in 1..k : first[i] = s[i]
  BY <1>1, SubSeqProperties, \A i \in 1..k : s[i] \in S
<1>3. /\ rest \in Seq(S) /\ Len(rest) = Len(s) - k
      /\ \A i \in 1..(Len(s) - k) : rest[i] = s[k + i]
  <2>1. \A i \in (k + 1)..Len(s) : s[i] \in S
    BY <1>1
  <2>2. /\ rest \in Seq(S)
        /\ Len(rest) = IF k + 1 <= Len(s) THEN Len(s) - (k + 1) + 1 ELSE 0
        /\ \A i \in 1..(Len(s) - (k + 1) + 1) : rest[i] = s[(k + 1) + i - 1]
    <3>1. k + 1 \in Int /\ Len(s) \in Int
      BY <1>1
    <3>2. QED
      BY <2>1, <3>1, SubSeqProperties
  <2> HIDE DEF rest
  <2>3. Len(s) - (k + 1) + 1 = Len(s) - k
    BY <1>1
  <2>4. Len(rest) = Len(s) - k
    <3>1. CASE k + 1 <= Len(s)
      BY <2>2, <2>3, <3>1
    <3>2. CASE ~(k + 1 <= Len(s))
      <4>1. ASSUME NEW m \in Nat, k <= m, ~(k + 1 <= m) PROVE m - k = 0
        BY <1>1, <4>1
      <4>2. QED
        BY <1>1, <2>2, <3>2, <4>1
    <3>3. QED
      BY <3>1, <3>2
  <2>5. ASSUME NEW i \in 1..(Len(s) - k) PROVE rest[i] = s[k + i]
    <3>1. rest[i] = s[(k + 1) + i - 1]
      BY <2>2, <2>3
    <3>2. (k + 1) + i - 1 = k + i
      BY <1>1
    <3>3. QED
      BY <3>1, <3>2
  <2>6. QED
    BY <2>2, <2>4, <2>5
<1> HIDE DEF first, rest
<1>4. DOMAIN first = 1..k /\ DOMAIN rest = 1..(Len(s) - k)
  BY <1>2, <1>3
<1>5. IsInjective(rest)
  <2>1. SUFFICES ASSUME NEW i \in 1..(Len(s) - k), NEW j \in 1..(Len(s) - k), rest[i] = rest[j]
                 PROVE  i = j
    BY <1>4 DEF IsInjective
  <2>2. k + i \in DOMAIN s /\ k + j \in DOMAIN s
    BY <1>1
  <2>3. s[k + i] = s[k + j]
    BY <2>1, <1>3
  <2>4. k + i = k + j
    BY <2>2, <2>3 DEF IsInjective
  <2>5. QED
    BY <2>4, <1>1
<1>6. \A i \in 1..k : s[i] \in ToSet(first)
  BY <1>2, <1>4 DEF ToSet
<1>7. \A j \in (k + 1)..Len(s) : s[j] \notin ToSet(first)
  BY <1>1, <1>2, <1>4 DEF ToSet, IsInjective
<1>8. ToSet(first) \subseteq ToSet(s)
  BY <1>1, <1>2, <1>4 DEF ToSet
<1>9. \A j \in (k + 1)..Len(s) : s[j] \in ToSet(rest)
  <2> TAKE j \in (k + 1)..Len(s)
  <2>1. j - k \in 1..(Len(s) - k) /\ rest[j - k] = s[j]
    BY <1>1, <1>3
  <2>2. QED
    BY <2>1, <1>4 DEF ToSet
<1>10. ToSet(rest) \subseteq ToSet(s) \ ToSet(first)
  <2>1. ASSUME NEW i \in DOMAIN rest PROVE rest[i] \in ToSet(s) /\ rest[i] \notin ToSet(first)
    <3>1. k + i \in (k + 1)..Len(s) /\ k + i \in DOMAIN s
      BY <1>1, <1>4
    <3>2. rest[i] = s[k + i]
      BY <1>3, <1>4
    <3>3. QED
      BY <3>1, <3>2, <1>7 DEF ToSet
  <2>2. QED
    BY <2>1 DEF ToSet
<1>11. ToSet(s) \ ToSet(first) \subseteq ToSet(rest)
  BY <1>1, <1>6, <1>9 DEF ToSet
<1>12. rest = <<>> <=> k = Len(s)
  <2>1. rest = <<>> <=> Len(rest) = 0
    BY <1>3, EmptySeq
  <2>2. Len(s) - k = 0 <=> k = Len(s)
    BY <1>1
  <2>3. QED
    BY <2>1, <2>2, <1>3, Zenon
<1>13. QED
  BY <1>3, <1>5, <1>6, <1>7, <1>8, <1>10, <1>11, <1>12 DEF first, rest

\* Place by place, a queue without the member at place p.
LEMMA RemoveOnePlaces ==
  ASSUME NEW S, NEW s \in Seq(S), NEW p \in 1..Len(s)
  PROVE  /\ RemoveAt(s, p) \in Seq(S) /\ Len(RemoveAt(s, p)) = Len(s) - 1
         /\ \A i \in 1..(Len(s) - 1) :
              RemoveAt(s, p)[i] = IF i < p THEN s[i] ELSE s[i + 1]
<1> DEFINE u == SubSeq(s, 1, p - 1)
           v == SubSeq(s, p + 1, Len(s))
           r == RemoveAt(s, p)
<1>1. Len(s) \in Nat /\ DOMAIN s = 1..Len(s) /\ p \in Nat /\ p >= 1 /\ p <= Len(s)
  OBVIOUS
<1>2. /\ u \in Seq(S) /\ Len(u) = p - 1
      /\ \A i \in 1..(p - 1) : u[i] = s[i]
  <2>1. p - 1 \in Int /\ \A i \in 1..(p - 1) : s[i] \in S
    BY <1>1
  <2>2. /\ u \in Seq(S)
        /\ Len(u) = IF 1 <= p - 1 THEN (p - 1) - 1 + 1 ELSE 0
        /\ \A i \in 1..((p - 1) - 1 + 1) : u[i] = s[1 + i - 1]
    BY <2>1, SubSeqProperties
  <2> HIDE DEF u
  <2>3. (p - 1) - 1 + 1 = p - 1
    BY <1>1
  <2>4. \A i \in 1..(p - 1) : 1 + i - 1 = i
    BY <1>1
  <2>5. QED
    BY <1>1, <2>2, <2>3, <2>4
<1>3. /\ v \in Seq(S) /\ Len(v) = Len(s) - p
      /\ \A i \in 1..(Len(s) - p) : v[i] = s[p + i]
  <2>1. p + 1 \in Int /\ Len(s) \in Int /\ \A i \in (p + 1)..Len(s) : s[i] \in S
    BY <1>1
  <2>2. /\ v \in Seq(S)
        /\ Len(v) = IF p + 1 <= Len(s) THEN Len(s) - (p + 1) + 1 ELSE 0
        /\ \A i \in 1..(Len(s) - (p + 1) + 1) : v[i] = s[(p + 1) + i - 1]
    BY <2>1, SubSeqProperties
  <2> HIDE DEF v
  <2>3. Len(s) - (p + 1) + 1 = Len(s) - p
    BY <1>1
  <2>4. Len(v) = Len(s) - p
    <3>1. CASE p + 1 <= Len(s)
      BY <2>2, <2>3, <3>1
    <3>2. CASE ~(p + 1 <= Len(s))
      <4>1. ASSUME NEW m \in Nat, p <= m, ~(p + 1 <= m) PROVE m - p = 0
        BY <1>1, <4>1
      <4>2. QED
        BY <1>1, <2>2, <3>2, <4>1
    <3>3. QED
      BY <3>1, <3>2
  <2>5. ASSUME NEW i \in 1..(Len(s) - p) PROVE v[i] = s[p + i]
    <3>1. v[i] = s[(p + 1) + i - 1]
      BY <2>2, <2>3
    <3>2. (p + 1) + i - 1 = p + i
      BY <1>1
    <3>3. QED
      BY <3>1, <3>2
  <2>6. QED
    BY <2>2, <2>4, <2>5
<1>4. r = u \o v
  BY DEF RemoveAt
<1> HIDE DEF u, v, r
<1>5. /\ r \in Seq(S) /\ Len(r) = Len(s) - 1
      /\ \A i \in 1..(Len(s) - 1) : r[i] = IF i < p THEN s[i] ELSE s[i + 1]
  <2>1. /\ r \in Seq(S) /\ Len(r) = Len(u) + Len(v)
        /\ \A i \in 1..(Len(u) + Len(v)) : r[i] = IF i <= Len(u) THEN u[i] ELSE v[i - Len(u)]
    BY <1>2, <1>3, <1>4, ConcatProperties
  <2>2. Len(r) = Len(s) - 1 /\ Len(u) + Len(v) = Len(s) - 1
    BY <2>1, <1>1, <1>2, <1>3
  <2>3. ASSUME NEW i \in 1..(Len(s) - 1) PROVE r[i] = IF i < p THEN s[i] ELSE s[i + 1]
    <3>1. r[i] = IF i <= Len(u) THEN u[i] ELSE v[i - Len(u)]
      BY <2>1, <2>2
    <3>2. CASE i < p
      <4>1. i <= Len(u) /\ i \in 1..(p - 1)
        BY <3>2, <1>1, <1>2
      <4>2. QED
        BY <3>1, <3>2, <4>1, <1>2
    <3>3. CASE ~(i < p)
      <4>1. ~(i <= Len(u)) /\ i - Len(u) \in 1..(Len(s) - p) /\ p + (i - Len(u)) = i + 1
        BY <3>3, <1>1, <1>2
      <4>2. v[i - Len(u)] = s[p + (i - Len(u))]
        BY <4>1, <1>3
      <4>3. QED
        BY <3>1, <3>3, <4>1, <4>2
    <3>4. QED
      BY <3>2, <3>3
  <2>4. QED
    BY <2>1, <2>2, <2>3
<1>6. QED
  BY <1>5 DEF r

\* A queue without the member at place p.
LEMMA RemoveOne ==
  ASSUME NEW S, NEW s \in Seq(S), NEW p \in 1..Len(s), IsInjective(s)
  PROVE  /\ RemoveAt(s, p) \in Seq(S) /\ IsInjective(RemoveAt(s, p))
         /\ ToSet(RemoveAt(s, p)) = ToSet(s) \ {s[p]}
<1> DEFINE r == RemoveAt(s, p)
<1>1. Len(s) \in Nat /\ DOMAIN s = 1..Len(s) /\ p \in Nat /\ p >= 1 /\ p <= Len(s)
  OBVIOUS
<1>5. /\ r \in Seq(S) /\ Len(r) = Len(s) - 1
      /\ \A i \in 1..(Len(s) - 1) : r[i] = IF i < p THEN s[i] ELSE s[i + 1]
  BY RemoveOnePlaces
<1> HIDE DEF r
<1>6. DOMAIN r = 1..(Len(s) - 1)
  BY <1>5
<1>7. IsInjective(r)
  <2>1. SUFFICES ASSUME NEW i \in 1..(Len(s) - 1), NEW j \in 1..(Len(s) - 1), r[i] = r[j]
                 PROVE  i = j
    BY <1>6 DEF IsInjective
  <2> DEFINE from(n) == IF n < p THEN n ELSE n + 1
  <2>2. from(i) \in DOMAIN s /\ from(j) \in DOMAIN s
    BY <1>1
  <2>3. s[from(i)] = s[from(j)]
    BY <2>1, <1>5
  <2>4. from(i) = from(j)
    BY <2>2, <2>3 DEF IsInjective
  <2>5. QED
    BY <2>4, <1>1
<1>8. ToSet(r) \subseteq ToSet(s) \ {s[p]}
  BY <1>1, <1>5, <1>6 DEF ToSet, IsInjective
<1>9. ASSUME NEW i \in DOMAIN s, s[i] # s[p] PROVE s[i] \in ToSet(r)
  <2>1. CASE i < p
    <3>1. i \in DOMAIN r /\ r[i] = s[i]
      BY <1>1, <1>5, <1>6, <2>1
    <3>2. QED
      BY <3>1 DEF ToSet
  <2>2. CASE i > p
    <3>1. i - 1 \in 1..(Len(s) - 1) /\ ~(i - 1 < p) /\ (i - 1) + 1 = i
      BY <1>1, <2>2
    <3>. i - 1 \in DOMAIN r /\ r[i - 1] = s[i]
      BY <1>5, <1>6, <3>1
    <3>2. QED
      BY <3>1 DEF ToSet
  <2>3. QED
    BY <1>1, <1>9, <2>1, <2>2
<1>10. QED
  BY <1>5, <1>7, <1>8, <1>9 DEF ToSet, r

\* An increasing queue stays so without one of its members, and loses no other.
LEMMA RemoveOneIncreasing ==
  ASSUME NEW s \in Seq(Nat), NEW p \in 1..Len(s),
         \A i, j \in DOMAIN s : i < j => s[i] < s[j]
  PROVE  LET r == RemoveAt(s, p) IN
         /\ r \in Seq(Nat)
         /\ \A i, j \in DOMAIN r : i < j => r[i] < r[j]
         /\ \A i \in DOMAIN r : \E j \in DOMAIN s : r[i] = s[j]
         /\ \A i \in DOMAIN s : i # p => \E j \in DOMAIN r : r[j] = s[i]
<1> DEFINE r == RemoveAt(s, p)
<1>1. Len(s) \in Nat /\ DOMAIN s = 1..Len(s) /\ p \in Nat /\ p >= 1 /\ p <= Len(s)
  OBVIOUS
<1>2. /\ r \in Seq(Nat) /\ Len(r) = Len(s) - 1
      /\ \A i \in 1..(Len(s) - 1) : r[i] = IF i < p THEN s[i] ELSE s[i + 1]
  BY RemoveOnePlaces
<1> HIDE DEF r
<1>3. DOMAIN r = 1..(Len(s) - 1)
  BY <1>2
<1>4. ASSUME NEW i \in DOMAIN r PROVE \E j \in DOMAIN s : r[i] = s[j]
  <2> DEFINE from == IF i < p THEN i ELSE i + 1
  <2>1. from \in DOMAIN s /\ r[i] = s[from]
    BY <1>1, <1>2, <1>3
  <2>2. QED
    BY <2>1
<1>5. ASSUME NEW i \in DOMAIN r, NEW j \in DOMAIN r, i < j PROVE r[i] < r[j]
  <2> DEFINE from(n) == IF n < p THEN n ELSE n + 1
  <2>1. from(i) \in DOMAIN s /\ from(j) \in DOMAIN s /\ from(i) < from(j)
    BY <1>1, <1>3, <1>5
  <2>2. r[i] = s[from(i)] /\ r[j] = s[from(j)]
    BY <1>2, <1>3
  <2>3. QED
    BY <2>1, <2>2
<1>6. ASSUME NEW i \in DOMAIN s, i # p PROVE \E j \in DOMAIN r : r[j] = s[i]
  <2>1. CASE i < p
    <3>1. i \in DOMAIN r /\ r[i] = s[i]
      BY <1>1, <1>2, <1>3, <2>1
    <3>2. QED
      BY <3>1
  <2>2. CASE i > p
    <3>1. i - 1 \in 1..(Len(s) - 1) /\ ~(i - 1 < p) /\ (i - 1) + 1 = i
      BY <1>1, <2>2
    <3>2. i - 1 \in DOMAIN r /\ r[i - 1] = s[i]
      BY <1>2, <1>3, <3>1
    <3>3. QED
      BY <3>2
  <2>3. QED
    BY <1>1, <1>6, <2>1, <2>2
<1>7. QED
  BY <1>2, <1>4, <1>5, <1>6 DEF r

\* A list without repetition is no longer than there are elements.
LEMMA ListFits ==
  ASSUME NEW T, IsFiniteSet(T), NEW s \in Seq(T), IsInjective(s)
  PROVE  Len(s) <= Cardinality(T)
<1>1. Len(s) \in Nat /\ s \in [1..Len(s) -> T]
  OBVIOUS
<1>2. s \in Injection(1..Len(s), T)
  BY <1>1 DEF IsInjective, Injection
<1>3. Cardinality(1..Len(s)) = Len(s)
  BY <1>1, FS_Interval
<1>4. QED
  BY <1>2, <1>3, FS_Injection

\* The head alone, and the whole list, as first parts.
LEMMA FirstAndAll ==
  ASSUME NEW S, NEW s \in Seq(S), s # <<>>
  PROVE  /\ Len(s) \in Nat /\ Len(s) >= 1 /\ Head(s) = s[1]
         /\ Tail(s) = SubSeq(s, 2, Len(s)) /\ ToSet(SubSeq(s, 1, 1)) = {Head(s)}
         /\ SubSeq(s, 1, Len(s)) = s /\ SubSeq(s, Len(s) + 1, Len(s)) = <<>>
<1>1. Len(s) \in Nat /\ Len(s) >= 1 /\ Head(s) = s[1]
  OBVIOUS
<1>2. Tail(s) = SubSeq(s, 2, Len(s))
  BY TailIsSubSeq
<1>3. Len(SubSeq(s, 1, 1)) = 1 /\ SubSeq(s, 1, 1)[1] = s[1] /\ DOMAIN SubSeq(s, 1, 1) = 1..1
  BY <1>1
<1>4. ToSet(SubSeq(s, 1, 1)) = {Head(s)}
  BY <1>1, <1>3 DEF ToSet
<1>5. SubSeq(s, 1, Len(s)) = s
  BY <1>1
<1>6. SubSeq(s, Len(s) + 1, Len(s)) = <<>>
  BY <1>1
<1>7. QED
  BY <1>1, <1>2, <1>4, <1>5, <1>6
===============================================================================
