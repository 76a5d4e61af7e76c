------------------------- MODULE PluginLoaderProofs -------------------------
(***************************************************************************)
(* Theorems about HookManager and PluginLoader, for any plugins, chains    *)
(* and callers, and any number of hooks.                                   *)
(***************************************************************************)
EXTENDS PluginLoader, SequenceTheorems, TLAPS

-----------------------------------------------------------------------------
\* The array

\* What InsertAt and RemoveIndex return.
LEMMA InsertFacts ==
    ASSUME NEW S, NEW seq \in Seq(S), NEW k \in 0..Len(seq), NEW r \in S
    PROVE  /\ InsertAt(seq, k, r) \in Seq(S)
           /\ Len(InsertAt(seq, k, r)) = Len(seq) + 1
           /\ \A i \in 1..k : InsertAt(seq, k, r)[i] = seq[i]
           /\ InsertAt(seq, k, r)[k + 1] = r
           /\ \A i \in (k + 1)..Len(seq) : InsertAt(seq, k, r)[i + 1] = seq[i]
  <1> DEFINE a == SubSeq(seq, 1, k)
             b == SubSeq(seq, k + 1, Len(seq))
             c == <<r>>
  <1>0. Len(seq) \in Nat /\ k \in Int /\ \A i \in 1..Len(seq) : seq[i] \in S OBVIOUS
  <1>1. a \in Seq(S) /\ Len(a) = k /\ \A i \in 1..k : a[i] = seq[i]
    BY <1>0, SubSeqProperties
  <1>2. /\ b \in Seq(S) /\ Len(b) = Len(seq) - k
        /\ \A i \in 1..(Len(seq) - k) : b[i] = seq[k + i]
    BY <1>0, SubSeqProperties
  <1>3. c \in Seq(S) /\ Len(c) = 1 /\ c[1] = r OBVIOUS
  <1> HIDE DEF a, b, c
  <1> DEFINE d == a \o c
  <1>4. /\ d \in Seq(S) /\ Len(d) = k + 1
        /\ \A i \in 1..(k + 1) : d[i] = IF i <= k THEN a[i] ELSE c[i - k]
    BY <1>1, <1>3, ConcatProperties
  <1> HIDE DEF d
  <1> DEFINE w == d \o b
  <1>c. /\ w \in Seq(S) /\ Len(w) = Len(d) + Len(b)
        /\ \A i \in 1..Len(d) + Len(b) : w[i] = IF i <= Len(d) THEN d[i] ELSE b[i - Len(d)]
    BY <1>2, <1>4, ConcatProperties
  <1> HIDE DEF w
  <1>n. Len(d) + Len(b) = Len(seq) + 1 BY <1>0, <1>2, <1>4
  <1>5. /\ w \in Seq(S) /\ Len(w) = Len(seq) + 1
        /\ \A i \in 1..(Len(seq) + 1) :
              w[i] = IF i <= k + 1 THEN d[i] ELSE b[i - (k + 1)]
    BY <1>c, <1>n, <1>4
  <1>6. \A i \in 1..k : w[i] = seq[i] BY <1>0, <1>1, <1>4, <1>5
  <1>7. w[k + 1] = r BY <1>0, <1>3, <1>4, <1>5
  <1>8. ASSUME NEW i \in (k + 1)..Len(seq) PROVE w[i + 1] = seq[i]
    <2>1. /\ i + 1 \in 1..(Len(seq) + 1) /\ ~(i + 1 <= k + 1)
          /\ (i + 1) - (k + 1) = i - k /\ i - k \in 1..(Len(seq) - k) /\ k + (i - k) = i
      BY <1>0
    <2>2. w[i + 1] = b[i - k] BY <1>5, <2>1
    <2>3. b[i - k] = seq[k + (i - k)] BY <1>2, <2>1
    <2> QED BY <2>1, <2>2, <2>3
  <1>9. InsertAt(seq, k, r) = w BY DEF InsertAt, a, b, c, d, w
  <1> QED BY <1>5, <1>6, <1>7, <1>8, <1>9

\* What splice leaves.
LEMMA RemoveFacts ==
    ASSUME NEW S, NEW seq \in Seq(S), NEW k \in 1..Len(seq)
    PROVE  /\ RemoveIndex(seq, k) \in Seq(S)
           /\ Len(RemoveIndex(seq, k)) = Len(seq) - 1
           /\ \A i \in 1..(k - 1) : RemoveIndex(seq, k)[i] = seq[i]
           /\ \A i \in k..(Len(seq) - 1) : RemoveIndex(seq, k)[i] = seq[i + 1]
  <1> DEFINE a == SubSeq(seq, 1, k - 1)
             b == SubSeq(seq, k + 1, Len(seq))
             w == a \o b
  <1>0. Len(seq) \in Nat /\ k \in Int /\ \A i \in 1..Len(seq) : seq[i] \in S OBVIOUS
  <1>1. a \in Seq(S) /\ Len(a) = k - 1 /\ \A i \in 1..(k - 1) : a[i] = seq[i]
    BY <1>0, SubSeqProperties
  <1>2. /\ b \in Seq(S) /\ Len(b) = Len(seq) - k
        /\ \A i \in 1..(Len(seq) - k) : b[i] = seq[k + i]
    BY <1>0, SubSeqProperties
  <1> HIDE DEF a, b
  <1>3. /\ w \in Seq(S) /\ Len(w) = Len(seq) - 1
        /\ \A i \in 1..(Len(seq) - 1) :
              w[i] = IF i <= k - 1 THEN a[i] ELSE b[i - (k - 1)]
    BY <1>0, <1>1, <1>2, ConcatProperties
  <1>4. \A i \in 1..(k - 1) : w[i] = seq[i] BY <1>0, <1>1, <1>3
  <1>5. \A i \in k..(Len(seq) - 1) : w[i] = seq[i + 1] BY <1>0, <1>2, <1>3
  <1>6. RemoveIndex(seq, k) = w BY DEF RemoveIndex, a, b
  <1> QED BY <1>3, <1>4, <1>5, <1>6

\* Every registration is in the array once.
Distinct(seq) == \A i, j \in 1..Len(seq) : seq[i] = seq[j] => i = j

\* A registration that was not in the array is in it once afterwards.
LEMMA InsertDistinct ==
    ASSUME NEW S, NEW seq \in Seq(S), NEW k \in 0..Len(seq), NEW r \in S,
           Distinct(seq), r \notin Members(seq)
    PROVE  Distinct(InsertAt(seq, k, r))
  <1> DEFINE w == InsertAt(seq, k, r)
  <1>0. Len(seq) \in Nat OBVIOUS
  <1>1. /\ Len(w) = Len(seq) + 1
        /\ \A i \in 1..k : w[i] = seq[i]
        /\ w[k + 1] = r
        /\ \A i \in (k + 1)..Len(seq) : w[i + 1] = seq[i]
    BY InsertFacts
  <1>2. \A i \in 1..Len(seq) : seq[i] # r BY DEF Members
  <1> HIDE DEF w
  <1>3. ASSUME NEW i \in 1..Len(w), i # k + 1
        PROVE  \E a \in 1..Len(seq) : w[i] = seq[a] /\ (IF i <= k THEN a = i ELSE a = i - 1)
    <2>1. CASE i <= k BY <1>0, <1>1, <2>1
    <2>2. CASE i > k + 1
      <3>1. i - 1 \in (k + 1)..Len(seq) BY <1>0, <1>1, <2>2
      <3>2. w[(i - 1) + 1] = seq[i - 1] BY <1>0, <1>1, <3>1
      <3>3. (i - 1) + 1 = i OBVIOUS
      <3>4. w[i] = seq[i - 1] BY <3>2, <3>3
      <3> QED BY <1>0, <1>1, <2>2, <3>1, <3>4
    <2> QED BY <1>3, <2>1, <2>2
  <1>4. SUFFICES ASSUME NEW i \in 1..Len(w), NEW j \in 1..Len(w), w[i] = w[j]
                 PROVE  i = j
    BY DEF w, Distinct
  <1>5. CASE i = k + 1 /\ j = k + 1 BY <1>5
  <1>6. CASE i = k + 1 /\ j # k + 1 BY <1>0, <1>1, <1>2, <1>3, <1>4, <1>6
  <1>7. CASE i # k + 1 /\ j = k + 1 BY <1>0, <1>1, <1>2, <1>3, <1>4, <1>7
  <1>8. CASE i # k + 1 /\ j # k + 1
    <2>1. PICK a \in 1..Len(seq) : w[i] = seq[a] /\ (IF i <= k THEN a = i ELSE a = i - 1)
      BY <1>3, <1>8
    <2>2. PICK b \in 1..Len(seq) : w[j] = seq[b] /\ (IF j <= k THEN b = j ELSE b = j - 1)
      BY <1>3, <1>8
    <2>3. a = b BY <1>4, <2>1, <2>2 DEF Distinct
    <2> QED BY <1>0, <1>1, <1>8, <2>1, <2>2, <2>3
  <1> QED BY <1>5, <1>6, <1>7, <1>8

\* Nor does a splice repeat one.
LEMMA RemoveDistinct ==
    ASSUME NEW S, NEW seq \in Seq(S), NEW k \in 1..Len(seq), Distinct(seq)
    PROVE  Distinct(RemoveIndex(seq, k))
  <1> DEFINE w == RemoveIndex(seq, k)
  <1>1. /\ Len(w) = Len(seq) - 1 /\ Len(seq) \in Nat
        /\ \A i \in 1..(k - 1) : w[i] = seq[i]
        /\ \A i \in k..(Len(seq) - 1) : w[i] = seq[i + 1]
    BY RemoveFacts
  <1> HIDE DEF w
  <1>2. ASSUME NEW i \in 1..Len(w)
        PROVE  \E a \in 1..Len(seq) : w[i] = seq[a] /\ (IF i < k THEN a = i ELSE a = i + 1)
    <2>1. CASE i < k BY <1>1, <2>1
    <2>2. CASE i >= k
      <3>1. w[i] = seq[i + 1] /\ i + 1 \in 1..Len(seq) BY <1>1, <2>2
      <3> QED BY <2>2, <3>1
    <2> QED BY <2>1, <2>2
  <1>3. ASSUME NEW i \in 1..Len(w), NEW j \in 1..Len(w), w[i] = w[j] PROVE i = j
    <2>1. PICK a \in 1..Len(seq) : w[i] = seq[a] /\ (IF i < k THEN a = i ELSE a = i + 1)
      BY <1>2
    <2>2. PICK b \in 1..Len(seq) : w[j] = seq[b] /\ (IF j < k THEN b = j ELSE b = j + 1)
      BY <1>2
    <2>3. a = b BY <1>3, <2>1, <2>2 DEF Distinct
    <2> QED BY <1>1, <2>1, <2>2, <2>3
  <1> QED BY <1>3 DEF Distinct, w

\* A lower priority comes first.
InOrder(seq) == \A i, j \in 1..Len(seq) : i < j => seq[i].priority <= seq[j].priority

\* A registration put behind the hooks of the same or a lower priority, and those
\* alone, leaves the array in order.
LEMMA InsertInOrder ==
    ASSUME HookAssumption, NEW seq \in Seq(Registrations), NEW k \in 0..Len(seq),
           NEW r \in Registrations, InOrder(seq),
           \A i \in 1..Len(seq) : i <= k <=> seq[i].priority <= r.priority
    PROVE  InOrder(InsertAt(seq, k, r))
  <1> DEFINE w == InsertAt(seq, k, r)
  <1>0. /\ Len(seq) \in Nat /\ r.priority \in Int
        /\ \A i \in 1..Len(seq) : seq[i].priority \in Int
    <2>1. \A s \in Registrations : s.priority \in Int BY DEF HookAssumption, Registrations
    <2>2. \A i \in 1..Len(seq) : seq[i] \in Registrations OBVIOUS
    <2> QED BY <2>1, <2>2
  <1>1. /\ Len(w) = Len(seq) + 1
        /\ \A i \in 1..k : w[i] = seq[i]
        /\ w[k + 1] = r
        /\ \A i \in (k + 1)..Len(seq) : w[i + 1] = seq[i]
    BY InsertFacts
  <1> HIDE DEF w
  <1>2. ASSUME NEW i \in 1..Len(w), i > k + 1
        PROVE  i - 1 \in (k + 1)..Len(seq) /\ w[i] = seq[i - 1]
    <2>1. i - 1 \in (k + 1)..Len(seq) /\ (i - 1) + 1 = i BY <1>0, <1>1, <1>2
    <2>2. w[(i - 1) + 1] = seq[i - 1] BY <1>1, <2>1
    <2> QED BY <2>1, <2>2
  <1>3. SUFFICES ASSUME NEW i \in 1..Len(w), NEW j \in 1..Len(w), i < j
                 PROVE  w[i].priority <= w[j].priority
    BY DEF w, InOrder
  <1>4. CASE j <= k
    <2>1. i \in 1..k /\ j \in 1..k /\ i \in 1..Len(seq) /\ j \in 1..Len(seq)
      BY <1>0, <1>1, <1>3, <1>4
    <2> QED BY <1>1, <1>3, <2>1 DEF InOrder
  <1>5. CASE j = k + 1
    <2>1. i \in 1..k /\ i \in 1..Len(seq) /\ i <= k BY <1>0, <1>1, <1>3, <1>5
    <2> QED BY <1>1, <1>5, <2>1
  <1>6. CASE j > k + 1
    <2>1. j - 1 \in (k + 1)..Len(seq) /\ w[j] = seq[j - 1] BY <1>2, <1>6
    <2>2. CASE i <= k
      <3>1. i \in 1..k /\ i \in 1..Len(seq) /\ j - 1 \in 1..Len(seq) /\ i < j - 1
        BY <1>0, <1>3, <2>1, <2>2
      <3> QED BY <1>1, <2>1, <3>1 DEF InOrder
    <2>3. CASE i = k + 1
      <3>1. j - 1 \in 1..Len(seq) /\ ~(j - 1 <= k) BY <1>0, <2>1
      <3>2. ~(seq[j - 1].priority <= r.priority) BY <3>1
      <3> QED BY <1>0, <1>1, <2>1, <2>3, <3>1, <3>2
    <2>4. CASE i > k + 1
      <3>1. i - 1 \in (k + 1)..Len(seq) /\ w[i] = seq[i - 1] BY <1>2, <2>4
      <3>2. i - 1 \in 1..Len(seq) /\ j - 1 \in 1..Len(seq) /\ i - 1 < j - 1
        BY <1>0, <1>3, <2>1, <3>1
      <3> QED BY <2>1, <3>1, <3>2 DEF InOrder
    <2> QED BY <1>0, <2>2, <2>3, <2>4
  <1> QED BY <1>0, <1>4, <1>5, <1>6

\* A splice keeps the order.
LEMMA RemoveInOrder ==
    ASSUME NEW S, NEW seq \in Seq(S), NEW k \in 1..Len(seq), InOrder(seq)
    PROVE  InOrder(RemoveIndex(seq, k))
  <1> DEFINE w == RemoveIndex(seq, k)
  <1>1. /\ Len(w) = Len(seq) - 1 /\ Len(seq) \in Nat
        /\ \A i \in 1..(k - 1) : w[i] = seq[i]
        /\ \A i \in k..(Len(seq) - 1) : w[i] = seq[i + 1]
    BY RemoveFacts
  <1> HIDE DEF w
  <1>2. ASSUME NEW i \in 1..Len(w)
        PROVE  \E a \in 1..Len(seq) : w[i] = seq[a] /\ (IF i < k THEN a = i ELSE a = i + 1)
    <2>1. CASE i < k BY <1>1, <2>1
    <2>2. CASE i >= k
      <3>1. w[i] = seq[i + 1] /\ i + 1 \in 1..Len(seq) BY <1>1, <2>2
      <3> QED BY <2>2, <3>1
    <2> QED BY <2>1, <2>2
  <1>3. ASSUME NEW i \in 1..Len(w), NEW j \in 1..Len(w), i < j
        PROVE  w[i].priority <= w[j].priority
    <2>1. PICK a \in 1..Len(seq) : w[i] = seq[a] /\ (IF i < k THEN a = i ELSE a = i + 1)
      BY <1>2
    <2>2. PICK b \in 1..Len(seq) : w[j] = seq[b] /\ (IF j < k THEN b = j ELSE b = j + 1)
      BY <1>2
    <2>3. a < b BY <1>1, <1>3, <2>1, <2>2
    <2> QED BY <2>1, <2>2, <2>3 DEF InOrder
  <1> QED BY <1>3 DEF InOrder, w

\* The handlers a chain has yet to come to.
Ahead(k, w) == {w[j] : j \in (k.index + 1)..Len(w)}

\* A registration, before or behind the iterator, leaves all that is ahead ahead.
LEMMA InsertAhead ==
    ASSUME NEW S, NEW w \in Seq(S), NEW p \in 0..Len(w), NEW r \in S, NEW k, k.index \in Nat
    PROVE  Ahead(k, w) \subseteq Ahead(k, InsertAt(w, p, r))
  <1> DEFINE v == InsertAt(w, p, r)
  <1>1. /\ Len(v) = Len(w) + 1 /\ Len(w) \in Nat
        /\ \A i \in 1..p : v[i] = w[i]
        /\ \A i \in (p + 1)..Len(w) : v[i + 1] = w[i]
    BY InsertFacts
  <1> HIDE DEF v
  <1>2. ASSUME NEW j \in (k.index + 1)..Len(w)
        PROVE  \E i \in (k.index + 1)..Len(v) : v[i] = w[j]
    <2>1. CASE j <= p BY <1>1, <2>1
    <2>2. CASE j > p
      <3>1. v[j + 1] = w[j] /\ j + 1 \in (k.index + 1)..Len(v) BY <1>1, <2>2
      <3> QED BY <3>1
    <2> QED BY <2>1, <2>2
  <1> QED BY <1>2 DEF Ahead, v

\* A splice brings nothing new ahead of the iterator.
LEMMA RemoveAhead ==
    ASSUME NEW S, NEW w \in Seq(S), NEW p \in 1..Len(w), NEW k, k.index \in Nat
    PROVE  Ahead(k, RemoveIndex(w, p)) \subseteq Ahead(k, w)
  <1> DEFINE v == RemoveIndex(w, p)
  <1>1. /\ Len(v) = Len(w) - 1 /\ Len(w) \in Nat
        /\ \A i \in 1..(p - 1) : v[i] = w[i]
        /\ \A i \in p..(Len(w) - 1) : v[i] = w[i + 1]
    BY RemoveFacts, LenProperties
  <1> HIDE DEF v
  <1>2. ASSUME NEW j \in (k.index + 1)..Len(v)
        PROVE  \E i \in (k.index + 1)..Len(w) : w[i] = v[j]
    <2>1. CASE j < p BY <1>1, <2>1
    <2>2. CASE j >= p
      <3>1. v[j] = w[j + 1] /\ j + 1 \in (k.index + 1)..Len(w) BY <1>1, <2>2
      <3> QED BY <3>1
    <2> QED BY <2>1, <2>2
  <1> QED BY <1>2 DEF Ahead, v

\* What filter leaves in the array.
LEMMA FilterFacts ==
    ASSUME NEW p, hooks \in Seq(Registrations), FilteredOut(p)
    PROVE  /\ hooks' \in Seq(Registrations)
           /\ Members(hooks') = {r \in Members(hooks) : r.plugin # p}
           /\ Distinct(hooks) => Distinct(hooks')
           /\ InOrder(hooks) => InOrder(hooks')
  <1>1. PICK n \in 0..Len(hooks) : \E kept \in [1..n -> 1..Len(hooks)] :
            /\ \A i, j \in 1..n : i < j => kept[i] < kept[j]
            /\ \A k \in 1..Len(hooks) : hooks[k].plugin # p <=> \E i \in 1..n : kept[i] = k
            /\ hooks' = [i \in 1..n |-> hooks[kept[i]]]
    BY DEF FilteredOut
  <1>2. PICK kept \in [1..n -> 1..Len(hooks)] :
            /\ \A i, j \in 1..n : i < j => kept[i] < kept[j]
            /\ \A k \in 1..Len(hooks) : hooks[k].plugin # p <=> \E i \in 1..n : kept[i] = k
            /\ hooks' = [i \in 1..n |-> hooks[kept[i]]]
    BY <1>1
  <1>3. n \in Nat /\ Len(hooks) \in Nat /\ \A k \in 1..Len(hooks) : hooks[k] \in Registrations
    OBVIOUS
  <1>4. /\ hooks' \in Seq(Registrations) /\ Len(hooks') = n
        /\ \A i \in 1..n : hooks'[i] = hooks[kept[i]] /\ kept[i] \in 1..Len(hooks)
    BY <1>2, <1>3
  <1>5. Members(hooks') = {r \in Members(hooks) : r.plugin # p}
    <2>1. ASSUME NEW i \in 1..n
          PROVE  hooks'[i] \in Members(hooks) /\ hooks'[i].plugin # p
      BY <1>2, <1>4 DEF Members
    <2>2. ASSUME NEW k \in 1..Len(hooks), hooks[k].plugin # p
          PROVE  \E i \in 1..n : hooks'[i] = hooks[k]
      BY <1>2, <1>4, <2>2
    <2>3. ASSUME NEW r \in Members(hooks') PROVE r \in Members(hooks) /\ r.plugin # p
      <3>1. PICK i \in 1..n : r = hooks'[i] BY <1>4 DEF Members
      <3> QED BY <2>1, <3>1
    <2>4. ASSUME NEW r \in Members(hooks), r.plugin # p PROVE r \in Members(hooks')
      <3>1. PICK k \in 1..Len(hooks) : r = hooks[k] BY DEF Members
      <3>2. PICK i \in 1..n : hooks'[i] = hooks[k] BY <2>2, <2>4, <3>1
      <3> QED BY <1>4, <3>1, <3>2 DEF Members
    <2> QED BY <2>3, <2>4
  <1>6. ASSUME Distinct(hooks) PROVE Distinct(hooks')
    <2>1. SUFFICES ASSUME NEW i \in 1..n, NEW j \in 1..n, hooks'[i] = hooks'[j] PROVE i = j
      BY <1>4 DEF Distinct
    <2>2. kept[i] = kept[j] BY <1>4, <1>6, <2>1 DEF Distinct
    <2>3. kept[i] \in Int /\ kept[j] \in Int /\ i \in Int /\ j \in Int BY <1>4
    <2>4. ~(i < j) /\ ~(j < i) BY <1>2, <2>2, <2>3
    <2> QED BY <2>3, <2>4
  <1>7. ASSUME InOrder(hooks) PROVE InOrder(hooks')
    <2>1. SUFFICES ASSUME NEW i \in 1..n, NEW j \in 1..n, i < j
                   PROVE  hooks'[i].priority <= hooks'[j].priority
      BY <1>4 DEF InOrder
    <2>2. /\ kept[i] \in 1..Len(hooks) /\ kept[j] \in 1..Len(hooks) /\ kept[i] < kept[j]
          /\ hooks'[i] = hooks[kept[i]] /\ hooks'[j] = hooks[kept[j]]
      BY <1>2, <1>4, <2>1
    <2>3. hooks[kept[i]].priority <= hooks[kept[j]].priority BY <1>7, <2>2 DEF InOrder
    <2> QED BY <2>2, <2>3
  <1> QED BY <1>4, <1>5, <1>6, <1>7

-----------------------------------------------------------------------------
\* Chains under way

\* What is true of a chain that walks the array w: what it has called and what is
\* ahead of its iterator are apart, and together they have all it began with.
Walking(k, w) ==
    /\ w \in Seq(Registrations) /\ Distinct(w)
    /\ k.index >= 1
    /\ ~k.grown => Distinct(k.called) /\ \A r \in Ahead(k, w) : r \notin Members(k.called)
    /\ ~k.cut => \A r \in k.base : r \in Members(k.called) \/ r \in Ahead(k, w)

ChainGood(k, w) ==
    /\ k \in ChainRecords
    /\ k.state = "awaiting" => Walking(k, w)
    /\ k.state = "idle" => k.called = <<>>

\* The array a chain with the record k walks.
ArrayOf(k, w) == IF k.apart THEN k.walked ELSE w

HInv ==
    /\ hooks \in Seq(Registrations) /\ Distinct(hooks)
    /\ tracked \in SUBSET Plugins
    /\ issued \in 0..MaxHooks
    /\ clock \in 0..MaxHooks
    /\ \A r \in Members(hooks) : r.n <= issued /\ r.plugin \in tracked
    /\ chains \in [Chains -> ChainRecords]
    /\ \A c \in Chains : ChainGood(chains[c], ArrayOf(chains[c], hooks))

\* The invariant holds when nothing is registered and no chain is under way.
LEMMA HooksStart ==
    ASSUME HookAssumption
    PROVE  /\ HooksInit => HInv
           /\ Idle \in ChainRecords
           /\ \A w : ChainGood(Idle, w)
  <1>1. Idle \in ChainRecords BY DEF Idle, ChainRecords
  <1>2. Idle.state = "idle" /\ Idle.called = <<>> BY DEF Idle
  <1>3. ASSUME NEW w PROVE ChainGood(Idle, w) BY <1>1, <1>2 DEF ChainGood
  <1>4. ASSUME HooksInit PROVE HInv
    <2>1. /\ hooks \in Seq(Registrations) /\ Distinct(hooks) /\ Members(hooks) = {}
          /\ tracked \in SUBSET Plugins /\ issued \in 0..MaxHooks /\ clock \in 0..MaxHooks
      BY <1>4 DEF HooksInit, Distinct, Members, HookAssumption
    <2>2. chains \in [Chains -> ChainRecords] /\ \A c \in Chains : chains[c] = Idle
      BY <1>1, <1>4 DEF HooksInit
    <2> QED BY <1>3, <2>1, <2>2 DEF HInv
  <1> QED BY <1>1, <1>3, <1>4

\* A chain that goes on while the array under it grows, shrinks, or leaves it alone.
LEMMA ChainKept ==
    ASSUME NEW k \in ChainRecords, NEW live, live = (k.state = "awaiting" /\ ~k.apart),
           NEW w \in Seq(Registrations), NEW v \in Seq(Registrations), Distinct(v),
           ChainGood(k, ArrayOf(k, w))
    PROVE  /\ (\A j \in Nat : Ahead([index |-> j], w) \subseteq Ahead([index |-> j], v)) =>
                  LET g == [k EXCEPT !.grown = @ \/ live] IN ChainGood(g, ArrayOf(g, v))
           /\ (\A j \in Nat : Ahead([index |-> j], v) \subseteq Ahead([index |-> j], w)) =>
                  LET g == [k EXCEPT !.cut = @ \/ live] IN ChainGood(g, ArrayOf(g, v))
  <1> DEFINE g == [k EXCEPT !.grown = @ \/ live]
             d == [k EXCEPT !.cut = @ \/ live]
  <1>k. /\ k.index \in Nat /\ k.grown \in BOOLEAN /\ k.cut \in BOOLEAN
        /\ k.state \in {"idle", "awaiting"}
    BY DEF ChainRecords
  <1>1. g \in ChainRecords /\ d \in ChainRecords BY DEF ChainRecords
  <1>2. /\ g.state = k.state /\ g.index = k.index /\ g.apart = k.apart /\ g.walked = k.walked
        /\ g.called = k.called /\ g.base = k.base /\ g.cut = k.cut
        /\ d.state = k.state /\ d.index = k.index /\ d.apart = k.apart /\ d.walked = k.walked
        /\ d.called = k.called /\ d.base = k.base /\ d.grown = k.grown
    BY DEF ChainRecords
  <1>3. (g.grown <=> k.grown \/ live) /\ (d.cut <=> k.cut \/ live) BY DEF ChainRecords
  <1> HIDE DEF g, d
  <1>5. ASSUME k.state = "awaiting", k.apart
        PROVE  ChainGood(g, ArrayOf(g, v)) /\ ChainGood(d, ArrayOf(d, v))
    <2>1. ArrayOf(g, v) = k.walked /\ ArrayOf(d, v) = k.walked /\ ArrayOf(k, w) = k.walked
      BY <1>2, <1>5 DEF ArrayOf
    <2>2. Walking(k, k.walked) BY <1>5, <2>1 DEF ChainGood
    <2>3. /\ Ahead(g, k.walked) = Ahead(k, k.walked) /\ Ahead(d, k.walked) = Ahead(k, k.walked)
      BY <1>2 DEF Ahead
    <2>4. Walking(g, k.walked) /\ Walking(d, k.walked)
      BY <1>2, <1>3, <2>2, <2>3 DEF Walking
    <2> QED BY <1>1, <1>2, <1>5, <2>1, <2>4 DEF ChainGood
  <1>6. ASSUME k.state = "awaiting", ~k.apart
        PROVE  /\ live /\ ArrayOf(g, v) = v /\ ArrayOf(d, v) = v /\ Walking(k, w)
    BY <1>2, <1>6 DEF ArrayOf, ChainGood
  <1>a. \A x : /\ Ahead(k, x) = Ahead([index |-> k.index], x)
               /\ Ahead(g, x) = Ahead([index |-> k.index], x)
               /\ Ahead(d, x) = Ahead([index |-> k.index], x)
    BY <1>2 DEF Ahead
  <1>7. ASSUME k.state = "awaiting", ~k.apart,
               \A j \in Nat : Ahead([index |-> j], w) \subseteq Ahead([index |-> j], v)
        PROVE  ChainGood(g, ArrayOf(g, v))
    <2>1. g.grown BY <1>3, <1>6, <1>7
    <2>2. Ahead(k, w) \subseteq Ahead(g, v) BY <1>k, <1>a, <1>7
    <2>3. Walking(g, v) BY <1>2, <1>6, <1>7, <2>1, <2>2 DEF Walking
    <2> QED BY <1>1, <1>2, <1>6, <1>7, <2>3 DEF ChainGood
  <1>8. ASSUME k.state = "awaiting", ~k.apart,
               \A j \in Nat : Ahead([index |-> j], v) \subseteq Ahead([index |-> j], w)
        PROVE  ChainGood(d, ArrayOf(d, v))
    <2>1. d.cut BY <1>3, <1>6, <1>8
    <2>2. Ahead(d, v) \subseteq Ahead(k, w) BY <1>k, <1>a, <1>8
    <2>3. Walking(d, v) BY <1>2, <1>6, <1>8, <2>1, <2>2 DEF Walking
    <2> QED BY <1>1, <1>2, <1>6, <1>8, <2>3 DEF ChainGood
  <1>9. ASSUME k.state = "idle"
        PROVE  ChainGood(g, ArrayOf(g, v)) /\ ChainGood(d, ArrayOf(d, v))
    BY <1>1, <1>2, <1>9 DEF ChainGood
  <1> QED BY <1>k, <1>5, <1>7, <1>8, <1>9 DEF g, d

\* A registration keeps the invariant: it is a new one, put behind or in front
\* of an iterator.
LEMMA RegisterKeeps ==
    ASSUME HookAssumption, HInv, NEW p \in Plugins, NEW q \in Priorities, Register(p, q)
    PROVE  HInv' /\ \A s \in Members(hooks') : s \in Members(hooks) \/ s.plugin = p
  <1>1. PICK at \in {clock, issued + 1}, k \in 0..Len(hooks) :
            /\ \A i \in 1..Len(hooks) : i <= k <=> hooks[i].priority <= q
            /\ hooks' = InsertAt(hooks, k, [plugin |-> p, priority |-> q,
                                            at |-> at, n |-> issued + 1])
            /\ clock' = at
    BY DEF Register
  <1> DEFINE r == [plugin |-> p, priority |-> q, at |-> at, n |-> issued + 1]
  <1>2. /\ issued' = issued + 1 /\ tracked' = tracked \cup {p} /\ issued < MaxHooks
        /\ chains' = [c \in Chains |-> [chains[c] EXCEPT !.grown = @ \/ OnLive(c)]]
    BY DEF Register
  <1>3. /\ issued \in Nat /\ issued' \in 1..MaxHooks /\ at \in 0..MaxHooks
        /\ Len(hooks) \in Nat /\ hooks \in Seq(Registrations)
    BY <1>2 DEF HInv, HookAssumption
  <1>4. r \in Registrations BY <1>2, <1>3 DEF Registrations
  <1>5. r.n = issued + 1 /\ r.plugin = p OBVIOUS
  <1>6. r \notin Members(hooks) BY <1>3, <1>5 DEF HInv
  <1> HIDE DEF r
  <1>7. hooks' = InsertAt(hooks, k, r) BY <1>1 DEF r
  <1>8. hooks' \in Seq(Registrations) /\ Distinct(hooks')
    <2>1. hooks' \in Seq(Registrations) BY <1>3, <1>4, <1>7, InsertFacts
    <2>2. Distinct(InsertAt(hooks, k, r)) BY <1>3, <1>4, <1>6, InsertDistinct DEF HInv
    <2> QED BY <1>7, <2>1, <2>2
  <1>9. ASSUME NEW s \in Members(hooks') PROVE s \in Members(hooks) \/ s = r
    <2>1. /\ Len(hooks') = Len(hooks) + 1 /\ hooks'[k + 1] = r
          /\ \A i \in 1..k : hooks'[i] = hooks[i]
          /\ \A i \in (k + 1)..Len(hooks) : hooks'[i + 1] = hooks[i]
      <3> DEFINE w == InsertAt(hooks, k, r)
      <3>0. hooks \in Seq(Registrations) /\ k \in 0..Len(hooks) /\ r \in Registrations
        BY <1>3, <1>4
      <3>a. Len(w) = Len(hooks) + 1 BY <3>0, InsertFacts
      <3>b. w[k + 1] = r BY <3>0, InsertFacts
      <3>c. \A i \in 1..k : w[i] = hooks[i] BY <3>0, InsertFacts
      <3>d. \A i \in (k + 1)..Len(hooks) : w[i + 1] = hooks[i] BY <3>0, InsertFacts
      <3>2. hooks' = w BY <1>7
      <3> HIDE DEF w
      <3> QED BY <3>a, <3>b, <3>c, <3>d, <3>2
    <2>2. PICK j \in 1..Len(hooks') : s = hooks'[j] BY <1>9 DEF Members
    <2>3. CASE j <= k BY <1>3, <2>1, <2>2, <2>3 DEF Members
    <2>4. CASE j = k + 1 BY <2>1, <2>2, <2>4
    <2>5. CASE j > k + 1
      <3>1. j - 1 \in (k + 1)..Len(hooks) /\ (j - 1) + 1 = j /\ j - 1 \in 1..Len(hooks)
        BY <1>3, <2>1, <2>5
      <3>2. hooks'[(j - 1) + 1] = hooks[j - 1] BY <2>1, <3>1
      <3>3. s = hooks[j - 1] BY <2>2, <3>1, <3>2
      <3> QED BY <3>1, <3>3 DEF Members
    <2> QED BY <1>3, <2>3, <2>4, <2>5
  <1>10. \A s \in Members(hooks') : s.n <= issued' /\ s.plugin \in tracked'
    <2>1. ASSUME NEW s \in Members(hooks) PROVE s.n <= issued' /\ s.plugin \in tracked'
      <3>1. s.n <= issued /\ s.plugin \in tracked BY DEF HInv
      <3>2. s.n \in Int
        <4>1. s \in Registrations BY <1>3 DEF Members
        <4> QED BY <4>1 DEF Registrations
      <3> QED BY <1>2, <1>3, <3>1, <3>2
    <2>2. r.n <= issued' /\ r.plugin \in tracked' BY <1>2, <1>3, <1>5
    <2> QED BY <1>9, <2>1, <2>2
  <1>11. \A j \in Nat : Ahead([index |-> j], hooks) \subseteq Ahead([index |-> j], hooks')
    <2>1. ASSUME NEW j \in Nat
          PROVE  Ahead([index |-> j], hooks) \subseteq Ahead([index |-> j], InsertAt(hooks, k, r))
      <3> DEFINE z == [index |-> j]
      <3>1. z.index \in Nat OBVIOUS
      <3> HIDE DEF z
      <3>2. Ahead(z, hooks) \subseteq Ahead(z, InsertAt(hooks, k, r))
        BY <1>3, <1>4, <3>1, InsertAhead
      <3> QED BY <3>2 DEF z
    <2> QED BY <1>7, <2>1
  <1>12. ASSUME NEW c \in Chains
         PROVE  chains'[c] \in ChainRecords /\ ChainGood(chains'[c], ArrayOf(chains'[c], hooks'))
    <2> DEFINE h == chains[c]
               g == [h EXCEPT !.grown = @ \/ OnLive(c)]
    <2>1. chains'[c] = g BY <1>2
    <2>2. h \in ChainRecords /\ ChainGood(h, ArrayOf(h, hooks)) BY DEF HInv
    <2>3. OnLive(c) = (h.state = "awaiting" /\ ~h.apart) BY DEF OnLive
    <2> HIDE DEF h
    <2>4. ChainGood(g, ArrayOf(g, hooks'))
      BY <1>3, <1>8, <1>11, <2>2, <2>3, ChainKept
    <2>5. g \in ChainRecords BY <2>4 DEF ChainGood
    <2> QED BY <2>1, <2>4, <2>5
  <1>13. chains' \in [Chains -> ChainRecords] BY <1>2, <1>12
  <1>14. tracked' \in SUBSET Plugins BY <1>2 DEF HInv
  <1>15. issued' \in 0..MaxHooks /\ clock' \in 0..MaxHooks BY <1>1, <1>3
  <1> QED BY <1>5, <1>8, <1>9, <1>10, <1>12, <1>13, <1>14, <1>15 DEF HInv

\* unregister takes a hook out under the iterators.
LEMMA UnregisterKeeps ==
    ASSUME HookAssumption, HInv, NEW p \in Plugins, NEW at \in 0..MaxHooks, Unregister(p, at)
    PROVE  HInv' /\ Members(hooks') \subseteq Members(hooks)
  <1>1. PICK k \in 1..Len(hooks) : hooks' = RemoveIndex(hooks, k) BY DEF Unregister
  <1>2. /\ chains' = [c \in Chains |-> [chains[c] EXCEPT !.cut = @ \/ OnLive(c)]]
        /\ UNCHANGED <<tracked, issued, clock>>
    BY DEF Unregister
  <1>3. hooks \in Seq(Registrations) /\ Distinct(hooks) /\ Len(hooks) \in Nat BY DEF HInv
  <1>4. /\ hooks' \in Seq(Registrations) /\ Len(hooks') = Len(hooks) - 1
        /\ \A i \in 1..(k - 1) : hooks'[i] = hooks[i]
        /\ \A i \in k..(Len(hooks) - 1) : hooks'[i] = hooks[i + 1]
    BY <1>1, <1>3, RemoveFacts
  <1>5. Distinct(hooks')
    <2>1. Distinct(RemoveIndex(hooks, k)) BY <1>3, RemoveDistinct
    <2> QED BY <1>1, <2>1
  <1>6. ASSUME NEW s \in Members(hooks') PROVE s \in Members(hooks)
    <2>1. PICK j \in 1..Len(hooks') : s = hooks'[j] BY <1>6 DEF Members
    <2>2. CASE j < k BY <1>3, <1>4, <2>1, <2>2 DEF Members
    <2>3. CASE j >= k
      <3>1. j + 1 \in 1..Len(hooks) /\ s = hooks[j + 1] BY <1>3, <1>4, <2>1, <2>3
      <3> QED BY <3>1 DEF Members
    <2> QED BY <1>3, <1>4, <2>2, <2>3
  <1>7. \A s \in Members(hooks') : s.n <= issued' /\ s.plugin \in tracked'
    BY <1>2, <1>6 DEF HInv
  <1>8. \A j \in Nat : Ahead([index |-> j], hooks') \subseteq Ahead([index |-> j], hooks)
    <2>1. ASSUME NEW j \in Nat
          PROVE  Ahead([index |-> j], RemoveIndex(hooks, k)) \subseteq Ahead([index |-> j], hooks)
      <3> DEFINE z == [index |-> j]
      <3>1. z.index \in Nat OBVIOUS
      <3> HIDE DEF z
      <3>2. Ahead(z, RemoveIndex(hooks, k)) \subseteq Ahead(z, hooks)
        BY <1>3, <3>1, RemoveAhead
      <3> QED BY <3>2 DEF z
    <2> QED BY <1>1, <2>1
  <1>9. ASSUME NEW c \in Chains
        PROVE  chains'[c] \in ChainRecords /\ ChainGood(chains'[c], ArrayOf(chains'[c], hooks'))
    <2> DEFINE h == chains[c]
               g == [h EXCEPT !.cut = @ \/ OnLive(c)]
    <2>1. chains'[c] = g BY <1>2
    <2>2. h \in ChainRecords /\ ChainGood(h, ArrayOf(h, hooks)) BY DEF HInv
    <2>3. OnLive(c) = (h.state = "awaiting" /\ ~h.apart) BY DEF OnLive
    <2> HIDE DEF h
    <2>4. ChainGood(g, ArrayOf(g, hooks'))
      BY <1>3, <1>4, <1>5, <1>8, <2>2, <2>3, ChainKept
    <2>5. g \in ChainRecords BY <2>4 DEF ChainGood
    <2> QED BY <2>1, <2>4, <2>5
  <1>10. chains' \in [Chains -> ChainRecords] BY <1>2, <1>9
  <1>11. /\ tracked' \in SUBSET Plugins
         /\ issued' \in 0..MaxHooks /\ clock' \in 0..MaxHooks
    BY <1>2 DEF HInv
  <1> QED BY <1>4, <1>5, <1>6, <1>7, <1>9, <1>10, <1>11 DEF HInv

\* unregisterPlugin leaves the old array to the chains that walk it, and no hook
\* of the plugin in the new one.
LEMMA UnregisterPluginKeeps ==
    ASSUME HookAssumption, HInv, NEW p \in Plugins, UnregisterPlugin(p)
    PROVE  HInv' /\ Members(hooks') = {r \in Members(hooks) : r.plugin # p}
  <1>0. hooks \in Seq(Registrations) /\ Distinct(hooks) /\ UNCHANGED <<issued, clock>>
    BY DEF HInv, UnregisterPlugin
  <1>1. CASE p \notin tracked /\ UNCHANGED <<hooks, tracked, chains>>
    <2>1. HInv' BY <1>0, <1>1 DEF HInv
    <2>2. Members(hooks') = {r \in Members(hooks) : r.plugin # p} BY <1>1 DEF HInv
    <2> QED BY <2>1, <2>2
  <1>2. CASE /\ p \in tracked /\ FilteredOut(p) /\ tracked' = tracked \ {p}
             /\ chains' = [c \in Chains |->
                    IF OnLive(c)
                    THEN [chains[c] EXCEPT !.apart = TRUE, !.walked = hooks]
                    ELSE chains[c]]
    <2>1. /\ hooks' \in Seq(Registrations) /\ Distinct(hooks')
          /\ Members(hooks') = {r \in Members(hooks) : r.plugin # p}
      BY <1>0, <1>2, FilterFacts
    <2>2. \A s \in Members(hooks') : s.n <= issued' /\ s.plugin \in tracked'
      BY <1>0, <1>2, <2>1 DEF HInv
    <2>3. ASSUME NEW c \in Chains
          PROVE  /\ chains'[c] \in ChainRecords
                 /\ ChainGood(chains'[c], ArrayOf(chains'[c], hooks'))
      <3> DEFINE k == chains[c]
                 g == [k EXCEPT !.apart = TRUE, !.walked = hooks]
      <3>1. chains'[c] = IF OnLive(c) THEN g ELSE k BY <1>2
      <3>2. k \in ChainRecords /\ ChainGood(k, ArrayOf(k, hooks)) BY DEF HInv
      <3>3. OnLive(c) <=> (k.state = "awaiting" /\ ~k.apart) BY DEF OnLive
      <3> HIDE DEF k
      <3>4. CASE OnLive(c)
        <4>1. g \in ChainRecords BY <1>0, <3>2 DEF ChainRecords
        <4>2. /\ g.state = k.state /\ g.index = k.index /\ g.apart /\ g.walked = hooks
              /\ g.called = k.called /\ g.base = k.base
              /\ g.cut = k.cut /\ g.grown = k.grown
          BY <3>2 DEF ChainRecords
        <4> HIDE DEF g
        <4>3. Walking(k, hooks) BY <3>2, <3>3, <3>4 DEF ChainGood, ArrayOf
        <4>4. Ahead(g, hooks) = Ahead(k, hooks) BY <4>2 DEF Ahead
        <4>5. Walking(g, hooks) BY <4>2, <4>3, <4>4 DEF Walking
        <4>6. ArrayOf(g, hooks') = hooks BY <4>2 DEF ArrayOf
        <4> QED BY <3>1, <3>3, <3>4, <4>1, <4>2, <4>5, <4>6 DEF ChainGood
      <3>5. CASE ~OnLive(c)
        <4>1. chains'[c] = k BY <3>1, <3>5
        <4>2. ChainGood(k, ArrayOf(k, hooks'))
          BY <3>2, <3>3, <3>5 DEF ChainGood, ArrayOf
        <4> QED BY <3>2, <4>1, <4>2
      <3> QED BY <3>4, <3>5
    <2>4. chains' \in [Chains -> ChainRecords] BY <1>2, <2>3
    <2>5. /\ tracked' \in SUBSET Plugins
          /\ issued' \in 0..MaxHooks /\ clock' \in 0..MaxHooks
      BY <1>0, <1>2 DEF HInv
    <2> QED BY <2>1, <2>2, <2>3, <2>4, <2>5 DEF HInv
  <1> QED BY <1>1, <1>2 DEF UnregisterPlugin

\* A chain that changes alone keeps the invariant when its new record is good.
LEMMA OneChain ==
    ASSUME HInv, NEW c \in Chains, NEW k, ChainGood(k, ArrayOf(k, hooks)),
           chains' = [chains EXCEPT ![c] = k], UNCHANGED <<hooks, tracked, issued, clock>>
    PROVE  HInv'
  <1>1. k \in ChainRecords BY DEF ChainGood
  <1>2. chains \in [Chains -> ChainRecords] BY DEF HInv
  <1>3. chains' \in [Chains -> ChainRecords] BY <1>1, <1>2
  <1>4. ASSUME NEW d \in Chains
        PROVE  ChainGood(chains'[d], ArrayOf(chains'[d], hooks'))
    <2>1. CASE d = c
      <3>1. chains'[d] = k BY <1>2, <2>1
      <3> QED BY <3>1
    <2>2. CASE d # c
      <3>1. chains'[d] = chains[d] BY <1>2, <2>2
      <3> QED BY <3>1 DEF HInv
    <2> QED BY <2>1, <2>2
  <1> QED BY <1>3, <1>4 DEF HInv

\* A chain begins with the first handler called and the others ahead.
LEMMA ExecuteKeeps ==
    ASSUME HookAssumption, HInv, NEW c \in Chains, Execute(c)
    PROVE  HInv'
  <1> DEFINE k == [Idle EXCEPT !.state = "awaiting", !.index = 1,
                               !.called = <<hooks[1]>>, !.base = Members(hooks)]
  <1>1. /\ hooks \in Seq(Registrations) /\ Len(hooks) \in Nat /\ Distinct(hooks)
        /\ \A i \in 1..Len(hooks) : hooks[i] \in Registrations
    BY DEF HInv
  <1>2. 1 \in 1..Len(hooks) BY <1>1 DEF Execute
  <1>3. /\ k.state = "awaiting" /\ k.index = 1 /\ k.apart = FALSE
        /\ k.called = <<hooks[1]>> /\ k.base = Members(hooks)
    BY DEF Idle
  <1>4. <<hooks[1]>> \in Seq(Registrations) /\ Members(hooks) \in SUBSET Registrations
    BY <1>1, <1>2 DEF Members
  <1>5. k \in ChainRecords
    <2>1. Idle \in ChainRecords BY HooksStart
    <2> QED BY <1>4, <2>1 DEF ChainRecords
  <1>6. chains' = [chains EXCEPT ![c] = k] /\ UNCHANGED <<hooks, tracked, issued, clock>>
    BY DEF Execute
  <1> HIDE DEF k
  <1>7. Ahead(k, hooks) = {hooks[j] : j \in 2..Len(hooks)} BY <1>3 DEF Ahead
  <1>8. Members(k.called) = {hooks[1]} /\ Len(k.called) = 1 BY <1>3 DEF Members
  <1>9. Distinct(k.called)
    <2>1. \A i, j \in 1..Len(k.called) : i = j BY <1>8
    <2> QED BY <2>1 DEF Distinct
  <1>10. \A r \in Ahead(k, hooks) : r \notin Members(k.called)
    <2>1. ASSUME NEW j \in 2..Len(hooks) PROVE hooks[j] # hooks[1]
      <3>1. j \in 1..Len(hooks) /\ j # 1 BY <1>1
      <3> QED BY <1>1, <1>2, <3>1 DEF Distinct
    <2> QED BY <1>7, <1>8, <2>1
  <1>11. \A r \in k.base : r \in Members(k.called) \/ r \in Ahead(k, hooks)
    <2>1. ASSUME NEW j \in 1..Len(hooks)
          PROVE  hooks[j] = hooks[1] \/ \E i \in 2..Len(hooks) : hooks[j] = hooks[i]
      <3>1. j = 1 \/ j \in 2..Len(hooks) BY <1>1
      <3> QED BY <3>1
    <2> QED BY <1>3, <1>7, <1>8, <2>1 DEF Members
  <1>12. k.index >= 1 BY <1>3
  <1>13. Walking(k, hooks) BY <1>1, <1>9, <1>10, <1>11, <1>12 DEF Walking
  <1>14. ArrayOf(k, hooks) = hooks BY <1>3 DEF ArrayOf
  <1>15. k.state # "idle" BY <1>3
  <1>16. ChainGood(k, ArrayOf(k, hooks)) BY <1>5, <1>13, <1>14, <1>15 DEF ChainGood
  <1> QED BY <1>6, <1>16, OneChain

\* The iterator takes the next handler of its array, and none of those ahead of
\* it is lost; when none is ahead, all of the base has been called.
LEMMA SettlesKeeps ==
    ASSUME HookAssumption, HInv, NEW c \in Chains, HandlerSettles(c)
    PROVE  /\ HInv'
           /\ chains'[c] = Idle /\ ~chains[c].cut =>
                  chains[c].base \subseteq Members(chains[c].called)
  <1> DEFINE h == chains[c]
             w == Walk(c)
             next == h.index + 1
             k == [h EXCEPT !.index = next, !.called = Append(h.called, w[next])]
  <1>1. h \in ChainRecords /\ ChainGood(h, ArrayOf(h, hooks)) /\ h.state = "awaiting"
    BY DEF HInv, HandlerSettles
  <1>2. w = ArrayOf(h, hooks) BY DEF Walk, ArrayOf
  <1>3. Walking(h, w) BY <1>1, <1>2 DEF ChainGood
  <1>4. /\ chains' = [chains EXCEPT ![c] = IF next <= Len(w) THEN k ELSE Idle]
        /\ UNCHANGED <<hooks, tracked, issued, clock>>
    <2>1. chains' = [chains EXCEPT ![c] = IF next <= Len(w) THEN k ELSE Idle]
      BY DEF HandlerSettles
    <2> QED BY <2>1 DEF HandlerSettles
  <1>5. chains'[c] = IF next <= Len(w) THEN k ELSE Idle BY <1>4 DEF HInv
  <1>k. k.state = "awaiting" /\ k.apart = h.apart /\ k.walked = h.walked
        /\ k.index = h.index + 1 /\ k.called = Append(h.called, w[next])
        /\ k.base = h.base /\ k.cut = h.cut /\ k.grown = h.grown
    BY <1>1 DEF ChainRecords
  <1>6. /\ h.index \in Nat /\ h.index >= 1 /\ h.called \in Seq(Registrations)
        /\ w \in Seq(Registrations) /\ Len(w) \in Nat /\ Distinct(w)
        /\ \A j \in 1..Len(w) : w[j] \in Registrations
    <2>1. w \in Seq(Registrations) /\ Distinct(w) /\ h.index >= 1 BY <1>3 DEF Walking
    <2>2. h.index \in Nat /\ h.called \in Seq(Registrations) BY <1>1 DEF ChainRecords
    <2> QED BY <2>1, <2>2
  <1>7. CASE next <= Len(w)
    <2>1. next \in 1..Len(w) /\ next \in Nat /\ w[next] \in Registrations BY <1>6, <1>7
    <2>2. k \in ChainRecords
      <3>1. Append(h.called, w[next]) \in Seq(Registrations) BY <1>6, <2>1
      <3> QED BY <1>1, <2>1, <3>1 DEF ChainRecords
    <2>3. chains' = [chains EXCEPT ![c] = k] BY <1>4, <1>7
    <2> DEFINE r == w[next]
               s == h.called
    <2> HIDE DEF h, w, k
    <2>4. /\ Len(k.called) = Len(s) + 1 /\ Len(s) \in Nat
          /\ \A i \in 1..Len(s) : k.called[i] = s[i]
          /\ k.called[Len(s) + 1] = r
      BY <1>6, <1>k
    <2>5. Members(k.called) = Members(s) \cup {r}
      <3>1. \A i \in 1..Len(k.called) : i \in 1..Len(s) \/ i = Len(s) + 1 BY <2>4
      <3>2. \A i \in 1..Len(s) : i \in 1..Len(k.called) BY <2>4
      <3>3. Len(s) + 1 \in 1..Len(k.called) BY <2>4
      <3>4. \A x \in Members(k.called) : x \in Members(s) \/ x = r
        BY <2>4, <3>1 DEF Members
      <3>5. Members(s) \subseteq Members(k.called) /\ r \in Members(k.called)
        BY <2>4, <3>2, <3>3 DEF Members
      <3> QED BY <3>4, <3>5
    <2>6. /\ Ahead(k, w) \subseteq Ahead(h, w) /\ r \in Ahead(h, w) /\ r \notin Ahead(k, w)
          /\ \A x \in Ahead(h, w) : x = r \/ x \in Ahead(k, w)
      <3>1. Ahead(k, w) = {w[j] : j \in (h.index + 2)..Len(w)}
        <4>1. k.index + 1 = h.index + 2 BY <1>6, <1>k
        <4> QED BY <4>1 DEF Ahead
      <3>2. Ahead(h, w) = {w[j] : j \in (h.index + 1)..Len(w)} BY DEF Ahead
      <3>3. \A j \in (h.index + 1)..Len(w) : j = next \/ j \in (h.index + 2)..Len(w)
        BY <1>6
      <3>4. next \in (h.index + 1)..Len(w) BY <1>6, <1>7
      <3>5. \A j \in (h.index + 2)..Len(w) :
                j # next /\ j \in 1..Len(w) /\ j \in (h.index + 1)..Len(w)
        BY <1>6
      <3>6. \A j \in (h.index + 2)..Len(w) : w[j] # r BY <1>6, <2>1, <3>5 DEF Distinct
      <3>7. Ahead(k, w) \subseteq Ahead(h, w) BY <3>1, <3>2, <3>5
      <3>8. \A x \in Ahead(h, w) : x = r \/ x \in Ahead(k, w) BY <3>1, <3>2, <3>3
      <3>9. r \in Ahead(h, w) /\ r \notin Ahead(k, w) BY <3>1, <3>2, <3>4, <3>6
      <3> QED BY <3>7, <3>8, <3>9
    <2>7. ~k.grown => Distinct(k.called) /\ \A x \in Ahead(k, w) : x \notin Members(k.called)
      <3>1. SUFFICES ASSUME ~k.grown
                     PROVE  Distinct(k.called) /\ \A x \in Ahead(k, w) : x \notin Members(k.called)
        OBVIOUS
      <3>2. Distinct(s) /\ \A x \in Ahead(h, w) : x \notin Members(s)
        BY <1>3, <1>k, <3>1 DEF Walking
      <3>3. \A i \in 1..Len(s) : s[i] # r BY <2>6, <3>2 DEF Members
      <3>4. ASSUME NEW i \in 1..Len(k.called), NEW j \in 1..Len(k.called),
                   k.called[i] = k.called[j]
            PROVE  i = j
        <4>1. CASE i <= Len(s) /\ j <= Len(s) BY <2>4, <3>2, <3>4, <4>1 DEF Distinct
        <4>2. CASE i <= Len(s) /\ j > Len(s) BY <2>4, <3>3, <3>4, <4>2
        <4>3. CASE i > Len(s) /\ j <= Len(s) BY <2>4, <3>3, <3>4, <4>3
        <4>4. CASE i > Len(s) /\ j > Len(s) BY <2>4, <4>4
        <4> QED BY <2>4, <4>1, <4>2, <4>3, <4>4
      <3>5. Distinct(k.called) BY <3>4 DEF Distinct
      <3>6. \A x \in Ahead(k, w) : x \notin Members(k.called) BY <2>5, <2>6, <3>2
      <3> QED BY <3>5, <3>6
    <2>8. ~k.cut => \A x \in k.base : x \in Members(k.called) \/ x \in Ahead(k, w)
      <3>1. SUFFICES ASSUME ~k.cut, NEW x \in k.base
                     PROVE  x \in Members(k.called) \/ x \in Ahead(k, w)
        OBVIOUS
      <3>2. x \in Members(s) \/ x \in Ahead(h, w) BY <1>3, <1>k, <3>1 DEF Walking
      <3> QED BY <2>5, <2>6, <3>2
    <2>9. k.index >= 1 BY <1>6, <1>k
    <2>10. Walking(k, w) BY <1>6, <2>7, <2>8, <2>9 DEF Walking
    <2>11. ArrayOf(k, hooks) = w BY <1>2, <1>k DEF ArrayOf
    <2>12. k.state # "idle" BY <1>k
    <2>13. ChainGood(k, ArrayOf(k, hooks)) BY <2>2, <2>10, <2>11, <2>12 DEF ChainGood
    <2>14. HInv' BY <1>4, <2>3, <2>13, OneChain
    <2>15. chains'[c] # Idle
      <3>1. Idle.state = "idle" BY DEF Idle
      <3> QED BY <1>5, <1>7, <2>12, <3>1
    <2> QED BY <2>14, <2>15 DEF h
  <1>8. CASE ~(next <= Len(w))
    <2>1. ChainGood(Idle, ArrayOf(Idle, hooks)) BY HooksStart
    <2>2. chains' = [chains EXCEPT ![c] = Idle] BY <1>4, <1>8
    <2>3. HInv' BY <1>4, <2>1, <2>2, OneChain
    <2>4. Ahead(h, w) = {}
      <3>1. \A j \in Int : ~(j \in (h.index + 1)..Len(w)) BY <1>6, <1>8
      <3>2. (h.index + 1)..Len(w) = {} BY <1>6, <3>1
      <3> QED BY <3>2 DEF Ahead
    <2>5. ~h.cut => h.base \subseteq Members(h.called) BY <1>3, <2>4 DEF Walking
    <2> QED BY <2>3, <2>5
  <1> QED BY <1>7, <1>8

\* A chain that is over.
LEMMA StopsKeeps ==
    ASSUME HookAssumption, HInv, NEW c \in Chains, HandlerStops(c)
    PROVE  HInv'
  <1>1. ChainGood(Idle, ArrayOf(Idle, hooks)) BY HooksStart
  <1>2. /\ chains' = [chains EXCEPT ![c] = Idle]
        /\ UNCHANGED <<hooks, tracked, issued, clock>>
    BY DEF HandlerStops
  <1> QED BY <1>1, <1>2, OneChain

\* A step that leaves the hooks alone.
LEMMA HooksStutter == ASSUME HInv, UNCHANGED hookVars PROVE HInv' /\ Members(hooks') = Members(hooks)
  BY DEF HInv, hookVars

-----------------------------------------------------------------------------
\* The loader

Quiet(p) == status[p] \in {"INSTALLED", "DISABLED"} /\ ~BeingEnabled(p)

LTypes ==
    /\ status \in [Plugins -> Statuses]
    /\ loaded \in SUBSET Plugins
    /\ registry \in [Plugins -> Entries]
    /\ pc \in [Callers -> Points]
    /\ plugin \in [Callers -> Plugins \cup {None}]
    /\ \A c \in Callers : pc[c] # "idle" => plugin[c] \in Plugins

LInv == HInv /\ LTypes /\ DisabledIsSilent

\* The registry keeps its type, and a status or a call that changes its own.
LEMMA LoaderMoves ==
    ASSUME LTypes
    PROVE  /\ \A p \in Plugins, s \in Statuses :
                 SetPluginStatus(p, s) => registry' \in [Plugins -> Entries]
           /\ \A p \in Plugins : SetPluginConfig(p) => registry' \in [Plugins -> Entries]
           /\ \A p \in Plugins, s \in Statuses :
                 SetStatus(p, s) => /\ status' \in [Plugins -> Statuses] /\ status'[p] = s
                                    /\ \A q \in Plugins \ {p} : status'[q] = status[q]
           /\ \A c \in Callers, point \in Points, p \in Plugins \cup {None} :
                 Goto(c, point, p) /\ (point # "idle" => p \in Plugins) =>
                     /\ pc' \in [Callers -> Points]
                     /\ plugin' \in [Callers -> Plugins \cup {None}]
                     /\ \A d \in Callers : pc'[d] # "idle" => plugin'[d] \in Plugins
                     /\ pc'[c] = point /\ plugin'[c] = p
                     /\ \A d \in Callers \ {c} : pc'[d] = pc[d] /\ plugin'[d] = plugin[d]
  <1>1. \A p \in Plugins : registry[p] \in Entries BY DEF LTypes
  <1>2. ASSUME NEW p \in Plugins, NEW s \in Statuses, SetPluginStatus(p, s)
        PROVE  registry' \in [Plugins -> Entries]
    <2> DEFINE e == IF registry[p] = None THEN None ELSE [registry[p] EXCEPT !.status = s]
    <2>1. registry' = [registry EXCEPT ![p] = e] BY <1>2 DEF SetPluginStatus
    <2>2. e \in Entries
      <3>1. CASE registry[p] = None BY <3>1 DEF Entries
      <3>2. CASE registry[p] # None
        <4>1. registry[p] \in [status : Statuses, configured : BOOLEAN] BY <1>1, <3>2 DEF Entries
        <4>2. [registry[p] EXCEPT !.status = s] \in [status : Statuses, configured : BOOLEAN]
          BY <1>2, <4>1
        <4> QED BY <3>2, <4>2 DEF Entries
      <3> QED BY <3>1, <3>2
    <2> HIDE DEF e
    <2> QED BY <2>1, <2>2 DEF LTypes
  <1>3. ASSUME NEW p \in Plugins, SetPluginConfig(p)
        PROVE  registry' \in [Plugins -> Entries]
    <2> DEFINE e == IF registry[p] = None THEN None ELSE [registry[p] EXCEPT !.configured = TRUE]
    <2>1. registry' = [registry EXCEPT ![p] = e] BY <1>3 DEF SetPluginConfig
    <2>2. e \in Entries
      <3>1. CASE registry[p] = None BY <3>1 DEF Entries
      <3>2. CASE registry[p] # None
        <4>1. registry[p] \in [status : Statuses, configured : BOOLEAN] BY <1>1, <3>2 DEF Entries
        <4>2. [registry[p] EXCEPT !.configured = TRUE]
                  \in [status : Statuses, configured : BOOLEAN]
          BY <4>1
        <4> QED BY <3>2, <4>2 DEF Entries
      <3> QED BY <3>1, <3>2
    <2> HIDE DEF e
    <2> QED BY <2>1, <2>2 DEF LTypes
  <1>4. ASSUME NEW p \in Plugins, NEW s \in Statuses, SetStatus(p, s)
        PROVE  /\ status' \in [Plugins -> Statuses] /\ status'[p] = s
               /\ \A q \in Plugins \ {p} : status'[q] = status[q]
    BY <1>4 DEF SetStatus, LTypes
  <1>5. ASSUME NEW c \in Callers, NEW point \in Points, NEW p \in Plugins \cup {None},
               Goto(c, point, p), point # "idle" => p \in Plugins
        PROVE  /\ pc' \in [Callers -> Points]
               /\ plugin' \in [Callers -> Plugins \cup {None}]
               /\ \A d \in Callers : pc'[d] # "idle" => plugin'[d] \in Plugins
               /\ pc'[c] = point /\ plugin'[c] = p
               /\ \A d \in Callers \ {c} : pc'[d] = pc[d] /\ plugin'[d] = plugin[d]
    <2>1. /\ pc' \in [Callers -> Points]
          /\ plugin' \in [Callers -> Plugins \cup {None}]
          /\ pc'[c] = point /\ plugin'[c] = p
          /\ \A d \in Callers \ {c} : pc'[d] = pc[d] /\ plugin'[d] = plugin[d]
      BY <1>5 DEF Goto, LTypes
    <2>2. ASSUME NEW d \in Callers, pc'[d] # "idle" PROVE plugin'[d] \in Plugins
      <3>1. CASE d = c BY <1>5, <2>1, <2>2, <3>1
      <3>2. CASE d # c BY <2>1, <2>2, <3>2 DEF LTypes
      <3> QED BY <3>1, <3>2
    <2> QED BY <2>1, <2>2
  <1> QED BY <1>2, <1>3, <1>4, <1>5

\* Silence is kept when no hook is new but those of plugins that are being enabled.
LEMMA SilenceKept ==
    ASSUME DisabledIsSilent,
           \A p \in Plugins : Quiet(p)' =>
                \/ \A s \in Members(hooks') : s.plugin # p
                \/ Quiet(p) /\ \A s \in Members(hooks') : s \in Members(hooks) \/ s.plugin # p
    PROVE  DisabledIsSilent'
  <1>1. SUFFICES ASSUME NEW p \in Plugins, Quiet(p)' PROVE HooksOf(p)' = {}
    BY DEF DisabledIsSilent, Quiet
  <1>2. CASE \A s \in Members(hooks') : s.plugin # p BY <1>2 DEF HooksOf, Members
  <1>3. CASE Quiet(p) /\ \A s \in Members(hooks') : s \in Members(hooks) \/ s.plugin # p
    <2>1. HooksOf(p) = {} BY <1>3 DEF DisabledIsSilent, Quiet
    <2>2. \A s \in Members(hooks) : s.plugin # p BY <2>1 DEF HooksOf
    <2>3. \A s \in Members(hooks') : s.plugin # p BY <1>3, <2>2
    <2> QED BY <2>3 DEF HooksOf, Members
  <1> QED BY <1>1, <1>2, <1>3

\* A plugin that is being enabled by a call other than c still is.
LEMMA StillEnabling ==
    ASSUME LTypes, NEW c \in Callers, NEW p \in Plugins, BeingEnabled(p),
           \A d \in Callers \ {c} : pc'[d] = pc[d] /\ plugin'[d] = plugin[d],
           \/ pc[c] \notin Enabling \/ plugin[c] # p
           \/ pc'[c] \in Enabling /\ plugin'[c] = plugin[c]
    PROVE  BeingEnabled(p)'
  <1>1. PICK d \in Callers : pc[d] \in Enabling /\ plugin[d] = p BY DEF BeingEnabled
  <1>2. pc'[d] \in Enabling /\ plugin'[d] = p
    <2>1. CASE d = c BY <1>1, <2>1
    <2>2. CASE d # c BY <1>1, <2>2
    <2> QED BY <2>1, <2>2
  <1> QED BY <1>2 DEF BeingEnabled

\* The invariant holds when every plugin has been loaded and none enabled.
LEMMA LoaderStart == ASSUME HookAssumption PROVE Init => LInv
  <1>1. SUFFICES ASSUME Init PROVE LInv OBVIOUS
  <1>2. HInv BY <1>1, HooksStart DEF Init
  <1>3. LTypes BY <1>1 DEF Init, LTypes, Statuses, Entries, Points
  <1>4. DisabledIsSilent BY <1>1 DEF Init, HooksInit, DisabledIsSilent, HooksOf, Members
  <1> QED BY <1>2, <1>3, <1>4 DEF LInv

\* Every step keeps the invariant.
LEMMA LoaderKept ==
    ASSUME HookAssumption, LoaderAssumption, LInv, [Next]_vars
    PROVE  LInv'
  <1>0. HInv /\ LTypes /\ DisabledIsSilent BY DEF LInv
  <1>p. \A c \in Callers : pc[c] # "idle" => plugin[c] \in Plugins BY <1>0 DEF LTypes
  <1>n. /\ {"ENABLED", "ERROR", "DISABLED", "INSTALLED"} \subseteq Statuses
        /\ {"idle", "onLoad", "onEnable", "onDisable", "unloading", "onUnload"} \subseteq Points
    BY DEF Statuses, Points, Enabling
  <1>h. ASSUME UNCHANGED hookVars PROVE HInv' /\ Members(hooks') = Members(hooks)
    BY <1>0, <1>h, HooksStutter
  <1>u. ASSUME UNCHANGED loaderVars
        PROVE  LTypes' /\ \A p : Quiet(p)' <=> Quiet(p)
    BY <1>0, <1>u DEF loaderVars, LTypes, Quiet, BeingEnabled
  <1>1. ASSUME HooksNext, UNCHANGED loaderVars PROVE LInv'
    <2>1. HInv' /\ \A s \in Members(hooks') : s \in Members(hooks)
      <3>1. ASSUME NEW c \in Chains, Execute(c) PROVE HInv' /\ hooks' = hooks
        BY <1>0, <3>1, ExecuteKeeps DEF Execute
      <3>2. ASSUME NEW c \in Chains, HandlerSettles(c) PROVE HInv' /\ hooks' = hooks
        BY <1>0, <3>2, SettlesKeeps DEF HandlerSettles
      <3>3. ASSUME NEW c \in Chains, HandlerStops(c) PROVE HInv' /\ hooks' = hooks
        BY <1>0, <3>3, StopsKeeps DEF HandlerStops
      <3>4. ASSUME NEW p \in Plugins, NEW at \in 0..MaxHooks, Unregister(p, at)
            PROVE  HInv' /\ Members(hooks') \subseteq Members(hooks)
        BY <1>0, <3>4, UnregisterKeeps
      <3>5. hooks' = hooks => Members(hooks') = Members(hooks) OBVIOUS
      <3> QED BY <1>1, <3>1, <3>2, <3>3, <3>4, <3>5 DEF HooksNext
    <2>2. LTypes' /\ \A p : Quiet(p)' <=> Quiet(p) BY <1>1, <1>u
    <2>3. DisabledIsSilent' BY <1>0, <2>1, <2>2, SilenceKept
    <2> QED BY <2>1, <2>2, <2>3 DEF LInv
  <1>2. ASSUME NEW c \in Callers, OnLoadResolves(c) PROVE LInv'
    <2>1. /\ Goto(c, "onEnable", plugin[c]) /\ UNCHANGED <<hookVars, status, loaded, registry>>
          /\ pc[c] = "onLoad" /\ plugin[c] \in Plugins
      BY <1>2, <1>p DEF OnLoadResolves
    <2>2. /\ LTypes' /\ pc'[c] = "onEnable" /\ plugin'[c] = plugin[c]
          /\ \A d \in Callers \ {c} : pc'[d] = pc[d] /\ plugin'[d] = plugin[d]
      BY <1>0, <1>n, <2>1, LoaderMoves DEF LTypes
    <2>3. ASSUME NEW p \in Plugins, Quiet(p)' PROVE Quiet(p)
      <3>1. BeingEnabled(p) => BeingEnabled(p)'
        BY <1>0, <2>1, <2>2, StillEnabling DEF Enabling
      <3> QED BY <2>1, <2>3, <3>1 DEF Quiet
    <2>4. HInv' /\ Members(hooks') = Members(hooks) BY <1>h, <2>1
    <2>5. DisabledIsSilent' BY <1>0, <2>3, <2>4, SilenceKept
    <2> QED BY <2>2, <2>4, <2>5 DEF LInv
  <1>3. ASSUME NEW c \in Callers, OnEnableResolves(c) PROVE LInv'
    <2>1. /\ SetStatus(plugin[c], "ENABLED") /\ SetPluginStatus(plugin[c], "ENABLED")
          /\ Goto(c, "idle", None) /\ UNCHANGED <<hookVars, loaded>>
          /\ pc[c] = "onEnable" /\ plugin[c] \in Plugins
      BY <1>3, <1>p DEF OnEnableResolves, Return
    <2>2. /\ LTypes' /\ status'[plugin[c]] = "ENABLED"
          /\ \A q \in Plugins \ {plugin[c]} : status'[q] = status[q]
          /\ \A d \in Callers \ {c} : pc'[d] = pc[d] /\ plugin'[d] = plugin[d]
      BY <1>0, <1>n, <2>1, LoaderMoves DEF LTypes
    <2>3. ASSUME NEW p \in Plugins, Quiet(p)' PROVE Quiet(p)
      <3>1. p # plugin[c] BY <2>2, <2>3 DEF Quiet
      <3>2. BeingEnabled(p) => BeingEnabled(p)' BY <1>0, <2>2, <3>1, StillEnabling
      <3> QED BY <2>2, <2>3, <3>1, <3>2 DEF Quiet
    <2>4. HInv' /\ Members(hooks') = Members(hooks) BY <1>h, <2>1
    <2>5. DisabledIsSilent' BY <1>0, <2>3, <2>4, SilenceKept
    <2> QED BY <2>2, <2>4, <2>5 DEF LInv
  <1>4. ASSUME NEW c \in Callers, EnableRejects(c) PROVE LInv'
    <2>1. /\ SetStatus(plugin[c], "ERROR") /\ SetPluginStatus(plugin[c], "ERROR")
          /\ Goto(c, "idle", None) /\ UNCHANGED <<hookVars, loaded>>
          /\ pc[c] # "idle" /\ plugin[c] \in Plugins
      BY <1>4, <1>p DEF EnableRejects, Return, Enabling
    <2>2. /\ LTypes' /\ status'[plugin[c]] = "ERROR"
          /\ \A q \in Plugins \ {plugin[c]} : status'[q] = status[q]
          /\ \A d \in Callers \ {c} : pc'[d] = pc[d] /\ plugin'[d] = plugin[d]
      BY <1>0, <1>n, <2>1, LoaderMoves DEF LTypes
    <2>3. ASSUME NEW p \in Plugins, Quiet(p)' PROVE Quiet(p)
      <3>1. p # plugin[c] BY <2>2, <2>3 DEF Quiet
      <3>2. BeingEnabled(p) => BeingEnabled(p)' BY <1>0, <2>2, <3>1, StillEnabling
      <3> QED BY <2>2, <2>3, <3>1, <3>2 DEF Quiet
    <2>4. HInv' /\ Members(hooks') = Members(hooks) BY <1>h, <2>1
    <2>5. DisabledIsSilent' BY <1>0, <2>3, <2>4, SilenceKept
    <2> QED BY <2>2, <2>4, <2>5 DEF LInv
  <1>5. ASSUME NEW c \in Callers, Disabled(c) PROVE LInv'
    <2>1. /\ SetStatus(plugin[c], "DISABLED") /\ SetPluginStatus(plugin[c], "DISABLED")
          /\ UnregisterPlugin(plugin[c]) /\ UNCHANGED loaded
          /\ pc[c] \in {"onDisable", "unloading"} /\ plugin[c] \in Plugins
          /\ Goto(c, "idle", None) \/ Goto(c, "onUnload", plugin[c])
      BY <1>5, <1>p DEF Disabled, Return
    <2>2. /\ HInv' /\ Members(hooks') = {r \in Members(hooks) : r.plugin # plugin[c]}
      BY <1>0, <2>1, UnregisterPluginKeeps
    <2>3. /\ pc' \in [Callers -> Points]
          /\ plugin' \in [Callers -> Plugins \cup {None}]
          /\ \A d \in Callers : pc'[d] # "idle" => plugin'[d] \in Plugins
          /\ \A d \in Callers \ {c} : pc'[d] = pc[d] /\ plugin'[d] = plugin[d]
      <3>1. CASE Goto(c, "idle", None) BY <1>0, <1>n, <3>1, LoaderMoves
      <3>2. CASE Goto(c, "onUnload", plugin[c]) BY <1>0, <1>n, <2>1, <3>2, LoaderMoves
      <3> QED BY <2>1, <3>1, <3>2
    <2>4. /\ LTypes' /\ \A q \in Plugins \ {plugin[c]} : status'[q] = status[q]
      BY <1>0, <1>n, <2>1, <2>3, LoaderMoves DEF LTypes
    <2>5. ASSUME NEW p \in Plugins, p # plugin[c], Quiet(p)' PROVE Quiet(p)
      <3>1. BeingEnabled(p) => BeingEnabled(p)' BY <1>0, <2>3, <2>5, StillEnabling
      <3> QED BY <2>4, <2>5, <3>1 DEF Quiet
    <2>6. DisabledIsSilent' BY <1>0, <2>2, <2>5, SilenceKept
    <2> QED BY <2>2, <2>4, <2>6 DEF LInv
  <1>6. ASSUME NEW c \in Callers, DisableRejects(c) PROVE LInv'
    <2>1. /\ SetStatus(plugin[c], "ERROR") /\ Goto(c, "idle", None)
          /\ UNCHANGED <<hookVars, loaded, registry>>
          /\ pc[c] # "idle" /\ plugin[c] \in Plugins
      BY <1>6, <1>p DEF DisableRejects, Return
    <2>2. /\ LTypes' /\ status'[plugin[c]] = "ERROR"
          /\ \A q \in Plugins \ {plugin[c]} : status'[q] = status[q]
          /\ \A d \in Callers \ {c} : pc'[d] = pc[d] /\ plugin'[d] = plugin[d]
      BY <1>0, <1>n, <2>1, LoaderMoves DEF LTypes
    <2>3. ASSUME NEW p \in Plugins, Quiet(p)' PROVE Quiet(p)
      <3>1. p # plugin[c] BY <2>2, <2>3 DEF Quiet
      <3>2. BeingEnabled(p) => BeingEnabled(p)' BY <1>0, <2>2, <3>1, StillEnabling
      <3> QED BY <2>2, <2>3, <3>1, <3>2 DEF Quiet
    <2>4. HInv' /\ Members(hooks') = Members(hooks) BY <1>h, <2>1
    <2>5. DisabledIsSilent' BY <1>0, <2>3, <2>4, SilenceKept
    <2> QED BY <2>2, <2>4, <2>5 DEF LInv
  <1>7. ASSUME NEW c \in Callers, Unloaded(c) PROVE LInv'
    <2>1. /\ Goto(c, "idle", None) /\ UNCHANGED <<hookVars, status, registry>>
          /\ pc[c] = "onUnload" /\ loaded' \subseteq loaded
      BY <1>7 DEF Unloaded, Return
    <2>2. /\ LTypes'
          /\ \A d \in Callers \ {c} : pc'[d] = pc[d] /\ plugin'[d] = plugin[d]
      BY <1>0, <1>n, <2>1, LoaderMoves DEF LTypes
    <2>3. ASSUME NEW p \in Plugins, Quiet(p)' PROVE Quiet(p)
      <3>1. BeingEnabled(p) => BeingEnabled(p)'
        BY <1>0, <2>1, <2>2, StillEnabling DEF Enabling
      <3> QED BY <2>1, <2>3, <3>1 DEF Quiet
    <2>4. HInv' /\ Members(hooks') = Members(hooks) BY <1>h, <2>1
    <2>5. DisabledIsSilent' BY <1>0, <2>3, <2>4, SilenceKept
    <2> QED BY <2>2, <2>4, <2>5 DEF LInv
  <1>8. ASSUME NEW c \in Callers, NEW q \in Priorities, RegisterHook(c, q) PROVE LInv'
    <2>1. /\ Register(plugin[c], q) /\ UNCHANGED loaderVars
          /\ pc[c] \in Enabling /\ plugin[c] \in Plugins
      BY <1>8, <1>p DEF RegisterHook, Enabling
    <2>2. HInv' /\ \A s \in Members(hooks') : s \in Members(hooks) \/ s.plugin = plugin[c]
      BY <1>0, <2>1, RegisterKeeps
    <2>3. LTypes' /\ \A p : Quiet(p)' <=> Quiet(p) BY <1>u, <2>1
    <2>4. ~Quiet(plugin[c]) BY <2>1 DEF Quiet, BeingEnabled
    <2>5. DisabledIsSilent' BY <1>0, <2>2, <2>3, <2>4, SilenceKept
    <2> QED BY <2>2, <2>3, <2>5 DEF LInv
  <1>9. ASSUME NEW c \in Callers, NEW p \in Plugins, EnableCall(c, p) PROVE LInv'
    <2>1. UNCHANGED <<hookVars, loaded>> /\ pc[c] = "idle" BY <1>9 DEF EnableCall
    <2>2. HInv' /\ Members(hooks') = Members(hooks) BY <1>h, <2>1
    <2>3. CASE Goto(c, "onLoad", p) /\ UNCHANGED <<status, registry>>
      <3>1. /\ LTypes'
            /\ \A d \in Callers \ {c} : pc'[d] = pc[d] /\ plugin'[d] = plugin[d]
        BY <1>0, <1>n, <2>1, <2>3, LoaderMoves DEF LTypes
      <3>2. ASSUME NEW q \in Plugins, Quiet(q)' PROVE Quiet(q)
        <4>1. BeingEnabled(q) => BeingEnabled(q)'
          BY <1>0, <2>1, <3>1, StillEnabling DEF Enabling
        <4> QED BY <2>3, <3>2, <4>1 DEF Quiet
      <3>3. DisabledIsSilent' BY <1>0, <2>2, <3>2, SilenceKept
      <3> QED BY <2>2, <3>1, <3>3 DEF LInv
    <2>4. CASE SetStatus(p, "ERROR") /\ SetPluginStatus(p, "ERROR") /\ UNCHANGED <<pc, plugin>>
      <3>1. /\ LTypes' /\ status'[p] = "ERROR"
            /\ \A q \in Plugins \ {p} : status'[q] = status[q]
        BY <1>0, <1>n, <2>1, <2>4, LoaderMoves DEF LTypes
      <3>2. ASSUME NEW q \in Plugins, Quiet(q)' PROVE Quiet(q)
        <4>1. q # p BY <3>1, <3>2 DEF Quiet
        <4> QED BY <2>4, <3>1, <3>2, <4>1 DEF Quiet, BeingEnabled
      <3>3. DisabledIsSilent' BY <1>0, <2>2, <3>2, SilenceKept
      <3> QED BY <2>2, <3>1, <3>3 DEF LInv
    <2> QED BY <1>9, <2>3, <2>4 DEF EnableCall
  <1>10. ASSUME NEW c \in Callers, NEW p \in Plugins, DisableCall(c, p) \/ UnloadCall(c, p)
         PROVE  LInv'
    <2>1. /\ UNCHANGED <<hookVars, status, loaded, registry>> /\ pc[c] = "idle"
          /\ \/ Goto(c, "onDisable", p) \/ Goto(c, "unloading", p) \/ Goto(c, "onUnload", p)
      BY <1>10 DEF DisableCall, UnloadCall
    <2>2. /\ LTypes'
          /\ \A d \in Callers \ {c} : pc'[d] = pc[d] /\ plugin'[d] = plugin[d]
      BY <1>0, <1>n, <2>1, LoaderMoves DEF LTypes
    <2>3. ASSUME NEW q \in Plugins, Quiet(q)' PROVE Quiet(q)
      <3>1. BeingEnabled(q) => BeingEnabled(q)'
        BY <1>0, <2>1, <2>2, StillEnabling DEF Enabling
      <3> QED BY <2>1, <2>3, <3>1 DEF Quiet
    <2>4. HInv' /\ Members(hooks') = Members(hooks) BY <1>h, <2>1
    <2>5. DisabledIsSilent' BY <1>0, <2>3, <2>4, SilenceKept
    <2> QED BY <2>2, <2>4, <2>5 DEF LInv
  <1>11. ASSUME NEW p \in Plugins, UpdateConfig(p) PROVE LInv'
    <2>1. SetPluginConfig(p) /\ UNCHANGED <<hookVars, status, loaded, pc, plugin>>
      BY <1>11 DEF UpdateConfig
    <2>2. LTypes' BY <1>0, <2>1, LoaderMoves DEF LTypes
    <2>3. HInv' /\ Members(hooks') = Members(hooks) BY <1>h, <2>1
    <2>4. \A q : Quiet(q)' <=> Quiet(q) BY <2>1 DEF Quiet, BeingEnabled
    <2>5. DisabledIsSilent' BY <1>0, <2>3, <2>4, SilenceKept
    <2> QED BY <2>2, <2>3, <2>5 DEF LInv
  <1>12. ASSUME Restart PROVE LInv'
    <2>1. hooks' = <<>> /\ tracked' = {} /\ issued' = 0 /\ clock' = 0
          /\ chains' = [c \in Chains |-> Idle]
      BY <1>12 DEF Restart
    <2>2. Members(hooks') = {} /\ hooks' \in Seq(Registrations) /\ Distinct(hooks')
      BY <2>1 DEF Members, Distinct
    <2>3. Idle \in ChainRecords /\ ChainGood(Idle, ArrayOf(Idle, hooks')) BY HooksStart
    <2>4. issued' \in 0..MaxHooks /\ clock' \in 0..MaxHooks BY <2>1 DEF HookAssumption
    <2>5. HInv' BY <2>1, <2>2, <2>3, <2>4 DEF HInv
    <2>6. LTypes' BY <1>0, <1>12 DEF Restart, LTypes, Statuses, Points
    <2>7. DisabledIsSilent' BY <1>0, <2>2, SilenceKept
    <2> QED BY <2>5, <2>6, <2>7 DEF LInv
  <1>13. ASSUME UNCHANGED vars PROVE LInv'
    <2>1. HInv' /\ Members(hooks') = Members(hooks) BY <1>h, <1>13 DEF vars
    <2>2. LTypes' /\ \A p : Quiet(p)' <=> Quiet(p) BY <1>u, <1>13 DEF vars
    <2>3. DisabledIsSilent' BY <1>0, <2>1, <2>2, SilenceKept
    <2> QED BY <2>1, <2>2, <2>3 DEF LInv
  <1> QED BY <1>1, <1>2, <1>3, <1>4, <1>5, <1>6, <1>7, <1>8, <1>9, <1>10, <1>11, <1>12, <1>13
          DEF Next

\* What the invariant says of the chains, and of a chain that runs out of handlers.
LEMMA LoaderSafe ==
    ASSUME HookAssumption, LInv
    PROVE  /\ TypeOK /\ HooksAreTracked /\ NoneRepeated
           /\ \A c \in Chains : Passes(c) /\ ~chains[c].cut =>
                  chains[c].base \subseteq Members(chains[c].called)
  <1>1. HInv /\ LTypes BY DEF LInv
  <1>2. TypeOK BY <1>1 DEF TypeOK, HooksTypeOK, HInv, LTypes
  <1>3. HooksAreTracked BY <1>1 DEF HooksAreTracked, HInv
  <1>4. NoneRepeated
    <2>1. ASSUME NEW c \in Chains, ~chains[c].grown PROVE Distinct(chains[c].called)
      <3>1. chains[c] \in ChainRecords /\ ChainGood(chains[c], ArrayOf(chains[c], hooks))
        BY <1>1 DEF HInv
      <3>2. CASE chains[c].state = "awaiting" BY <2>1, <3>1, <3>2 DEF ChainGood, Walking
      <3>3. CASE chains[c].state = "idle"
        <4>1. chains[c].called = <<>> BY <3>1, <3>3 DEF ChainGood
        <4> QED BY <4>1 DEF Distinct
      <3> QED BY <3>1, <3>2, <3>3 DEF ChainRecords
    <2> QED BY <2>1 DEF NoneRepeated, Distinct
  <1>5. ASSUME NEW c \in Chains, Passes(c), ~chains[c].cut
        PROVE  chains[c].base \subseteq Members(chains[c].called)
    BY <1>1, <1>5, SettlesKeeps DEF Passes
  <1> QED BY <1>2, <1>3, <1>4, <1>5

\* The invariant holds of every state.
LEMMA LoaderAlways == Spec => []LInv
  <1>1. Init => LInv BY HookAssumption, LoaderStart
  <1>2. LInv /\ [Next]_vars => LInv' BY HookAssumption, LoaderAssumption, LoaderKept
  <1> QED BY <1>1, <1>2, PTL DEF Spec

\* Every variable keeps its type, however the calls for a plugin overlap.
THEOREM LoaderTypes == Spec => []TypeOK
  <1>1. LInv => TypeOK BY HookAssumption, LoaderSafe
  <1> QED BY <1>1, LoaderAlways, PTL

\* Every hook in the array is its plugin's in pluginHooks too.
THEOREM EveryHookIsTracked == Spec => []HooksAreTracked
  <1>1. LInv => HooksAreTracked BY HookAssumption, LoaderSafe
  <1> QED BY <1>1, LoaderAlways, PTL

\* No disabled plugin has a hook, unless it is being enabled again.
THEOREM DisabledPluginsAreSilent == Spec => []DisabledIsSilent
  <1>1. LInv => DisabledIsSilent BY DEF LInv
  <1> QED BY <1>1, LoaderAlways, PTL

\* No chain calls a handler twice, unless a registration moved its array.
THEOREM NoHandlerTwice == Spec => []NoneRepeated
  <1>1. LInv => NoneRepeated BY HookAssumption, LoaderSafe
  <1> QED BY <1>1, LoaderAlways, PTL

\* No chain passes a handler over, unless a hook was taken out of its array.
THEOREM NoHandlerSkipped == Spec => NoneSkipped
  <1>1. LInv => \A c \in Chains : Passes(c) /\ ~chains[c].cut =>
                    chains[c].base \subseteq Members(chains[c].called)
    BY HookAssumption, LoaderSafe
  <1> QED BY <1>1, LoaderAlways, PTL DEF NoneSkipped

-----------------------------------------------------------------------------
\* The order of the handlers

\* What is in order for a chain with the record k that walks w: its array, and,
\* until a registration moves the array, what it has called, and that before what
\* is ahead of its iterator.
Ordered(k, w) ==
    /\ InOrder(w)
    /\ ~k.grown =>
          /\ InOrder(k.called)
          /\ \A r \in Members(k.called), s \in Ahead(k, w) : r.priority <= s.priority

OInv ==
    /\ InOrder(hooks)
    /\ \A c \in Chains :
          chains[c].state = "awaiting" => Ordered(chains[c], ArrayOf(chains[c], hooks))

\* A registration keeps the array in order, and the chains whose array it was are
\* no longer counted.
LEMMA RegisterOrders ==
    ASSUME HookAssumption, HInv, OInv, NEW p \in Plugins, NEW q \in Priorities, Register(p, q)
    PROVE  OInv'
  <1>1. PICK at \in {clock, issued + 1}, k \in 0..Len(hooks) :
            /\ \A i \in 1..Len(hooks) : i <= k <=> hooks[i].priority <= q
            /\ hooks' = InsertAt(hooks, k, [plugin |-> p, priority |-> q,
                                            at |-> at, n |-> issued + 1])
    BY DEF Register
  <1> DEFINE r == [plugin |-> p, priority |-> q, at |-> at, n |-> issued + 1]
  <1>2. /\ issued \in Nat /\ issued < MaxHooks /\ clock \in 0..MaxHooks /\ MaxHooks \in Nat
        /\ hooks \in Seq(Registrations) /\ InOrder(hooks)
        /\ chains' = [c \in Chains |-> [chains[c] EXCEPT !.grown = @ \/ OnLive(c)]]
    BY DEF Register, HInv, OInv, HookAssumption
  <1>3. r \in Registrations /\ r.priority = q BY <1>2 DEF Registrations
  <1> HIDE DEF r
  <1>4. InOrder(hooks') BY <1>1, <1>2, <1>3, InsertInOrder DEF r
  <1>5. ASSUME NEW c \in Chains, chains'[c].state = "awaiting"
        PROVE  Ordered(chains'[c], ArrayOf(chains'[c], hooks'))
    <2> DEFINE h == chains[c]
               g == [h EXCEPT !.grown = @ \/ OnLive(c)]
    <2>1. chains'[c] = g /\ h \in ChainRecords BY <1>2 DEF HInv
    <2>2. /\ g.state = h.state /\ g.index = h.index /\ g.apart = h.apart
          /\ g.walked = h.walked /\ g.called = h.called /\ (g.grown <=> h.grown \/ OnLive(c))
      BY <2>1 DEF ChainRecords
    <2>3. h.state = "awaiting" => Ordered(h, ArrayOf(h, hooks)) BY DEF OInv
    <2>4. OnLive(c) <=> h.state = "awaiting" /\ ~h.apart BY DEF OnLive
    <2> HIDE DEF h, g
    <2>5. CASE h.apart
      <3>1. ArrayOf(g, hooks') = h.walked /\ ArrayOf(h, hooks) = h.walked
        BY <2>2, <2>5 DEF ArrayOf
      <3>2. Ahead(g, h.walked) = Ahead(h, h.walked) BY <2>2 DEF Ahead
      <3>3. Ordered(h, h.walked) BY <1>5, <2>1, <2>2, <2>3, <3>1
      <3>4. Ordered(g, h.walked) BY <2>2, <3>2, <3>3 DEF Ordered
      <3> QED BY <2>1, <3>1, <3>4
    <2>6. CASE ~h.apart
      <3>1. ArrayOf(g, hooks') = hooks' /\ g.grown
        BY <1>5, <2>1, <2>2, <2>4, <2>6 DEF ArrayOf
      <3>2. Ordered(g, hooks') BY <1>4, <3>1 DEF Ordered
      <3> QED BY <2>1, <3>1, <3>2
    <2> QED BY <2>5, <2>6
  <1> QED BY <1>4, <1>5 DEF OInv

\* Nor does a splice disturb the order, in front of an iterator or behind it.
LEMMA UnregisterOrders ==
    ASSUME HInv, OInv, NEW p, NEW at, Unregister(p, at)
    PROVE  OInv'
  <1>1. PICK k \in 1..Len(hooks) : hooks' = RemoveIndex(hooks, k) BY DEF Unregister
  <1>2. /\ hooks \in Seq(Registrations) /\ InOrder(hooks)
        /\ chains' = [c \in Chains |-> [chains[c] EXCEPT !.cut = @ \/ OnLive(c)]]
    BY DEF Unregister, HInv, OInv
  <1>3. InOrder(hooks') BY <1>1, <1>2, RemoveInOrder
  <1>4. ASSUME NEW c \in Chains, chains'[c].state = "awaiting"
        PROVE  Ordered(chains'[c], ArrayOf(chains'[c], hooks'))
    <2> DEFINE h == chains[c]
               g == [h EXCEPT !.cut = @ \/ OnLive(c)]
    <2>1. chains'[c] = g /\ h \in ChainRecords BY <1>2 DEF HInv
    <2>2. /\ g.state = h.state /\ g.index = h.index /\ g.apart = h.apart
          /\ g.walked = h.walked /\ g.called = h.called /\ g.grown = h.grown
      BY <2>1 DEF ChainRecords
    <2>3. h.state = "awaiting" => Ordered(h, ArrayOf(h, hooks)) BY DEF OInv
    <2>4. h.index \in Nat BY <2>1 DEF ChainRecords
    <2> HIDE DEF h, g
    <2>5. CASE h.apart
      <3>1. ArrayOf(g, hooks') = h.walked /\ ArrayOf(h, hooks) = h.walked
        BY <2>2, <2>5 DEF ArrayOf
      <3>2. Ahead(g, h.walked) = Ahead(h, h.walked) BY <2>2 DEF Ahead
      <3>3. Ordered(h, h.walked) BY <1>4, <2>1, <2>2, <2>3, <3>1
      <3>4. Ordered(g, h.walked) BY <2>2, <3>2, <3>3 DEF Ordered
      <3> QED BY <2>1, <3>1, <3>4
    <2>6. CASE ~h.apart
      <3>1. ArrayOf(g, hooks') = hooks' /\ ArrayOf(h, hooks) = hooks
        BY <2>2, <2>6 DEF ArrayOf
      <3>2. Ahead(h, hooks') \subseteq Ahead(h, hooks) BY <1>1, <1>2, <2>4, RemoveAhead
      <3>3. Ahead(g, hooks') = Ahead(h, hooks') BY <2>2 DEF Ahead
      <3>4. Ordered(h, hooks) BY <1>4, <2>1, <2>2, <2>3, <3>1
      <3>5. Ordered(g, hooks') BY <1>3, <2>2, <3>2, <3>3, <3>4 DEF Ordered
      <3> QED BY <2>1, <3>1, <3>5
    <2> QED BY <2>5, <2>6
  <1> QED BY <1>3, <1>4 DEF OInv

\* filter keeps the order, and the chains go on with the old array, in its order.
LEMMA UnregisterPluginOrders ==
    ASSUME HInv, OInv, NEW p, UnregisterPlugin(p)
    PROVE  OInv'
  <1>1. CASE UNCHANGED <<hooks, chains>> BY <1>1 DEF OInv
  <1>2. CASE /\ FilteredOut(p)
             /\ chains' = [c \in Chains |->
                    IF OnLive(c)
                    THEN [chains[c] EXCEPT !.apart = TRUE, !.walked = hooks]
                    ELSE chains[c]]
    <2>1. InOrder(hooks') BY <1>2, FilterFacts DEF HInv, OInv
    <2>2. ASSUME NEW c \in Chains, chains'[c].state = "awaiting"
          PROVE  Ordered(chains'[c], ArrayOf(chains'[c], hooks'))
      <3> DEFINE h == chains[c]
                 g == [h EXCEPT !.apart = TRUE, !.walked = hooks]
      <3>1. chains'[c] = (IF OnLive(c) THEN g ELSE h) /\ h \in ChainRecords
        BY <1>2 DEF HInv
      <3>2. /\ g.state = h.state /\ g.index = h.index /\ g.apart
            /\ g.walked = hooks /\ g.called = h.called /\ g.grown = h.grown
        BY <3>1 DEF ChainRecords
      <3>3. h.state = "awaiting" => Ordered(h, ArrayOf(h, hooks)) BY DEF OInv
      <3>4. OnLive(c) <=> h.state = "awaiting" /\ ~h.apart BY DEF OnLive
      <3> HIDE DEF h, g
      <3>5. CASE OnLive(c)
        <4>1. ArrayOf(g, hooks') = hooks /\ ArrayOf(h, hooks) = hooks
          BY <3>2, <3>4, <3>5 DEF ArrayOf
        <4>2. Ahead(g, hooks) = Ahead(h, hooks) BY <3>2 DEF Ahead
        <4>3. Ordered(h, hooks) BY <3>3, <3>4, <3>5, <4>1
        <4>4. Ordered(g, hooks) BY <3>2, <4>2, <4>3 DEF Ordered
        <4> QED BY <3>1, <3>5, <4>1, <4>4
      <3>6. CASE ~OnLive(c)
        <4>1. h.state = "awaiting" /\ h.apart BY <2>2, <3>1, <3>4, <3>6
        <4>2. ArrayOf(h, hooks') = ArrayOf(h, hooks) BY <4>1 DEF ArrayOf
        <4> QED BY <3>1, <3>3, <3>6, <4>1, <4>2
      <3> QED BY <3>5, <3>6
    <2> QED BY <2>1, <2>2 DEF OInv
  <1> QED BY <1>1, <1>2 DEF UnregisterPlugin

\* A chain that changes alone keeps the order of the others.
LEMMA OneOrdered ==
    ASSUME HInv, OInv, NEW c \in Chains, NEW k,
           k.state = "awaiting" => Ordered(k, ArrayOf(k, hooks)),
           chains' = [chains EXCEPT ![c] = k], UNCHANGED hooks
    PROVE  OInv'
  <1>1. chains \in [Chains -> ChainRecords] BY DEF HInv
  <1>2. ASSUME NEW d \in Chains, chains'[d].state = "awaiting"
        PROVE  Ordered(chains'[d], ArrayOf(chains'[d], hooks'))
    <2>1. CASE d = c
      <3>1. chains'[d] = k BY <1>1, <2>1
      <3> QED BY <1>2, <3>1
    <2>2. CASE d # c
      <3>1. chains'[d] = chains[d] BY <1>1, <2>2
      <3> QED BY <1>2, <3>1 DEF OInv
    <2> QED BY <2>1, <2>2
  <1> QED BY <1>2 DEF OInv

\* The first handler of an array in order comes before the others.
LEMMA ExecuteOrders ==
    ASSUME HInv, OInv, NEW c \in Chains, Execute(c)
    PROVE  OInv'
  <1> DEFINE k == [Idle EXCEPT !.state = "awaiting", !.index = 1,
                               !.called = <<hooks[1]>>, !.base = Members(hooks)]
  <1>1. hooks \in Seq(Registrations) /\ Len(hooks) \in Nat /\ InOrder(hooks)
    BY DEF HInv, OInv
  <1>2. 1 \in 1..Len(hooks) BY <1>1 DEF Execute
  <1>3. k.index = 1 /\ k.apart = FALSE /\ k.called = <<hooks[1]>> BY DEF Idle
  <1>4. chains' = [chains EXCEPT ![c] = k] /\ UNCHANGED hooks BY DEF Execute
  <1> HIDE DEF k
  <1>5. Ahead(k, hooks) = {hooks[j] : j \in 2..Len(hooks)} BY <1>3 DEF Ahead
  <1>6. Members(k.called) = {hooks[1]} /\ Len(k.called) = 1 BY <1>3 DEF Members
  <1>7. InOrder(k.called)
    <2>1. \A i, j \in 1..Len(k.called) : ~(i < j) BY <1>6
    <2> QED BY <2>1 DEF InOrder
  <1>8. ASSUME NEW j \in 2..Len(hooks) PROVE hooks[1].priority <= hooks[j].priority
    <2>1. j \in 1..Len(hooks) /\ 1 < j BY <1>1
    <2> QED BY <1>1, <1>2, <2>1 DEF InOrder
  <1>9. Ordered(k, hooks) BY <1>1, <1>5, <1>6, <1>7, <1>8 DEF Ordered
  <1>10. ArrayOf(k, hooks) = hooks BY <1>3 DEF ArrayOf
  <1> QED BY <1>4, <1>9, <1>10, OneOrdered

\* The handler that is called next is not before those called so far, nor behind
\* those ahead.
LEMMA SettlesOrders ==
    ASSUME HInv, OInv, NEW c \in Chains, HandlerSettles(c)
    PROVE  OInv'
  <1> DEFINE h == chains[c]
             w == Walk(c)
             next == h.index + 1
             k == [h EXCEPT !.index = next, !.called = Append(h.called, w[next])]
  <1>1. h \in ChainRecords /\ ChainGood(h, ArrayOf(h, hooks)) /\ h.state = "awaiting"
    BY DEF HInv, HandlerSettles
  <1>2. w = ArrayOf(h, hooks) BY DEF Walk, ArrayOf
  <1>3. Walking(h, w) /\ Ordered(h, w) BY <1>1, <1>2 DEF ChainGood, OInv
  <1>4. chains' = [chains EXCEPT ![c] = IF next <= Len(w) THEN k ELSE Idle] /\ UNCHANGED hooks
    <2>1. chains' = [chains EXCEPT ![c] = IF next <= Len(w) THEN k ELSE Idle]
      BY DEF HandlerSettles
    <2> QED BY <2>1 DEF HandlerSettles
  <1>5. /\ k.apart = h.apart /\ k.walked = h.walked /\ k.index = h.index + 1
        /\ k.called = Append(h.called, w[next]) /\ k.grown = h.grown
    BY <1>1 DEF ChainRecords
  <1>6. h.index \in Nat /\ h.called \in Seq(Registrations) /\ Len(w) \in Nat
    <2>1. w \in Seq(Registrations) BY <1>3 DEF Walking
    <2> QED BY <1>1, <2>1 DEF ChainRecords
  <1>7. CASE next <= Len(w)
    <2>1. next \in 1..Len(w) /\ next \in (h.index + 1)..Len(w) BY <1>6, <1>7
    <2>2. chains' = [chains EXCEPT ![c] = k] BY <1>4, <1>7
    <2> DEFINE r == w[next]
               s == h.called
    <2> HIDE DEF h, w, k
    <2>3. /\ Len(k.called) = Len(s) + 1 /\ Len(s) \in Nat
          /\ \A i \in 1..Len(s) : k.called[i] = s[i]
          /\ k.called[Len(s) + 1] = r
      BY <1>5, <1>6
    <2>4. r \in Ahead(h, w) BY <2>1 DEF Ahead
    <2>5. ASSUME NEW x \in Ahead(k, w) PROVE x \in Ahead(h, w) /\ r.priority <= x.priority
      <3>1. PICK j \in (k.index + 1)..Len(w) : x = w[j] BY DEF Ahead
      <3>2. j \in (h.index + 1)..Len(w) /\ j \in 1..Len(w) /\ next < j BY <1>5, <1>6, <3>1
      <3>3. w[next].priority <= w[j].priority BY <1>3, <2>1, <3>2 DEF Ordered, InOrder
      <3> QED BY <3>1, <3>2, <3>3 DEF Ahead
    <2>6. ASSUME ~k.grown
          PROVE  /\ InOrder(k.called)
                 /\ \A x \in Members(k.called), y \in Ahead(k, w) : x.priority <= y.priority
      <3>1. /\ InOrder(s)
            /\ \A x \in Members(s), y \in Ahead(h, w) : x.priority <= y.priority
        BY <1>3, <1>5, <2>6 DEF Ordered
      <3>2. ASSUME NEW i \in 1..Len(k.called), NEW j \in 1..Len(k.called), i < j
            PROVE  k.called[i].priority <= k.called[j].priority
        <4>1. i \in 1..Len(s) /\ k.called[i] = s[i] /\ s[i] \in Members(s)
          BY <2>3, <3>2 DEF Members
        <4>2. CASE j <= Len(s)
          <5>1. j \in 1..Len(s) /\ k.called[j] = s[j] BY <2>3, <4>2
          <5> QED BY <3>1, <3>2, <4>1, <5>1 DEF InOrder
        <4>3. CASE j > Len(s)
          <5>1. k.called[j] = r BY <2>3, <4>3
          <5> QED BY <2>4, <3>1, <4>1, <5>1
        <4> QED BY <2>3, <4>2, <4>3
      <3>3. ASSUME NEW x \in Members(k.called), NEW y \in Ahead(k, w)
            PROVE  x.priority <= y.priority
        <4>1. PICK i \in 1..Len(k.called) : x = k.called[i] BY DEF Members
        <4>2. CASE i <= Len(s)
          <5>1. x \in Members(s) BY <2>3, <4>1, <4>2 DEF Members
          <5> QED BY <2>5, <3>1, <5>1
        <4>3. CASE i > Len(s)
          <5>1. x = r BY <2>3, <4>1, <4>3
          <5> QED BY <2>5, <5>1
        <4> QED BY <2>3, <4>2, <4>3
      <3>4. InOrder(k.called) BY <3>2 DEF InOrder
      <3> QED BY <3>3, <3>4
    <2>7. Ordered(k, w) BY <1>3, <2>6 DEF Ordered
    <2>8. ArrayOf(k, hooks) = w BY <1>2, <1>5 DEF ArrayOf
    <2> QED BY <1>4, <2>2, <2>7, <2>8, OneOrdered
  <1>8. CASE ~(next <= Len(w))
    <2>1. chains' = [chains EXCEPT ![c] = Idle] BY <1>4, <1>8
    <2>2. Idle.state # "awaiting" BY DEF Idle
    <2> QED BY <1>4, <2>1, <2>2, OneOrdered
  <1> QED BY <1>7, <1>8

\* Every step keeps the array and the chains in order.
LEMMA OrderKept ==
    ASSUME HookAssumption, LInv, OInv, [Next]_vars
    PROVE  OInv'
  <1>0. HInv /\ LTypes BY DEF LInv
  <1>p. \A c \in Callers : pc[c] # "idle" => plugin[c] \in Plugins BY <1>0 DEF LTypes
  <1>h. ASSUME UNCHANGED hookVars PROVE OInv' BY <1>h DEF OInv, hookVars
  <1>1. ASSUME NEW c \in Chains, HandlerStops(c) PROVE OInv'
    <2>1. chains' = [chains EXCEPT ![c] = Idle] /\ UNCHANGED hooks BY <1>1 DEF HandlerStops
    <2>2. Idle.state # "awaiting" BY DEF Idle
    <2> QED BY <1>0, <2>1, <2>2, OneOrdered
  <1>2. ASSUME HooksNext PROVE OInv'
    BY <1>0, <1>1, <1>2, ExecuteOrders, SettlesOrders, UnregisterOrders DEF HooksNext
  <1>3. ASSUME NEW c \in Callers, NEW q \in Priorities, RegisterHook(c, q) PROVE OInv'
    <2>1. Register(plugin[c], q) /\ plugin[c] \in Plugins
      BY <1>3, <1>p DEF RegisterHook, Enabling
    <2> QED BY <1>0, <2>1, RegisterOrders
  <1>4. ASSUME NEW c \in Callers, Disabled(c) PROVE OInv'
    <2>1. UnregisterPlugin(plugin[c]) BY <1>4 DEF Disabled
    <2> QED BY <1>0, <2>1, UnregisterPluginOrders
  <1>5. ASSUME NEW c \in Callers,
               \/ OnLoadResolves(c) \/ OnEnableResolves(c) \/ EnableRejects(c)
               \/ DisableRejects(c) \/ Unloaded(c)
               \/ \E p \in Plugins : EnableCall(c, p) \/ DisableCall(c, p) \/ UnloadCall(c, p)
        PROVE  OInv'
    <2>1. UNCHANGED hookVars
      BY <1>5 DEF OnLoadResolves, OnEnableResolves, EnableRejects, DisableRejects, Unloaded,
                  EnableCall, DisableCall, UnloadCall
    <2> QED BY <1>h, <2>1
  <1>6. ASSUME NEW p \in Plugins, UpdateConfig(p) PROVE OInv'
    BY <1>h, <1>6 DEF UpdateConfig
  <1>7. ASSUME Restart PROVE OInv'
    <2>1. hooks' = <<>> /\ chains' = [c \in Chains |-> Idle] BY <1>7 DEF Restart
    <2>2. Idle.state # "awaiting" BY DEF Idle
    <2>3. InOrder(<<>>) BY DEF InOrder
    <2> QED BY <2>1, <2>2, <2>3 DEF OInv
  <1>8. ASSUME UNCHANGED vars PROVE OInv' BY <1>h, <1>8 DEF vars
  <1> QED BY <1>2, <1>3, <1>4, <1>5, <1>6, <1>7, <1>8 DEF Next

\* A chain calls its handlers by priority until a plugin registers a hook while it
\* is under way: what LowerRunsFirst says of every chain is true of those, however
\* hooks were taken out meanwhile or the array was replaced.
LowerFirstUnlessGrown == \A c \in Chains : ~chains[c].grown => InOrder(chains[c].called)

\* Handlers run in the order of their priorities, unless a registration moved the
\* array of their chain.
THEOREM HandlersInOrder == Spec => []LowerFirstUnlessGrown
  <1>1. ASSUME Init PROVE OInv
    <2>1. hooks = <<>> /\ \A c \in Chains : chains[c] = Idle BY <1>1 DEF Init, HooksInit
    <2>2. Idle.state # "awaiting" BY DEF Idle
    <2>3. InOrder(<<>>) BY DEF InOrder
    <2> QED BY <2>1, <2>2, <2>3 DEF OInv
  <1>2. LInv /\ OInv /\ [Next]_vars => OInv' BY HookAssumption, OrderKept
  <1>3. ASSUME LInv, OInv, NEW c \in Chains, ~chains[c].grown PROVE InOrder(chains[c].called)
    <2>1. chains[c] \in ChainRecords /\ ChainGood(chains[c], ArrayOf(chains[c], hooks))
      BY <1>3 DEF LInv, HInv
    <2>2. CASE chains[c].state = "awaiting" BY <1>3, <2>2 DEF OInv, Ordered
    <2>3. CASE chains[c].state = "idle"
      <3>1. chains[c].called = <<>> BY <2>1, <2>3 DEF ChainGood
      <3> QED BY <3>1 DEF InOrder
    <2> QED BY <2>1, <2>2, <2>3 DEF ChainRecords
  <1>4. LInv /\ OInv => LowerFirstUnlessGrown BY <1>3 DEF LowerFirstUnlessGrown
  <1> QED BY <1>1, <1>2, <1>4, LoaderAlways, PTL DEF Spec
=============================================================================
