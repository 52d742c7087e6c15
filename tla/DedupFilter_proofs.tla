------------------------- MODULE DedupFilter_proofs -------------------------
(***************************************************************************)
(* Proofs about DedupFilter, for every set of identities and every         *)
(* capacity.  The queue alone does not say what was admitted before; the   *)
(* invariant that carries the proof is that it is the last part of the     *)
(* history, as long as the capacity allows.  It is stated of a filter and  *)
(* a history, so that it can be followed through the loop that runs        *)
(* several messages through the filter in one handler.                     *)
(***************************************************************************)
EXTENDS DedupFilter, FiniteSetTheorems, SequenceTheorems, NaturalsInduction,
        WellFoundedInduction, TLAPS

\* The queue lists the last identities of the history.
Recent(q, adm) ==
  /\ \/ Len(q) = MaxTracked
     \/ Len(q) = Len(adm)
  /\ Len(q) <= Len(adm)
  /\ \A i \in 1..Len(q) : q[i] = adm[Len(adm) - Len(q) + i]

\* No identity comes twice among MaxTracked + 1 successive ones.
Spaced(adm) ==
  \A i, j \in 1..Len(adm) : i < j /\ adm[i] = adm[j] => j - i > MaxTracked

\* The set S and the queue q list the same identities, each once.
InStep(S, q) ==
  /\ S \subseteq MsgIds /\ IsFiniteSet(S)
  /\ q \in Seq(MsgIds)
  /\ S = {q[i] : i \in 1..Len(q)}
  /\ Cardinality(S) = Len(q)
  /\ \A i, j \in 1..Len(q) : q[i] = q[j] => i = j

\* A filter whose set and queue are in step.
WellFormed(f) ==
  /\ f = [seen |-> f.seen, order |-> f.order]
  /\ InStep(f.seen, f.order)

\* What holds of a filter and its history whenever a handler is done.
Sound(f, adm) ==
  /\ WellFormed(f)
  /\ Len(f.order) <= MaxTracked
  /\ adm \in Seq(MsgIds)
  /\ Recent(f.order, adm)
  /\ Spaced(adm)

----------------------------------------------------------------------------

\* The eviction keeps the set and the queue in step, makes room, and moves the
\* queue to the later part of the history.
LEMMA EvictIs ==
  ASSUME NEW g, NEW adm, Sound(g, adm)
  PROVE  LET f == Evict(g)
         IN /\ WellFormed(f)
            /\ Len(f.order) < MaxTracked
            /\ Len(f.order) + 1 = MaxTracked \/ f = g
            /\ f.seen \subseteq g.seen
            /\ Len(f.order) <= Len(adm)
            /\ \A i \in 1..Len(f.order) :
                 f.order[i] = adm[Len(adm) - Len(f.order) + i]
<1> DEFINE f == Evict(g)
<1> DEFINE old == g.order
<1>1. /\ g = [seen |-> g.seen, order |-> g.order]
      /\ g.seen \in SUBSET MsgIds /\ old \in Seq(MsgIds)
      /\ Len(old) \in Nat /\ MaxTracked \in Nat \ {0}
      /\ adm \in Seq(MsgIds) /\ Len(adm) \in Nat
  BY DedupAssumption DEF Sound, WellFormed, InStep
<1>2. CASE ~(Cardinality(g.seen) >= MaxTracked /\ old # << >>)
  <2>1. f = g
    BY <1>2 DEF Evict
  <2>2. Len(old) < MaxTracked
    <3>1. CASE old = << >>
      BY <1>1, <3>1
    <3>2. CASE old # << >>
      BY <1>1, <1>2, <3>2 DEF Sound, WellFormed, InStep
    <3> QED
      BY <3>1, <3>2
  <2>3. WellFormed(g)
    BY <1>1 DEF Sound
  <2> QED
    BY <2>1, <2>2, <2>3 DEF Sound, Recent
<1>3. CASE Cardinality(g.seen) >= MaxTracked /\ old # << >>
  <2>1. /\ f = [seen |-> g.seen \ {Head(old)}, order |-> Tail(old)]
        /\ f.seen = g.seen \ {Head(old)} /\ f.order = Tail(old)
    BY <1>3 DEF Evict
  <2>2. /\ Len(old) = MaxTracked /\ Cardinality(g.seen) = Len(old)
    BY <1>1, <1>3 DEF Sound, WellFormed, InStep
  <2>3. /\ Head(old) = old[1]
        /\ Tail(old) \in Seq(MsgIds) /\ Len(Tail(old)) = Len(old) - 1
        /\ \A i \in 1..Len(Tail(old)) : Tail(old)[i] = old[i + 1]
    BY <1>1, <1>3, HeadTailProperties
  <2>4. \A i, j \in 1..Len(old) : old[i] = old[j] => i = j
    BY DEF Sound, WellFormed, InStep
  <2>5. g.seen = {old[i] : i \in 1..Len(old)}
    BY DEF Sound, WellFormed, InStep
  <2>6. Head(old) \in g.seen
    BY <1>1, <2>2, <2>3, <2>5
  <2>7. IsFiniteSet(f.seen) /\ Cardinality(f.seen) = Len(old) - 1
    BY <2>1, <2>2, <2>6, FS_RemoveElement DEF Sound, WellFormed, InStep
  <2>8. f.seen = {f.order[i] : i \in 1..Len(f.order)}
    <3> HIDE DEF f, old
    <3>1. ASSUME NEW x \in f.seen PROVE x \in {f.order[i] : i \in 1..Len(f.order)}
      <4>1. PICK i \in 1..Len(old) : x = old[i]
        BY <2>1, <2>5, <3>1
      <4>2. i # 1
        BY <2>1, <2>3, <3>1, <4>1
      <4>3. i - 1 \in 1..Len(Tail(old)) /\ Tail(old)[i - 1] = old[i]
        BY <1>1, <2>3, <4>1, <4>2
      <4> QED
        BY <2>1, <4>1, <4>3
    <3>2. ASSUME NEW i \in 1..Len(f.order) PROVE f.order[i] \in f.seen
      <4>1. i + 1 \in 1..Len(old) /\ f.order[i] = old[i + 1] /\ 1 \in 1..Len(old)
            /\ i + 1 # 1
        BY <1>1, <2>1, <2>3, <3>2
      <4>2. old[i + 1] # old[1]
        BY <2>4, <4>1
      <4> QED
        BY <2>1, <2>3, <2>5, <4>1, <4>2
    <3> QED
      BY <3>1, <3>2
  <2>9. \A i, j \in 1..Len(f.order) : f.order[i] = f.order[j] => i = j
    <3> HIDE DEF f, old
    <3> TAKE i, j \in 1..Len(f.order)
    <3>1. i + 1 \in 1..Len(old) /\ j + 1 \in 1..Len(old)
      BY <1>1, <2>1, <2>3
    <3>2. f.order[i] = old[i + 1] /\ f.order[j] = old[j + 1]
      BY <2>1, <2>3
    <3>3. i \in Nat /\ j \in Nat
      BY <1>1, <2>1, <2>3
    <3>4. f.order[i] = f.order[j] => i + 1 = j + 1
      BY <2>4, <3>1, <3>2
    <3> QED
      BY <3>3, <3>4
  <2>10. WellFormed(f) /\ f.seen \subseteq g.seen
    <3> HIDE DEF f, old
    <3> QED
      BY <1>1, <2>1, <2>2, <2>3, <2>7, <2>8, <2>9 DEF WellFormed, InStep
  <2>11. /\ Len(f.order) <= Len(adm)
         /\ \A i \in 1..Len(f.order) :
              f.order[i] = adm[Len(adm) - Len(f.order) + i]
    <3>1. /\ Len(old) <= Len(adm)
          /\ \A i \in 1..Len(old) : old[i] = adm[Len(adm) - Len(old) + i]
      BY DEF Sound, Recent
    <3> HIDE DEF f, old
    <3>2. ASSUME NEW i \in 1..Len(f.order)
          PROVE  f.order[i] = adm[Len(adm) - Len(f.order) + i]
      <4>1. /\ i + 1 \in 1..Len(old) /\ f.order[i] = old[i + 1]
            /\ Len(adm) - Len(old) + (i + 1) = Len(adm) - Len(f.order) + i
        BY <1>1, <2>1, <2>3, <3>2
      <4> QED
        BY <3>1, <4>1
    <3> QED
      BY <1>1, <2>1, <2>3, <3>1, <3>2
  <2> HIDE DEF f, old
  <2> QED
    BY <1>1, <2>1, <2>2, <2>3, <2>10, <2>11 DEF f
<1> QED
  BY <1>2, <1>3

\* The queue r is q with one more identity at its end.
OneMore(q, id, r) ==
  /\ Len(r) = Len(q) + 1
  /\ r[Len(q) + 1] = id
  /\ \A i \in 1..Len(q) : r[i] = q[i]

\* One more identity at the end of the queue and in the set.
LEMMA AppendInStep ==
  ASSUME NEW S, NEW q, InStep(S, q), NEW id \in MsgIds, id \notin S,
         NEW r, r = Append(q, id)
  PROVE  InStep(S \cup {id}, r) /\ OneMore(q, id, r)
<1>1. q \in Seq(MsgIds) /\ Len(q) \in Nat
  BY DEF InStep
<1>2. /\ r \in Seq(MsgIds) /\ Len(r) = Len(q) + 1
      /\ \A i \in 1..Len(q) : r[i] = q[i]
      /\ r[Len(q) + 1] = id
  BY <1>1, AppendProperties
<1>3. IsFiniteSet(S \cup {id}) /\ Cardinality(S \cup {id}) = Len(q) + 1
  BY FS_AddElement DEF InStep
<1>4. \A i \in 1..Len(r) : i \in 1..Len(q) \/ i = Len(q) + 1
  BY <1>1, <1>2
<1>5. \A i \in 1..Len(q) : i \in 1..Len(r) /\ q[i] \in S
  BY <1>1, <1>2 DEF InStep
<1>6. Len(q) + 1 \in 1..Len(r)
  BY <1>1, <1>2
<1>7. \A x \in S : \E i \in 1..Len(q) : x = q[i]
  BY DEF InStep
<1>8. S \cup {id} = {r[i] : i \in 1..Len(r)}
  <2>1. ASSUME NEW x \in S PROVE \E i \in 1..Len(r) : x = r[i]
    <3>1. PICK i \in 1..Len(q) : x = q[i]
      BY <1>7, <2>1
    <3> QED
      BY <1>2, <1>5, <3>1
  <2>2. ASSUME NEW i \in 1..Len(r) PROVE r[i] \in S \cup {id}
    BY <1>2, <1>4, <1>5
  <2>3. \E i \in 1..Len(r) : id = r[i]
    BY <1>2, <1>6
  <2> QED
    BY <2>1, <2>2, <2>3
<1>9. ASSUME NEW i \in 1..Len(r), NEW j \in 1..Len(r), r[i] = r[j] PROVE i = j
  <2>1. \A h, k \in 1..Len(q) : q[h] = q[k] => h = k
    BY DEF InStep
  <2> QED
    BY <1>2, <1>4, <1>5, <1>9, <2>1
<1>10. S \cup {id} \subseteq MsgIds
  BY DEF InStep
<1> QED
  BY <1>2, <1>3, <1>8, <1>9, <1>10 DEF InStep, OneMore

\* A filter with room takes one more identity.
LEMMA RememberIs ==
  ASSUME NEW f, WellFormed(f), NEW id \in MsgIds, id \notin f.seen
  PROVE  /\ WellFormed(Remember(f, id))
         /\ Len(Remember(f, id).order) = Len(f.order) + 1
         /\ Remember(f, id).order[Len(f.order) + 1] = id
         /\ \A i \in 1..Len(f.order) : Remember(f, id).order[i] = f.order[i]
<1>1. /\ Remember(f, id).seen = f.seen \cup {id}
      /\ Remember(f, id).order = Append(f.order, id)
      /\ Remember(f, id) = [seen |-> Remember(f, id).seen,
                            order |-> Remember(f, id).order]
  BY DEF Remember
<1>2. InStep(f.seen, f.order)
  BY DEF WellFormed
<1> DEFINE q == f.order
<1> DEFINE r == Append(f.order, id)
<1> HIDE DEF q, r
<1>3. InStep(f.seen \cup {id}, r) /\ OneMore(q, id, r)
  <2>1. InStep(f.seen, q) /\ r = Append(q, id)
    BY <1>2 DEF q, r
  <2> QED
    BY <2>1, AppendInStep
<1>4. WellFormed(Remember(f, id))
  BY <1>1, <1>3 DEF WellFormed, r
<1> QED
  BY <1>1, <1>3, <1>4 DEF q, r, OneMore

\* A new identity: the claims about the filter itself, and about the history.
LEMMA NewIsSound ==
  ASSUME NEW g, NEW adm, Sound(g, adm), NEW id \in MsgIds, ~IsDup(g, id)
  PROVE  Sound(AfterIsDup(g, id), Append(adm, id))
<1> DEFINE f == Evict(g)
<1> DEFINE gg == AfterIsDup(g, id)
<1> DEFINE hh == Append(adm, id)
<1> DEFINE n == Len(adm)
<1> DEFINE k == Len(f.order)
<1>1. /\ adm \in Seq(MsgIds) /\ n \in Nat /\ MaxTracked \in Nat \ {0}
      /\ id \notin g.seen
  BY DedupAssumption DEF Sound, IsDup
<1>2. /\ WellFormed(f) /\ k < MaxTracked /\ id \notin f.seen
      /\ k + 1 = MaxTracked \/ f = g
      /\ k <= n /\ k \in Nat
      /\ \A i \in 1..k : f.order[i] = adm[n - k + i]
  <2>1. WellFormed(f) /\ f.seen \subseteq g.seen
    BY EvictIs
  <2>2. k \in Nat
    BY <2>1 DEF WellFormed, InStep
  <2> QED
    BY <1>1, <2>1, <2>2, EvictIs
<1>3. gg = Remember(f, id) /\ hh = Append(adm, id)
  BY <1>1 DEF AfterIsDup, IsDup
<1>4. k = n \/ k + 1 = MaxTracked
  BY <1>1, <1>2 DEF Sound, Recent
<1> HIDE DEF f, gg, hh, n, k
<1>5. /\ WellFormed(gg)
      /\ Len(gg.order) = k + 1
      /\ gg.order[k + 1] = id
      /\ \A i \in 1..k : gg.order[i] = f.order[i]
  BY <1>2, <1>3, RememberIs DEF k
<1>6. /\ hh \in Seq(MsgIds) /\ Len(hh) = n + 1
      /\ \A i \in 1..n : hh[i] = adm[i]
      /\ hh[n + 1] = id
  BY <1>1, <1>3, AppendProperties DEF n
<1>7. WellFormed(gg) /\ Len(gg.order) <= MaxTracked /\ hh \in Seq(MsgIds)
  BY <1>1, <1>2, <1>5, <1>6
<1>8. Recent(gg.order, hh)
  <2>1. \A i \in 1..(k + 1) : gg.order[i] = hh[(n + 1) - (k + 1) + i]
    <3> TAKE i \in 1..(k + 1)
    <3>1. CASE i = k + 1
      <4>1. (n + 1) - (k + 1) + i = n + 1
        BY <1>1, <1>2, <3>1
      <4> QED
        BY <1>5, <1>6, <3>1, <4>1
    <3>2. CASE i # k + 1
      <4>1. /\ i \in 1..k /\ (n + 1) - (k + 1) + i = n - k + i
            /\ n - k + i \in 1..n
        BY <1>1, <1>2, <3>2
      <4> QED
        BY <1>2, <1>5, <1>6, <4>1
    <3> QED
      BY <3>1, <3>2
  <2>2. /\ k + 1 = MaxTracked \/ k + 1 = n + 1
        /\ k + 1 <= n + 1
    BY <1>1, <1>2, <1>4
  <2> QED
    BY <1>5, <1>6, <2>1, <2>2 DEF Recent
<1>9. Spaced(hh)
  <2> SUFFICES ASSUME NEW i \in 1..(n + 1), NEW j \in 1..(n + 1),
                      i < j, hh[i] = hh[j]
               PROVE  j - i > MaxTracked
    BY <1>6 DEF Spaced
  <2>1. i \in 1..n /\ hh[i] = adm[i]
    BY <1>1, <1>6
  <2>2. CASE j \in 1..n
    <3>1. adm[i] = adm[j]
      BY <1>6, <2>1, <2>2
    <3> QED
      BY <2>1, <2>2, <3>1 DEF Sound, Spaced, n
  <2>3. CASE j = n + 1
    <3>1. adm[i] = id
      BY <1>6, <2>1, <2>3
    <3>2. ASSUME NEW h \in 1..Len(g.order)
          PROVE  adm[n - Len(g.order) + h] # id
      <4>1. g.order[h] \in g.seen
        BY DEF Sound, WellFormed, InStep
      <4>2. g.order[h] = adm[n - Len(g.order) + h]
        BY DEF Sound, Recent, n
      <4> QED
        BY <1>1, <4>1, <4>2
    <3>3. /\ Len(g.order) \in Nat /\ Len(g.order) <= n
          /\ Len(g.order) = MaxTracked \/ Len(g.order) = n
      BY DEF Sound, Recent, WellFormed, InStep, n
    <3>4. i <= n - Len(g.order)
      <4> SUFFICES ASSUME i > n - Len(g.order) PROVE FALSE
        BY <1>1, <2>1, <3>3
      <4> DEFINE l == Len(g.order)
      <4> DEFINE h == i - (n - l)
      <4>0. l \in Nat /\ n \in Nat /\ i \in 1..n
        BY <1>1, <2>1, <3>3
      <4> HIDE DEF l
      <4>1. i > n - l => h \in 1..l /\ n - l + h = i
        BY <4>0
      <4>2. h \in 1..Len(g.order) /\ n - Len(g.order) + h = i
        BY <4>1 DEF l
      <4> HIDE DEF h
      <4> QED
        BY <3>1, <3>2, <4>2
    <3> QED
      BY <1>1, <2>1, <2>3, <3>3, <3>4
  <2> QED
    BY <1>1, <2>2, <2>3
<1> QED
  BY <1>7, <1>8, <1>9 DEF Sound, gg, hh

\* What is sound has the form that the invariants of the filter describe.
LEMMA SoundSays ==
  ASSUME NEW f, NEW adm, Sound(f, adm)
  PROVE  /\ f \in Filters /\ adm \in Seq(MsgIds)
         /\ f.seen = {f.order[i] : i \in 1..Len(f.order)}
         /\ Cardinality(f.seen) = Len(f.order)
         /\ Len(f.order) <= MaxTracked
         /\ Spaced(adm)
BY DEF Sound, WellFormed, InStep, Filters

\* The filter knows only identities that were admitted.
LEMMA SeenWasAdmitted ==
  ASSUME NEW f, NEW adm, Sound(f, adm), NEW id \in f.seen
  PROVE  \E j \in 1..Len(adm) : adm[j] = id
<1>1. PICK i \in 1..Len(f.order) : f.order[i] = id
  BY DEF Sound, WellFormed, InStep
<1>2. /\ Len(f.order) \in Nat /\ Len(adm) \in Nat /\ Len(f.order) <= Len(adm)
      /\ f.order[i] = adm[Len(adm) - Len(f.order) + i]
  BY DEF Sound, WellFormed, InStep, Recent
<1>3. Len(adm) - Len(f.order) + i \in 1..Len(adm)
  BY <1>2
<1> QED
  BY <1>1, <1>2, <1>3

\* The empty filter, before anything was admitted.
LEMMA EmptyIsSound == Sound(NoneSeen, << >>)
<1>1. IsFiniteSet({}) /\ Cardinality({}) = 0
  BY FS_EmptySet
<1>2. NoneSeen.seen = {} /\ NoneSeen.order = << >>
  BY DEF NoneSeen
<1>3. WellFormed(NoneSeen)
  BY <1>1, <1>2 DEF WellFormed, InStep, NoneSeen
<1>4. MaxTracked \in Nat
  BY DedupAssumption
<1> QED
  BY <1>2, <1>3, <1>4 DEF Sound, Recent, Spaced

----------------------------------------------------------------------------
(* The loop over the messages that the tracker released.                   *)

\* A set of numbers with 0, and with n + 1 for each n, has every number.
LEMMA CountingUp ==
  ASSUME NEW S, 0 \in S, \A n \in Nat : n \in S => n + 1 \in S
  PROVE  Nat \subseteq S
<1> SUFFICES ASSUME Nat \ S # {} PROVE FALSE
  OBVIOUS
<1>1. PICK n \in Nat \ S : \A k \in Nat \ S : ~(<<k, n>> \in OpToRel(<, Nat))
  BY WFMin, NatLessThanWellFounded
<1>2. n \in Nat /\ n # 0 /\ n - 1 \in Nat /\ n - 1 < n
  <2>1. n \in Nat /\ n \notin S
    BY <1>1
  <2>2. n # 0
    BY <2>1
  <2> QED
    BY <2>1, <2>2
<1>3. n - 1 \notin Nat \ S
  BY <1>1, <1>2 DEF OpToRel
<1>4. (n - 1) + 1 \in S /\ (n - 1) + 1 = n
  BY <1>2, <1>3
<1> QED
  BY <1>1, <1>4

\* The function g lists what the first n passes of the loop leave.
Passes(g, f, ordered, n) ==
  g = [i \in 0..n |-> IF i = 0 THEN [filter |-> f, processed |-> << >>]
                              ELSE Process(g[i - 1], ordered[i])]

\* The loop is well defined: there is such a function.
LEMMA PassesExist ==
  ASSUME NEW f, NEW ordered, NEW n \in Nat
  PROVE  \E g : Passes(g, f, ordered, n)
<1> DEFINE base == [filter |-> f, processed |-> << >>]
<1> DEFINE S == {k \in Nat : \E g : Passes(g, f, ordered, k)}
<1> HIDE DEF base
<1>1. 0 \in S
  <2>1. Passes([i \in 0..0 |-> base], f, ordered, 0)
    BY DEF Passes, base
  <2> QED
    BY <2>1
<1>2. ASSUME NEW k \in Nat, k \in S PROVE k + 1 \in S
  <2>1. PICK g : Passes(g, f, ordered, k)
    BY <1>2
  <2> DEFINE h == [i \in 0..(k + 1) |->
                     IF i = k + 1 THEN Process(g[k], ordered[k + 1]) ELSE g[i]]
  <2>2. \A i \in 0..k : h[i] = g[i]
    OBVIOUS
  <2>3. Passes(h, f, ordered, k + 1)
    <3>1. ASSUME NEW i \in 0..(k + 1)
          PROVE  h[i] = IF i = 0 THEN base ELSE Process(h[i - 1], ordered[i])
      <4>1. CASE i = 0
        BY <2>1, <2>2, <4>1 DEF Passes, base
      <4>2. CASE i \in 1..k
        <5>1. i - 1 \in 0..k
          BY <4>2
        <5> QED
          BY <2>1, <2>2, <4>2, <5>1 DEF Passes, base
      <4>3. CASE i = k + 1
        <5>1. h[i] = Process(g[k], ordered[k + 1]) /\ i - 1 = k /\ i # 0
          BY <4>3
        <5> QED
          BY <2>2, <4>3, <5>1
      <4> QED
        BY <4>1, <4>2, <4>3
    <3>2. h = [i \in 0..(k + 1) |-> h[i]]
      OBVIOUS
    <3> HIDE DEF h
    <3> QED
      BY <3>1, <3>2 DEF Passes, base
  <2> HIDE DEF h
  <2> QED
    BY <2>3
<1>3. n \in S
  <2> HIDE DEF S
  <2> QED
    BY <1>1, <1>2, CountingUp
<1> QED
  BY <1>3

\* What the loop returns is what its last pass leaves.
LEMMA ProcessAllIs ==
  ASSUME NEW f, NEW ordered, Len(ordered) \in Nat
  PROVE  \E after :
           /\ after[0] = [filter |-> f, processed |-> << >>]
           /\ \A i \in 1..Len(ordered) :
                after[i] = Process(after[i - 1], ordered[i])
           /\ ProcessAll(f, ordered) = after[Len(ordered)]
<1> DEFINE after == CHOOSE g : Passes(g, f, ordered, Len(ordered))
<1>1. \E g : Passes(g, f, ordered, Len(ordered))
  BY PassesExist
<1>2. ProcessAll(f, ordered) = after[Len(ordered)]
  BY DEF ProcessAll, Passes
<1>3. Passes(after, f, ordered, Len(ordered))
  BY <1>1
<1> HIDE DEF after
<1>4. after[0] = [filter |-> f, processed |-> << >>]
  BY <1>3 DEF Passes
<1>5. \A i \in 1..Len(ordered) : after[i] = Process(after[i - 1], ordered[i])
  BY <1>3 DEF Passes
<1> QED
  BY <1>2, <1>4, <1>5

\* The identities of a sequence of messages.
Ids(s) == [i \in 1..Len(s) |-> s[i].msg_id]

\* The identities of a sequence with one more message.
LEMMA IdsOfMore ==
  ASSUME NEW s \in Seq(Messages), NEW m \in Messages
  PROVE  /\ Ids(s) \in Seq(MsgIds)
         /\ Ids(Append(s, m)) = Append(Ids(s), m.msg_id)
<1>1. \A k \in Messages : k.msg_id \in MsgIds
  BY DedupAssumption
<1>2. Len(s) \in Nat /\ \A i \in 1..Len(s) : s[i] \in Messages
  OBVIOUS
<1>3. Ids(s) \in Seq(MsgIds) /\ Len(Ids(s)) = Len(s)
  <2>1. \A i \in 1..Len(s) : s[i].msg_id \in MsgIds
    BY <1>1, <1>2
  <2> QED
    BY <1>2, <2>1, IsASeq DEF Ids
<1>4. /\ Append(s, m) \in Seq(Messages) /\ Len(Append(s, m)) = Len(s) + 1
      /\ \A i \in 1..Len(s) : Append(s, m)[i] = s[i]
      /\ Append(s, m)[Len(s) + 1] = m
  BY AppendProperties
<1>5. /\ Append(Ids(s), m.msg_id) \in Seq(MsgIds)
      /\ Len(Append(Ids(s), m.msg_id)) = Len(s) + 1
      /\ \A i \in 1..Len(s) : Append(Ids(s), m.msg_id)[i] = Ids(s)[i]
      /\ Append(Ids(s), m.msg_id)[Len(s) + 1] = m.msg_id
  BY <1>1, <1>3, AppendProperties
<1> DEFINE t == Append(s, m)
<1> DEFINE u == Append(Ids(s), m.msg_id)
<1>6. \A i \in 1..Len(s) : u[i] = s[i].msg_id
  BY <1>5 DEF Ids
<1>7. Ids(t) = [i \in 1..(Len(s) + 1) |-> t[i].msg_id]
  BY <1>4 DEF Ids
<1> HIDE DEF t, u
<1>8. u = [i \in 1..(Len(s) + 1) |-> u[i]]
  BY <1>5 DEF u
<1>9. \A i \in 1..(Len(s) + 1) : u[i] = t[i].msg_id
  <2> TAKE i \in 1..(Len(s) + 1)
  <2>1. CASE i \in 1..Len(s)
    BY <1>4, <1>6, <2>1 DEF t
  <2>2. CASE i = Len(s) + 1
    BY <1>4, <1>5, <2>2 DEF t, u
  <2> QED
    BY <1>2, <2>1, <2>2
<1>10. Ids(t) = u
  BY <1>7, <1>8, <1>9
<1> QED
  BY <1>3, <1>10 DEF t, u

\* The history goes on with the messages processed.
With(adm, s) == adm \o Ids(s)

\* The identities of one sequence after another.
LEMMA IdsOfBoth ==
  ASSUME NEW s \in Seq(Messages), NEW t \in Seq(Messages)
  PROVE  Ids(s \o t) = With(Ids(s), t)
<1>1. /\ Len(s) \in Nat /\ Len(t) \in Nat /\ Len(s \o t) = Len(s) + Len(t)
      /\ \A i \in 1..(Len(s) + Len(t)) :
           (s \o t)[i] = IF i <= Len(s) THEN s[i] ELSE t[i - Len(s)]
  BY ConcatProperties
<1>2. \A k \in Messages : k.msg_id \in MsgIds
  BY DedupAssumption
<1>3. /\ Ids(s) \in Seq(MsgIds) /\ Len(Ids(s)) = Len(s)
      /\ Ids(t) \in Seq(MsgIds) /\ Len(Ids(t)) = Len(t)
  <2>1. /\ \A i \in 1..Len(s) : s[i].msg_id \in MsgIds
        /\ \A i \in 1..Len(t) : t[i].msg_id \in MsgIds
    BY <1>2
  <2> QED
    BY <1>1, <2>1, IsASeq DEF Ids
<1> DEFINE a == Ids(s)
<1> DEFINE b == Ids(t)
<1> DEFINE u == a \o b
<1>4. /\ Len(u) = Len(s) + Len(t)
      /\ \A i \in 1..(Len(s) + Len(t)) :
           u[i] = IF i <= Len(s) THEN a[i] ELSE b[i - Len(s)]
  <2> HIDE DEF a, b
  <2>1. a \in Seq(MsgIds) /\ b \in Seq(MsgIds) /\ Len(a) = Len(s) /\ Len(b) = Len(t)
    BY <1>3 DEF a, b
  <2>2. /\ Len(a \o b) = Len(a) + Len(b)
        /\ \A i \in 1..(Len(a) + Len(b)) :
             (a \o b)[i] = IF i <= Len(a) THEN a[i] ELSE b[i - Len(a)]
    BY <2>1, ConcatProperties
  <2> QED
    BY <2>1, <2>2
<1> DEFINE v == s \o t
<1>5. Ids(v) = [i \in 1..(Len(s) + Len(t)) |-> v[i].msg_id]
  BY <1>1 DEF Ids
<1> HIDE DEF u
<1>6. u = [i \in 1..(Len(s) + Len(t)) |-> u[i]]
  <2> HIDE DEF a, b
  <2>1. a \in Seq(MsgIds) /\ b \in Seq(MsgIds)
    BY <1>3 DEF a, b
  <2>2. u \in Seq(MsgIds)
    BY <2>1, ConcatProperties DEF u
  <2> QED
    BY <1>4, <2>2
<1>7. \A i \in 1..(Len(s) + Len(t)) : u[i] = v[i].msg_id
  <2> TAKE i \in 1..(Len(s) + Len(t))
  <2>1. CASE i <= Len(s)
    <3>1. i \in 1..Len(s)
      BY <1>1, <2>1
    <3> QED
      BY <1>1, <1>4, <2>1, <3>1 DEF Ids
  <2>2. CASE ~(i <= Len(s))
    <3>1. i - Len(s) \in 1..Len(t)
      BY <1>1, <2>2
    <3> QED
      BY <1>1, <1>4, <2>2, <3>1 DEF Ids
  <2> QED
    BY <2>1, <2>2
<1> HIDE DEF v
<1>8. Ids(v) = u
  BY <1>5, <1>6, <1>7
<1> QED
  BY <1>8 DEF With, u, v

\* The identity id stands in the history.
Knows(adm, id) == \E j \in 1..Len(adm) : adm[j] = id

\* One pass keeps the filter and the history sound, and afterwards the history
\* knows the message.
LEMMA ProcessIsSound ==
  ASSUME NEW acc, NEW adm \in Seq(MsgIds), NEW m \in Messages,
         acc = [filter |-> acc.filter, processed |-> acc.processed],
         acc.processed \in Seq(Messages),
         Sound(acc.filter, With(adm, acc.processed))
  PROVE  LET new == Process(acc, m)
         IN /\ new = [filter |-> new.filter, processed |-> new.processed]
            /\ new.processed \in Seq(Messages)
            /\ Sound(new.filter, With(adm, new.processed))
            /\ Knows(With(adm, new.processed), m.msg_id)
            /\ \A id : Knows(With(adm, acc.processed), id)
                         => Knows(With(adm, new.processed), id)
            /\ \/ new = acc
               \/ new.processed = Append(acc.processed, m)
<1> DEFINE new == Process(acc, m)
<1> DEFINE old == With(adm, acc.processed)
<1>1. m.msg_id \in MsgIds
  BY DedupAssumption
<1>2. CASE IsDup(acc.filter, m.msg_id)
  <2>1. new = acc
    BY <1>2 DEF Process
  <2>2. Knows(old, m.msg_id)
    BY <1>2, SeenWasAdmitted DEF IsDup, Knows
  <2> QED
    BY <2>1, <2>2
<1>3. CASE ~IsDup(acc.filter, m.msg_id)
  <2>1. /\ new = [filter |-> AfterIsDup(acc.filter, m.msg_id),
                  processed |-> Append(acc.processed, m)]
        /\ new.filter = AfterIsDup(acc.filter, m.msg_id)
        /\ new.processed = Append(acc.processed, m)
    BY <1>3 DEF Process
  <2>2. new.processed \in Seq(Messages)
    BY <2>1, AppendProperties
  <2>3. With(adm, new.processed) = Append(old, m.msg_id)
    <3>1. /\ Ids(acc.processed) \in Seq(MsgIds)
          /\ Ids(new.processed) = Append(Ids(acc.processed), m.msg_id)
      BY <2>1, IdsOfMore
    <3>2. adm \o Append(Ids(acc.processed), m.msg_id)
            = Append(adm \o Ids(acc.processed), m.msg_id)
      BY <1>1, <3>1
    <3> QED
      BY <3>1, <3>2 DEF With
  <2>4. Sound(new.filter, With(adm, new.processed))
    BY <1>1, <1>3, <2>1, <2>3, NewIsSound
  <2>5. old \in Seq(MsgIds)
    BY DEF Sound
  <2>6. /\ Len(old) \in Nat /\ Len(Append(old, m.msg_id)) = Len(old) + 1
        /\ \A i \in 1..Len(old) : Append(old, m.msg_id)[i] = old[i]
        /\ Append(old, m.msg_id)[Len(old) + 1] = m.msg_id
    BY <1>1, <2>5, AppendProperties
  <2>7. /\ Knows(Append(old, m.msg_id), m.msg_id)
        /\ \A id : Knows(old, id) => Knows(Append(old, m.msg_id), id)
    <3> HIDE DEF old
    <3>1. Len(old) + 1 \in 1..(Len(old) + 1)
      BY <2>6
    <3>2. \A i \in 1..Len(old) : i \in 1..(Len(old) + 1)
      BY <2>6
    <3> QED
      BY <2>6, <3>1, <3>2 DEF Knows
  <2> QED
    BY <2>1, <2>2, <2>3, <2>4, <2>7
<1> QED
  BY <1>2, <1>3

\* The whole loop does: what it processes extends the history, the filter stays
\* sound, and every message of the batch is known afterwards.
LEMMA ProcessAllIsSound ==
  ASSUME NEW f, NEW adm, Sound(f, adm), NEW ordered \in Seq(Messages)
  PROVE  LET result == ProcessAll(f, ordered)
         IN /\ result.processed \in Seq(Messages)
            /\ Sound(result.filter, With(adm, result.processed))
            /\ \A i \in 1..Len(ordered) :
                 Knows(With(adm, result.processed), ordered[i].msg_id)
            /\ \A id : Knows(adm, id) => Knows(With(adm, result.processed), id)
            /\ \A j \in 1..Len(result.processed) :
                 \E i \in 1..Len(ordered) : result.processed[j] = ordered[i]
<1> DEFINE n == Len(ordered)
<1>1. n \in Nat /\ adm \in Seq(MsgIds) /\ \A i \in 1..n : ordered[i] \in Messages
  BY DEF Sound
<1>2. PICK after :
        /\ after[0] = [filter |-> f, processed |-> << >>]
        /\ \A i \in 1..n : after[i] = Process(after[i - 1], ordered[i])
        /\ ProcessAll(f, ordered) = after[n]
  BY <1>1, ProcessAllIs
<1> DEFINE Good(k) ==
      /\ after[k] = [filter |-> after[k].filter, processed |-> after[k].processed]
      /\ after[k].processed \in Seq(Messages)
      /\ Sound(after[k].filter, With(adm, after[k].processed))
      /\ \A i \in 1..k : Knows(With(adm, after[k].processed), ordered[i].msg_id)
      /\ \A id : Knows(adm, id) => Knows(With(adm, after[k].processed), id)
      /\ \A j \in 1..Len(after[k].processed) :
           \E i \in 1..k : after[k].processed[j] = ordered[i]
<1> DEFINE S == {k \in Nat : k <= n => Good(k)}
<1>3. 0 \in S
  <2>1. after[0].filter = f /\ after[0].processed = << >>
    BY <1>2
  <2>2. With(adm, << >>) = adm
    <3>1. Ids(<< >>) = << >>
      BY DEF Ids
    <3> QED
      BY <1>1, <3>1, ConcatEmptySeq DEF With
  <2>3. << >> \in Seq(Messages)
    OBVIOUS
  <2>4. after[0] = [filter |-> after[0].filter, processed |-> after[0].processed]
    BY <1>2
  <2>5. Good(0)
    BY <2>1, <2>2, <2>3, <2>4
  <2> QED
    BY <2>5
<1>4. ASSUME NEW k \in Nat, k \in S PROVE k + 1 \in S
  <2> SUFFICES ASSUME k + 1 <= n PROVE Good(k + 1)
    OBVIOUS
  <2>1. Good(k)
    BY <1>1, <1>4
  <2>2. /\ k + 1 \in 1..n /\ (k + 1) - 1 = k
        /\ \A i \in 1..(k + 1) : i \in 1..k \/ i = k + 1
    BY <1>1
  <2>3. after[k + 1] = Process(after[k], ordered[k + 1]) /\ ordered[k + 1] \in Messages
    BY <1>1, <1>2, <2>2
  <2>4. /\ after[k] = [filter |-> after[k].filter, processed |-> after[k].processed]
        /\ after[k].processed \in Seq(Messages)
        /\ Sound(after[k].filter, With(adm, after[k].processed))
    BY <2>1
  <2> DEFINE new == Process(after[k], ordered[k + 1])
  <2> HIDE DEF Good
  <2>5. /\ new = [filter |-> new.filter, processed |-> new.processed]
        /\ new.processed \in Seq(Messages)
        /\ Sound(new.filter, With(adm, new.processed))
        /\ Knows(With(adm, new.processed), ordered[k + 1].msg_id)
        /\ \A id : Knows(With(adm, after[k].processed), id)
                     => Knows(With(adm, new.processed), id)
        /\ \/ new = after[k]
           \/ new.processed = Append(after[k].processed, ordered[k + 1])
    BY <1>1, <2>3, <2>4, ProcessIsSound
  <2> HIDE DEF new
  <2> USE DEF Good
  <2>6. \A j \in 1..Len(new.processed) :
          \E i \in 1..(k + 1) : new.processed[j] = ordered[i]
    <3>1. CASE new = after[k]
      BY <2>1, <3>1
    <3>2. CASE new.processed = Append(after[k].processed, ordered[k + 1])
      <4>1. /\ Len(new.processed) = Len(after[k].processed) + 1
            /\ \A j \in 1..Len(after[k].processed) :
                 new.processed[j] = after[k].processed[j]
            /\ new.processed[Len(after[k].processed) + 1] = ordered[k + 1]
            /\ Len(after[k].processed) \in Nat
        BY <2>1, <2>3, <3>2, AppendProperties
      <4> TAKE j \in 1..Len(new.processed)
      <4>2. CASE j \in 1..Len(after[k].processed)
        BY <2>1, <4>1, <4>2
      <4>3. CASE j = Len(after[k].processed) + 1
        <5>1. k + 1 \in 1..(k + 1)
          OBVIOUS
        <5> QED
          BY <4>1, <4>3, <5>1
      <4>4. j \in 1..Len(after[k].processed) \/ j = Len(after[k].processed) + 1
        BY <4>1
      <4> QED
        BY <4>2, <4>3, <4>4
    <3> QED
      BY <2>5, <3>1, <3>2
  <2> QED
    BY <2>1, <2>2, <2>3, <2>5, <2>6 DEF new
<1>5. n \in S
  <2> HIDE DEF S
  <2> QED
    BY <1>1, <1>3, <1>4, CountingUp
<1>6. Good(n)
  BY <1>1, <1>5
<1> QED
  BY <1>2, <1>6

----------------------------------------------------------------------------
(* The filter by itself.                                                   *)

FilterIInv == Sound(filter, admitted)

\* The filter starts empty.
LEMMA InitFilterIInv == FilterInit => FilterIInv
BY EmptyIsSound DEF FilterInit, FilterIInv

\* A known identity changes nothing, a new one keeps filter and history sound.
LEMMA StepFilterIInv == FilterIInv /\ [FilterNext]_filterVars => FilterIInv'
<1> SUFFICES ASSUME FilterIInv, [FilterNext]_filterVars PROVE FilterIInv'
  OBVIOUS
<1>1. CASE UNCHANGED filterVars
  BY <1>1 DEF FilterIInv, filterVars
<1>2. ASSUME NEW id \in MsgIds, Check(id) PROVE FilterIInv'
  <2>1. CASE IsDup(filter, id)
    BY <1>2, <2>1 DEF FilterIInv, Check, AfterIsDup
  <2>2. CASE ~IsDup(filter, id)
    <3>1. Sound(AfterIsDup(filter, id), Append(admitted, id))
      BY <2>2, NewIsSound DEF FilterIInv
    <3> QED
      BY <1>2, <2>2, <3>1 DEF FilterIInv, Check
  <2> QED
    BY <2>1, <2>2
<1> QED
  BY <1>1, <1>2 DEF FilterNext

\* The invariant says what is claimed of every state.
LEMMA FilterIInvSays ==
  FilterIInv => FilterTypeOK /\ SetMatchesQueue /\ OncePerWindow
BY SoundSays DEF FilterIInv, FilterTypeOK, SetMatchesQueue, OncePerWindow, Spaced

\* The invariant holds in every state.
THEOREM FilterInvariance == FilterSpec => []FilterIInv
BY InitFilterIInv, StepFilterIInv, PTL DEF FilterSpec

\* The fields of the filter hold what their types say.
THEOREM FilterTypeCorrect == FilterSpec => []FilterTypeOK
BY FilterInvariance, FilterIInvSays, PTL

\* The set and the queue of the filter never drift apart, and neither outgrows
\* the capacity.
THEOREM QueueFollowsSet == FilterSpec => []SetMatchesQueue
BY FilterInvariance, FilterIInvSays, PTL

\* An identity is reported as new again only after MaxTracked others were.
THEOREM OnceInAWindow == FilterSpec => []OncePerWindow
BY FilterInvariance, FilterIInvSays, PTL

=============================================================================
