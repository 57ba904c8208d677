-------------------------- MODULE MotionStateProofs -------------------------
(***************************************************************************)
(* The change pipeline of a unit, for any flags, speeds and rates and any  *)
(* number of decisions and faults: a counter names one change, so a late,  *)
(* doubled or superseded answer confirms nothing, and what is confirmed    *)
(* was done by the client.                                                 *)
(***************************************************************************)
EXTENDS MotionState, FunctionTheorems, FiniteSetTheorems, SequenceTheorems, TLAPS

\* CountersApart of any entries, tombstones and next counter.
FitPending(es, n, d) ==
  /\ \A e, f \in es : e.type = f.type \/ e.counter = f.counter => e = f
  /\ \A e \in es : e.counter < n /\ e.value = d[e.type]
FitGraves(s, n, es) ==
  /\ \A i \in DOMAIN s : s[i].counter < n
  /\ \A i \in DOMAIN s : \A e \in es : e.counter # s[i].counter
  /\ \A i, j \in DOMAIN s : s[i].counter = s[j].counter => i = j

LEMMA TwoFits ==
  CountersApart <=> FitPending(pending, next, desired) /\ FitGraves(tombstones, next, pending)
  BY DEF CountersApart, FitPending, FitGraves, InSeq

\* A unit the server drives has nothing to negotiate.
ServerInv == mode = "server" => pending = {} /\ confirmed = desired

-----------------------------------------------------------------------------
\* Tombstones.
LEMMA FitGravesLater ==
  ASSUME NEW s \in Seq(Grave), NEW n \in Nat, NEW m \in Nat, n <= m,
         NEW es \in SUBSET Entry, NEW fs \in SUBSET Entry, FitGraves(s, n, es),
         \A f \in fs : (\E e \in es : f.counter = e.counter) \/ f.counter >= n
  PROVE  FitGraves(s, m, fs)
  <1>1. \A i \in DOMAIN s : s[i].counter \in Nat
    <2>1. \A i \in DOMAIN s : s[i] \in Grave
      OBVIOUS
    <2> QED BY <2>1 DEF Grave
  <1>2. \A f \in fs : f.counter \in Nat
    BY DEF Entry
  <1>3. \A i \in DOMAIN s : s[i].counter < m
    BY <1>1 DEF FitGraves
  <1>4. \A i \in DOMAIN s : \A f \in fs : f.counter # s[i].counter
    BY <1>1, <1>2 DEF FitGraves
  <1> QED BY <1>3, <1>4 DEF FitGraves

LEMMA ExpiredFits ==
  ASSUME NEW s \in Seq(Grave), NEW n \in Nat, NEW es, FitGraves(s, n, es), NEW r \in Expired(s)
  PROVE  r \in Seq(Grave) /\ FitGraves(r, n, es)
  <1>1. PICK m \in 1..Len(s) + 1 : r = SubSeq(s, m, Len(s))
    BY DEF Expired
  <1>2. Len(s) \in Nat /\ m \in Int /\ \A i \in m..Len(s) : s[i] \in Grave
    OBVIOUS
  <1>3. /\ r \in Seq(Grave) /\ Len(r) = Len(s) - m + 1
        /\ \A i \in 1..Len(s) - m + 1 : r[i] = s[m + i - 1]
    BY <1>1, <1>2, SubSeqProperties
  <1>4. DOMAIN r = 1..Len(s) - m + 1 /\ DOMAIN s = 1..Len(s)
    BY <1>3
  <1>5. \A i \in DOMAIN r : m + i - 1 \in DOMAIN s /\ r[i] = s[m + i - 1]
    BY <1>2, <1>3, <1>4
  <1>6. \A i, j \in DOMAIN r : m + i - 1 = m + j - 1 => i = j
    BY <1>2, <1>4
  <1> QED BY <1>3, <1>5, <1>6 DEF FitGraves

\* One tombstone at most fits: their counters differ.
LEMMA ConsumedFits ==
  ASSUME NEW s \in Seq(Grave), NEW n \in Nat, NEW es, FitGraves(s, n, es), NEW a
  PROVE  LET r == ConsumeTombstone(a, s) IN r \in Seq(Grave) /\ FitGraves(r, n, es)
  <1> DEFINE fits == {i \in DOMAIN s : Answers(s[i], a)}
             first == CHOOSE i \in fits : \A j \in fits : i <= j
             one == SubSeq(s, 1, first - 1)
             two == SubSeq(s, first + 1, Len(s))
  <1>1. CASE fits = {}
    BY <1>1 DEF ConsumeTombstone
  <1>2. CASE fits # {}
    <2>1. ConsumeTombstone(a, s) = one \o two
      BY <1>2 DEF ConsumeTombstone
    <2>2. PICK k \in fits : TRUE
      BY <1>2
    <2>3. \A j \in fits : j = k
      BY <2>2 DEF Answers, FitGraves
    <2>4. DOMAIN s = 1..Len(s) /\ Len(s) \in Nat
      OBVIOUS
    <2>5. first = k /\ first \in 1..Len(s)
      BY <2>2, <2>3, <2>4
    <2> HIDE DEF fits, first
    <2>6. /\ one \in Seq(Grave) /\ Len(one) = first - 1
          /\ \A i \in 1..first - 1 : one[i] = s[i]
      <3>1. \A i \in 1..first - 1 : s[i] \in Grave
        BY <2>4, <2>5
      <3> QED BY <2>4, <2>5, <3>1, SubSeqProperties
    <2>7. /\ two \in Seq(Grave) /\ Len(two) = Len(s) - first
          /\ \A i \in 1..Len(s) - first : two[i] = s[first + i]
      <3>1. \A i \in first + 1..Len(s) : s[i] \in Grave
        BY <2>4, <2>5
      <3>2. first + 1 \in Int /\ Len(s) \in Int
        BY <2>4, <2>5
      <3>3. /\ two \in Seq(Grave)
            /\ Len(two) = IF first + 1 <= Len(s) THEN Len(s) - (first + 1) + 1 ELSE 0
            /\ \A i \in 1..Len(s) - (first + 1) + 1 : two[i] = s[first + 1 + i - 1]
        BY <3>1, <3>2, SubSeqProperties
      <3> HIDE DEF one, two
      <3>4. /\ Len(s) - (first + 1) + 1 = Len(s) - first
            /\ ~(first + 1 <= Len(s)) => Len(s) - first = 0
        <4> DEFINE l == Len(s)
        <4>1. l \in Nat /\ first \in 1..l
          BY <2>4, <2>5
        <4> HIDE DEF l
        <4>2. l - (first + 1) + 1 = l - first /\ (~(first + 1 <= l) => l - first = 0)
          BY <4>1
        <4> QED BY <4>2 DEF l
      <3>5. \A i \in 1..Len(s) - first : first + 1 + i - 1 = first + i
        BY <2>4, <2>5
      <3> QED BY <3>3, <3>4, <3>5
    <2> HIDE DEF one, two
    <2> DEFINE r == one \o two
    <2>8. /\ r \in Seq(Grave) /\ Len(r) = Len(one) + Len(two)
          /\ \A i \in 1..Len(one) + Len(two) :
               r[i] = IF i <= Len(one) THEN one[i] ELSE two[i - Len(one)]
      BY <2>6, <2>7, ConcatProperties
    <2> HIDE DEF r
    <2>9. DOMAIN r = 1..Len(s) - 1
      <3>1. Len(r) = Len(s) - 1
        BY <2>4, <2>5, <2>6, <2>7, <2>8
      <3> QED BY <2>8, <3>1
    <2>10. ASSUME NEW i \in DOMAIN r
           PROVE  \/ i < first /\ i \in DOMAIN s /\ r[i] = s[i]
                  \/ i >= first /\ i + 1 \in DOMAIN s /\ r[i] = s[i + 1]
      <3>1. i \in 1..Len(s) - 1 /\ i \in 1..Len(one) + Len(two)
        BY <2>4, <2>5, <2>6, <2>7, <2>9
      <3>2. CASE i < first
        <4>1. i <= Len(one) /\ i \in 1..first - 1
          BY <2>4, <2>5, <2>6, <3>1, <3>2
        <4> QED BY <2>4, <2>6, <2>8, <3>1, <3>2, <4>1
      <3>3. CASE i >= first
        <4>1. ~(i <= Len(one)) /\ i - Len(one) \in 1..Len(s) - first
              /\ first + (i - Len(one)) = i + 1
          BY <2>4, <2>5, <2>6, <3>1, <3>3
        <4> QED BY <2>4, <2>7, <2>8, <3>1, <3>3, <4>1
      <3> QED BY <2>4, <2>5, <3>1, <3>2, <3>3
    <2>11. \A i \in DOMAIN r : i \in Nat /\ i + 1 \in Nat
      BY <2>4, <2>9
    <2>12. ASSUME NEW i \in DOMAIN r, NEW j \in DOMAIN r, r[i].counter = r[j].counter
           PROVE  i = j
      <3>1. i \in Nat /\ j \in Nat
        BY <2>11
      <3>2. PICK x \in DOMAIN s : r[i] = s[x] /\ ((i < first /\ x = i) \/ (i >= first /\ x = i + 1))
        BY <2>10
      <3>3. PICK y \in DOMAIN s : r[j] = s[y] /\ ((j < first /\ y = j) \/ (j >= first /\ y = j + 1))
        BY <2>10
      <3>4. x = y
        BY <2>12, <3>2, <3>3 DEF FitGraves
      <3> QED BY <2>4, <2>5, <3>1, <3>2, <3>3, <3>4
    <2>13. \A i \in DOMAIN r : \E x \in DOMAIN s : r[i] = s[x]
      BY <2>10
    <2>14. FitGraves(r, n, es)
      BY <2>12, <2>13 DEF FitGraves
    <2> QED BY <2>1, <2>8, <2>14 DEF r
  <1> QED BY <1>1, <1>2

\* Retire(): the counters of the entries go to the tombstones.
LEMMA RetireFits ==
  ASSUME NEW es \in SUBSET pending, IsFiniteSet(es), TypeOK,
         FitPending(pending, next, desired), FitGraves(tombstones, next, pending), Retire(es)
  PROVE  tombstones' \in Seq(Grave) /\ FitGraves(tombstones', next, pending \ es)
  <1>1. PICK r \in Retired(es) : tombstones' = tombstones \o r
    BY DEF Retire
  <1> DEFINE n == Cardinality(es)
  <1>2. PICK o \in [1..n -> es] :
          /\ \A i, j \in DOMAIN o : o[i] = o[j] => i = j
          /\ r = [i \in 1..n |-> [type |-> o[i].type, counter |-> o[i].counter]]
    BY DEF Retired
  <1>3. n \in Nat
    BY FS_CardinalityType
  <1> HIDE DEF n
  <1>4. \A i \in 1..n : o[i] \in pending /\ o[i] \in Entry /\ r[i].counter = o[i].counter /\ r[i] \in Grave
    <2>1. \A i \in 1..n : o[i] \in pending /\ o[i] \in Entry
      BY <1>2 DEF TypeOK
    <2>2. \A i \in 1..n : o[i].type \in Acked /\ o[i].counter \in Nat
      BY <2>1 DEF Entry
    <2> QED BY <1>2, <2>1, <2>2 DEF Grave
  <1>5. r \in Seq(Grave) /\ Len(r) = n
    <2>1. r \in [1..n -> Grave]
      BY <1>2, <1>4
    <2> QED BY <1>3, <2>1, SeqDef
  <1>6. tombstones \in Seq(Grave) /\ next \in Nat
    BY DEF TypeOK
  <1> DEFINE s == tombstones
             t == tombstones \o r
  <1>7. /\ t \in Seq(Grave) /\ Len(t) = Len(s) + n /\ Len(s) \in Nat
        /\ \A i \in 1..Len(s) + n : t[i] = IF i <= Len(s) THEN s[i] ELSE r[i - Len(s)]
    BY <1>5, <1>6, ConcatProperties
  <1>8. DOMAIN t = 1..Len(s) + n /\ DOMAIN s = 1..Len(s)
    BY <1>6, <1>7
  <1> HIDE DEF t
  <1>9. ASSUME NEW i \in DOMAIN t
        PROVE  \/ i \in DOMAIN s /\ t[i] = s[i]
               \/ i - Len(s) \in 1..n /\ i > Len(s) /\ t[i] = r[i - Len(s)]
    BY <1>3, <1>7, <1>8
  <1>10. \A i \in 1..n : r[i].counter = o[i].counter /\ o[i] \in es
    BY <1>2, <1>4
  <1>11. \A i \in DOMAIN t : t[i].counter < next
    BY <1>4, <1>9, <1>10 DEF FitGraves, FitPending
  <1>12. \A i \in DOMAIN t : \A e \in pending \ es : e.counter # t[i].counter
    BY <1>4, <1>9, <1>10 DEF FitGraves, FitPending
  <1>13. ASSUME NEW i \in DOMAIN t, NEW j \in DOMAIN t, t[i].counter = t[j].counter
         PROVE  i = j
    <2>1. CASE i \in DOMAIN s /\ t[i] = s[i] /\ j \in DOMAIN s /\ t[j] = s[j]
      BY <1>13, <2>1 DEF FitGraves
    <2>2. ASSUME NEW k \in 1..n, NEW l \in 1..n, t[i] = r[k], t[j] = r[l]
          PROVE  k = l
      <3>1. o[k] = o[l]
        BY <1>4, <1>10, <1>13, <2>2 DEF FitPending
      <3> QED BY <1>2, <3>1
    <2>3. ASSUME NEW x \in DOMAIN s, NEW k \in 1..n
          PROVE  s[x].counter # r[k].counter
      BY <1>4, <1>10 DEF FitGraves
    <2> QED BY <1>9, <1>13, <2>1, <2>2, <2>3, <1>7, <1>8
  <1> QED BY <1>1, <1>7, <1>11, <1>12, <1>13 DEF FitGraves, t

-----------------------------------------------------------------------------
\* Pending entries.
LEMMA PendingFinite ==
  ASSUME TypeOK, FitPending(pending, next, desired), NEW es \in SUBSET pending
  PROVE  IsFiniteSet(es)
  <1> DEFINE f == [e \in pending |-> e.type]
  <1>1. IsFiniteSet(Acked)
    BY MotionAssumption, FS_Union DEF Acked
  <1>2. \A e \in pending : e.type \in Acked
    BY DEF TypeOK, Entry
  <1>3. f \in Injection(pending, Acked)
    <2>1. f \in [pending -> Acked]
      BY <1>2
    <2>2. \A d, e \in pending : f[d] = f[e] => d = e
      BY DEF FitPending
    <2> HIDE DEF f
    <2> QED BY <2>1, <2>2 DEF Injection, IsInjective
  <1>4. IsFiniteSet(pending)
    BY <1>1, <1>3, FS_Injection
  <1> QED BY <1>4, FS_Subset

LEMMA KindFacts ==
  /\ \A t \in Acked : t \notin Rates /\ t \notin Gaits
  /\ \A t \in Rates : t \notin Gaits
  /\ Acked \subseteq OnClients /\ OnClients \subseteq Types /\ Acked \subseteq Types
  /\ Flags \subseteq Acked /\ Speeds \subseteq Acked
  BY MotionAssumption DEF Acked, OnClients, Types

Fit  == FitPending(pending, next, desired) /\ FitGraves(tombstones, next, pending)
IInv == TypeOK /\ Fit /\ ServerInv

\* The parts of the state the kernel's steps keep together.
KernelTypes ==
  /\ desired \in [Types -> BOOLEAN] /\ confirmed \in [Types -> BOOLEAN]
  /\ pending \subseteq Entry /\ tombstones \in Seq(Grave) /\ next \in Nat

LEMMA ApplyServerFits ==
  ASSUME IInv, NEW t \in Types, NEW v \in BOOLEAN, mode = "server", mode' = mode,
         desired' = [desired EXCEPT ![t] = v], confirmed' = desired',
         UNCHANGED <<pending, tombstones, next>>
  PROVE  KernelTypes' /\ Fit' /\ ServerInv'
  <1>1. pending = {}
    BY DEF IInv, ServerInv
  <1>2. KernelTypes'
    BY DEF IInv, TypeOK, KernelTypes
  <1>3. FitPending(pending', next', desired')
    BY <1>1 DEF FitPending
  <1>4. FitGraves(tombstones', next', pending')
    BY DEF IInv, Fit
  <1> QED BY <1>1, <1>2, <1>3, <1>4 DEF Fit, ServerInv

LEMMA ApplyAckedFits ==
  ASSUME IInv, NEW t \in Types, NEW v \in BOOLEAN, ApplyAcked(t, v), mode' = mode
  PROVE  KernelTypes' /\ Fit' /\ ServerInv'
  <1> DEFINE new == [type |-> t, counter |-> next, value |-> v, resends |-> 0]
             rest == pending \ PendingOf(t)
  <1> TypeOK /\ Fit /\ t \in Acked /\ next \in Nat /\ next + 1 \in Nat
    BY DEF IInv, TypeOK, ApplyAcked
  <1>1. /\ pending' = rest \cup {new} /\ next' = next + 1
        /\ desired' = [desired EXCEPT ![t] = v] /\ confirmed' = confirmed
        /\ Retire(PendingOf(t)) /\ mode' # "server"
    BY DEF ApplyAcked, Open, OldGone
  <1>2. new \in Entry /\ rest \subseteq Entry /\ \A e \in rest : e.type # t
    BY DEF Entry, TypeOK, PendingOf
  <1>3. tombstones' \in Seq(Grave) /\ FitGraves(tombstones', next, rest)
    <2>1. PendingOf(t) \in SUBSET pending /\ IsFiniteSet(PendingOf(t))
      BY PendingFinite DEF PendingOf, Fit
    <2> QED BY <1>1, <2>1, RetireFits DEF Fit
  <1>4. FitGraves(tombstones', next + 1, rest \cup {new})
    <2>1. rest \cup {new} \in SUBSET Entry /\ rest \in SUBSET Entry /\ next <= next + 1
      BY <1>2
    <2>2. \A f \in rest \cup {new} : (\E e \in rest : f.counter = e.counter) \/ f.counter >= next
      OBVIOUS
    <2> HIDE DEF new, rest
    <2> QED BY <1>3, <2>1, <2>2, FitGravesLater
  <1>5. FitPending(rest \cup {new}, next + 1, desired')
    <2>1. \A e \in rest : /\ e.counter \in Nat /\ e.counter < next /\ e.type \in Types /\ e.type # t
                         /\ e.value = desired[e.type]
      BY <1>2, KindFacts DEF Fit, FitPending, Entry
    <2>2. desired'[t] = v /\ \A u \in Types : u # t => desired'[u] = desired[u]
      BY <1>1 DEF TypeOK
    <2>3. \A e, f \in rest : e.type = f.type \/ e.counter = f.counter => e = f
      BY DEF Fit, FitPending
    <2>4. new.type = t /\ new.counter = next /\ new.value = v
      OBVIOUS
    <2> HIDE DEF new, rest
    <2>5. \A e, f \in rest \cup {new} : e.type = f.type \/ e.counter = f.counter => e = f
      BY <2>1, <2>3, <2>4
    <2>6. \A e \in rest \cup {new} : e.counter < next + 1 /\ e.value = desired'[e.type]
      BY <2>1, <2>2, <2>4
    <2> QED BY <2>5, <2>6 DEF FitPending
  <1>6. KernelTypes'
    BY <1>1, <1>2, <1>3 DEF KernelTypes, TypeOK
  <1> QED BY <1>1, <1>4, <1>5, <1>6 DEF Fit, ServerInv

LEMMA ApplyRateFits ==
  ASSUME IInv, NEW t \in Types, NEW v \in BOOLEAN, ApplyRate(t, v), mode' = mode
  PROVE  KernelTypes' /\ Fit' /\ ServerInv'
  <1> TypeOK /\ Fit /\ t \in Rates /\ next \in Nat /\ next + 1 \in Nat
    BY DEF IInv, TypeOK, ApplyRate
  <1>1. /\ UNCHANGED <<pending, tombstones>> /\ next' = next + 1 /\ mode' # "server"
        /\ desired' = [desired EXCEPT ![t] = v] /\ confirmed' = [confirmed EXCEPT ![t] = v]
    BY DEF ApplyRate
  <1>2. pending \subseteq Entry /\ tombstones \in Seq(Grave)
    BY DEF TypeOK
  <1>3. FitGraves(tombstones, next + 1, pending)
    <2>1. next <= next + 1
      OBVIOUS
    <2> QED BY <1>2, <2>1, FitGravesLater DEF Fit
  <1>4. FitPending(pending, next + 1, desired')
    <2>1. \A e \in pending : e.counter \in Nat /\ e.type \in Types /\ e.type # t
      BY <1>2, KindFacts DEF Entry
    <2>2. \A u \in Types : u # t => desired'[u] = desired[u]
      BY <1>1 DEF TypeOK
    <2> QED BY <2>1, <2>2 DEF Fit, FitPending
  <1>5. KernelTypes'
    BY <1>1 DEF TypeOK, KernelTypes
  <1> QED BY <1>1, <1>3, <1>4, <1>5 DEF Fit, ServerInv

\* Revoke and Grant: everything outstanding is retired.
LEMMA RetireAllFits ==
  ASSUME IInv, Retire(pending)
  PROVE  tombstones' \in Seq(Grave) /\ FitGraves(tombstones', next, {})
  <1>1. pending \in SUBSET pending /\ IsFiniteSet(pending)
    BY PendingFinite DEF IInv, Fit
  <1>2. pending \ pending = {}
    OBVIOUS
  <1> QED BY <1>1, <1>2, RetireFits DEF IInv, Fit

LEMMA ModeFits ==
  ASSUME IInv, Revoke \/ Grant
  PROVE  KernelTypes' /\ Fit' /\ ServerInv'
  <1>1. /\ pending' = {} /\ next' = next /\ desired' = desired
        /\ mode' = "server" => confirmed' = desired
        /\ confirmed' \in {confirmed, desired} /\ Retire(pending)
    BY DEF Revoke, Grant
  <1>2. tombstones' \in Seq(Grave) /\ FitGraves(tombstones', next, {})
    BY <1>1, RetireAllFits
  <1>3. KernelTypes'
    BY <1>1, <1>2 DEF IInv, TypeOK, KernelTypes
  <1> QED BY <1>1, <1>2, <1>3 DEF Fit, FitPending, ServerInv

\* A new epoch: the snapshot goes out under fresh counters.
LEMMA EpochFits ==
  ASSUME IInv, EnterWorld
  PROVE  KernelTypes' /\ Fit' /\ ServerInv'
  <1> TypeOK /\ next \in Nat
    BY DEF IInv, TypeOK
  <1>1. tombstones' \in Seq(Grave) /\ FitGraves(tombstones', next, {})
    BY RetireAllFits DEF EnterWorld
  <1>2. PICK o \in Orders :
          IF mode = "client"
          THEN /\ pending' = {[type |-> o[i], counter |-> next + i - 1,
                               value |-> desired[o[i]], resends |-> 0] : i \in DOMAIN o}
               /\ next' = next + Len(o)
               /\ UNCHANGED confirmed
          ELSE /\ pending' = {} /\ confirmed' = desired /\ UNCHANGED next
    BY DEF EnterWorld
  <1>3. UNCHANGED <<mode, desired>>
    BY DEF EnterWorld
  <1>4. CASE mode # "client"
    <2>1. KernelTypes'
      BY <1>1, <1>2, <1>3, <1>4 DEF TypeOK, KernelTypes
    <2> QED BY <1>1, <1>2, <1>3, <1>4, <2>1 DEF Fit, FitPending, ServerInv
  <1>5. CASE mode = "client"
    <2>1. Snapshot \subseteq Acked
      BY KindFacts DEF Snapshot
    <2>2. /\ Cardinality(Snapshot) \in Nat
          /\ o \in [1..Cardinality(Snapshot) -> Snapshot]
          /\ \A i, j \in 1..Cardinality(Snapshot) : o[i] = o[j] => i = j
      <3>1. IsFiniteSet(Acked)
        BY MotionAssumption, FS_Union DEF Acked
      <3>2. IsFiniteSet(Snapshot)
        BY <2>1, <3>1, FS_Subset
      <3> QED BY <3>2, FS_CardinalityType DEF Orders
    <2> DEFINE l == Cardinality(Snapshot)
    <2>3. Len(o) = l /\ DOMAIN o = 1..l /\ l \in Nat
      BY <2>2
    <2> HIDE DEF l
    <2>4. /\ next' = next + l /\ confirmed' = confirmed
          /\ \A e \in pending' : \E i \in 1..l :
               e = [type |-> o[i], counter |-> next + i - 1, value |-> desired[o[i]], resends |-> 0]
      BY <1>2, <1>5, <2>3
    <2>5. \A i \in 1..l : o[i] \in Acked /\ next + i - 1 \in Nat /\ desired[o[i]] \in BOOLEAN
      <3>1. \A i \in 1..l : o[i] \in Acked
        BY <2>1, <2>2 DEF l
      <3>2. \A i \in 1..l : next + i - 1 \in Nat
        BY <2>3
      <3> QED BY <3>1, <3>2, KindFacts DEF TypeOK
    <2>6. \A i, j \in 1..l : o[i] = o[j] => i = j
      BY <2>2 DEF l
    <2>7. pending' \subseteq Entry
      BY <2>4, <2>5 DEF Entry
    <2>8. FitPending(pending', next', desired')
      <3>1. ASSUME NEW e \in pending', NEW f \in pending', e.type = f.type \/ e.counter = f.counter
            PROVE  e = f
        <4>1. PICK i \in 1..l :
                e = [type |-> o[i], counter |-> next + i - 1, value |-> desired[o[i]], resends |-> 0]
          BY <2>4
        <4>2. PICK j \in 1..l :
                f = [type |-> o[j], counter |-> next + j - 1, value |-> desired[o[j]], resends |-> 0]
          BY <2>4
        <4>3. o[i] = o[j] \/ next + i - 1 = next + j - 1
          BY <3>1, <4>1, <4>2
        <4>4. i = j
          BY <2>6, <4>3
        <4> QED BY <4>1, <4>2, <4>4
      <3>2. ASSUME NEW e \in pending'
            PROVE  e.counter < next' /\ e.value = desired'[e.type]
        <4>1. PICK i \in 1..l :
                e = [type |-> o[i], counter |-> next + i - 1, value |-> desired[o[i]], resends |-> 0]
          BY <2>4
        <4>2. e.counter = next + i - 1 /\ e.value = desired[e.type]
          BY <4>1
        <4> QED BY <1>3, <2>3, <2>4, <4>2
      <3> QED BY <3>1, <3>2 DEF FitPending
    <2>9. FitGraves(tombstones', next', pending')
      <3>1. \A f \in pending' : f.counter >= next
        BY <2>3, <2>4
      <3>2. next' \in Nat /\ next <= next'
        BY <2>3, <2>4
      <3>3. {} \in SUBSET Entry
        OBVIOUS
      <3> QED BY <1>1, <2>7, <3>1, <3>2, <3>3, FitGravesLater
    <2>10. KernelTypes'
      BY <1>1, <1>3, <2>3, <2>4, <2>7 DEF TypeOK, KernelTypes
    <2> QED BY <1>3, <1>5, <2>8, <2>9, <2>10 DEF Fit, ServerInv
  <1> QED BY <1>4, <1>5

-----------------------------------------------------------------------------
\* Acknowledgements.
LEMMA AckFits ==
  ASSUME IInv, NEW a, Ack(a), UNCHANGED <<mode, desired>>, mode = "client"
  PROVE  KernelTypes' /\ Fit' /\ ServerInv'
  <1> TypeOK /\ Fit /\ next \in Nat /\ next + 1 \in Nat
    BY DEF IInv, TypeOK
  <1> tombstones \in Seq(Grave) /\ pending \subseteq Entry
    BY DEF TypeOK
  <1>1. PICK swept \in Expired(tombstones) :
          LET es == {e \in pending : Answers(e, a)} IN
          \/ \E e \in es :
               /\ IF Agrees(e, a) THEN Matched(e) ELSE Mismatched(e)
               /\ tombstones' = swept
          \/ /\ es = {}
             /\ tombstones' = IF a.counter < next THEN ConsumeTombstone(a, swept) ELSE swept
             /\ UNCHANGED <<pending, confirmed, next, toClient>>
    BY DEF Ack
  <1>2. swept \in Seq(Grave) /\ FitGraves(swept, next, pending)
    BY ExpiredFits DEF Fit
  <1>3. ASSUME NEW e \in pending, Matched(e), tombstones' = swept
        PROVE  KernelTypes' /\ Fit' /\ ServerInv'
    <2>1. /\ pending' = pending \ {e} /\ next' = next
          /\ confirmed' = [confirmed EXCEPT ![e.type] = e.value]
      BY <1>3 DEF Matched
    <2>2. e.value \in BOOLEAN
      BY DEF Entry
    <2>3. KernelTypes'
      BY <1>2, <1>3, <2>1, <2>2 DEF TypeOK, KernelTypes
    <2>4. FitPending(pending', next', desired') /\ FitGraves(tombstones', next', pending')
      BY <1>2, <1>3, <2>1 DEF Fit, FitPending, FitGraves
    <2> QED BY <2>3, <2>4 DEF Fit, ServerInv
  <1>4. ASSUME NEW e \in pending, Mismatched(e), tombstones' = swept
        PROVE  KernelTypes' /\ Fit' /\ ServerInv'
    <2> DEFINE new == [e EXCEPT !.counter = next, !.resends = @ + 1]
               rest == pending \ {e}
    <2>1. pending' = rest \cup {new} /\ next' = next + 1 /\ confirmed' = confirmed
      BY <1>4 DEF Mismatched
    <2>2. new \in Entry /\ new.type = e.type /\ new.counter = next /\ new.value = e.value
      <3>1. e \in Entry
        OBVIOUS
      <3>2. e.resends \in Nat /\ e.resends + 1 \in Nat
        BY <3>1 DEF Entry
      <3> QED BY <3>1, <3>2 DEF Entry
    <2>3. rest \subseteq Entry /\ \A f \in rest : f.type # e.type
      BY DEF Fit, FitPending
    <2>4. \A f \in rest : f.counter \in Nat /\ f.counter < next /\ f.value = desired[f.type]
      BY <2>3 DEF Fit, FitPending, Entry
    <2>5. e.value = desired[e.type] /\ \A f, g \in rest : f.type = g.type \/ f.counter = g.counter => f = g
      BY DEF Fit, FitPending
    <2>6. \A f \in rest \cup {new} : (\E g \in pending : f.counter = g.counter) \/ f.counter >= next
      <3>1. \A f \in rest : f \in pending
        OBVIOUS
      <3> HIDE DEF rest, new
      <3> QED BY <2>2, <3>1
    <2> HIDE DEF new, rest
    <2>7. FitPending(rest \cup {new}, next + 1, desired)
      BY <2>2, <2>3, <2>4, <2>5 DEF FitPending
    <2>8. FitGraves(swept, next + 1, rest \cup {new})
      BY <1>2, <2>2, <2>3, <2>6, FitGravesLater
    <2>9. KernelTypes'
      BY <1>2, <1>4, <2>1, <2>2, <2>3 DEF TypeOK, KernelTypes
    <2> QED BY <1>4, <2>1, <2>7, <2>8, <2>9 DEF Fit, ServerInv
  <1>5. ASSUME UNCHANGED <<pending, confirmed, next>>,
               tombstones' = swept \/ tombstones' = ConsumeTombstone(a, swept)
        PROVE  KernelTypes' /\ Fit' /\ ServerInv'
    <2>1. tombstones' \in Seq(Grave) /\ FitGraves(tombstones', next, pending)
      BY <1>2, <1>5, ConsumedFits
    <2> QED BY <1>5, <2>1 DEF TypeOK, KernelTypes, Fit, ServerInv
  <1> QED BY <1>1, <1>3, <1>4, <1>5

LEMMA KernelFits ==
  ASSUME IInv, [Next]_vars
  PROVE  KernelTypes' /\ Fit' /\ ServerInv'
  <1>1. ASSUME UNCHANGED kernelVars
        PROVE  KernelTypes' /\ Fit' /\ ServerInv'
    BY <1>1 DEF kernelVars, IInv, TypeOK, KernelTypes, Fit, ServerInv
  <1>2. ASSUME NEW t \in Types, NEW v \in BOOLEAN, Apply(t, v)
        PROVE  KernelTypes' /\ Fit' /\ ServerInv'
    BY <1>2, ApplyServerFits, ApplyAckedFits, ApplyRateFits DEF Apply, ApplyServer
  <1>3. ASSUME NEW t \in Types, NEW v \in BOOLEAN, Adopt(t, v)
        PROVE  KernelTypes' /\ Fit' /\ ServerInv'
    BY <1>3, ApplyServerFits DEF Adopt
  <1>4. CASE Revoke \/ Grant
    BY <1>4, ModeFits
  <1>5. CASE Tick
    <2>1. tombstones' \in Seq(Grave) /\ FitGraves(tombstones', next, pending)
      BY <1>5, ExpiredFits DEF Tick, IInv, TypeOK, Fit
    <2> QED BY <1>5, <2>1 DEF Tick, IInv, TypeOK, KernelTypes, Fit, ServerInv
  <1>6. CASE EnterWorld
    BY <1>6, EpochFits
  <1>7. CASE HandleMovementAck
    <2>1. /\ UNCHANGED <<mode, desired>>
          /\ \/ mode = "client" /\ Ack(Head(acks))
             \/ UNCHANGED <<pending, confirmed, tombstones, next>>
      BY <1>7 DEF HandleMovementAck
    <2>2. CASE mode = "client" /\ Ack(Head(acks))
      <3>1. PICK a : a = Head(acks)
        OBVIOUS
      <3>2. Ack(a)
        BY <2>2, <3>1 DEF Ack
      <3>3. UNCHANGED <<mode, desired>> /\ mode = "client"
        BY <2>1, <2>2
      <3> QED BY <3>2, <3>3, AckFits
    <2>3. CASE UNCHANGED <<pending, confirmed, tombstones, next>>
      <3>1. UNCHANGED kernelVars
        BY <2>1, <2>3 DEF kernelVars
      <3> QED BY <1>1, <3>1
    <2> QED BY <2>1, <2>2, <2>3
  <1>8. CASE LeaveWorld \/ ClientTakes \/ Stray \/ UNCHANGED vars
    BY <1>1, <1>8 DEF LeaveWorld, ClientTakes, Stray, vars
  <1> QED BY <1>2, <1>3, <1>4, <1>5, <1>6, <1>7, <1>8 DEF Next

-----------------------------------------------------------------------------
\* What is on its way.
Packets == [type : Types, value : BOOLEAN, counter : {None}]
             \cup [type : Acked, value : BOOLEAN, counter : Nat]
Creates == [create : [OnClients -> BOOLEAN]]
Wire    == Packets \cup Creates
Answered == [type : Acked, counter : Nat, value : BOOLEAN]

WireTypes ==
  /\ toClient \in Seq(Wire) /\ acks \in Seq(Answered)
  /\ client \in [OnClients -> BOOLEAN]
RestTypes ==
  /\ mode \in {"server", "client"} /\ inWorld \in BOOLEAN
  /\ wrong \in BOOLEAN
  /\ ops \in Nat /\ faults \in Nat /\ unheard \subseteq Nat /\ unsaid \subseteq Flags

LEMMA ThreeParts == TypeOK <=> KernelTypes /\ WireTypes /\ RestTypes
  BY DEF TypeOK, KernelTypes, WireTypes, RestTypes, Wire, Packets, Creates, Answered

LEMMA WireFacts ==
  /\ \A p \in Packets : "type" \in DOMAIN p /\ "create" \notin DOMAIN p
  /\ \A p \in Creates : "create" \in DOMAIN p /\ "type" \notin DOMAIN p
  BY DEF Packets, Creates

LEMMA PacketTypes ==
  ASSUME NEW t \in Types, NEW v \in BOOLEAN, NEW n, n = None \/ (n \in Nat /\ t \in Acked)
  PROVE  /\ Packet(t, v, n) \in Packets /\ Packet(t, v, n) \in Wire
         /\ Packet(t, v, n).type = t /\ Packet(t, v, n).value = v /\ Packet(t, v, n).counter = n
  BY DEF Packet, Packets, Wire

\* One packet more, or none when the unit is not in the world.
LEMMA OneMore ==
  ASSUME NEW q \in Seq(Wire), NEW p \in Wire
  PROVE  /\ q \o <<p>> \in Seq(Wire)
         /\ DOMAIN (q \o <<p>>) = 1..Len(q) + 1
         /\ DOMAIN q = 1..Len(q) /\ Len(q) \in Nat
         /\ \A i \in 1..Len(q) : (q \o <<p>>)[i] = q[i]
         /\ (q \o <<p>>)[Len(q) + 1] = p
  <1>1. <<p>> \in Seq(Wire) /\ Len(<<p>>) = 1 /\ <<p>>[1] = p
    OBVIOUS
  <1>2. /\ q \o <<p>> \in Seq(Wire) /\ Len(q \o <<p>>) = Len(q) + 1
        /\ \A i \in 1..Len(q) + 1 :
             (q \o <<p>>)[i] = IF i <= Len(q) THEN q[i] ELSE <<p>>[i - Len(q)]
    BY <1>1, ConcatProperties
  <1>3. Len(q) \in Nat /\ DOMAIN q = 1..Len(q)
    OBVIOUS
  <1>4. DOMAIN (q \o <<p>>) = 1..Len(q) + 1
    BY <1>2
  <1>5. \A i \in 1..Len(q) : (q \o <<p>>)[i] = q[i]
    BY <1>2, <1>3
  <1>6. (q \o <<p>>)[Len(q) + 1] = p
    <2>1. Len(q) + 1 \in 1..Len(q) + 1 /\ ~(Len(q) + 1 <= Len(q)) /\ Len(q) + 1 - Len(q) = 1
      BY <1>3
    <2> QED BY <1>1, <1>2, <2>1
  <1> QED BY <1>2, <1>3, <1>4, <1>5, <1>6

\* What a new epoch sends: everything on its way, the create, the snapshot.
EpochSent(l, o) ==
  /\ toClient' \in Seq(Wire)
  /\ DOMAIN toClient' = 1..Len(toClient) + 1 + l
  /\ \A i \in 1..Len(toClient) : toClient'[i] = toClient[i]
  /\ toClient'[Len(toClient) + 1] \in Creates
  /\ toClient'[Len(toClient) + 1].create = Created
  /\ \A i \in 1..l : o[i] \in Snapshot
  /\ \A t \in Snapshot : \E i \in 1..l : o[i] = t
  /\ \A i \in 1..l :
       toClient'[Len(toClient) + 1 + i] =
         Packet(o[i], desired[o[i]], IF mode = "client" THEN next + i - 1 ELSE None)

LEMMA EpochSends ==
  ASSUME TypeOK, EnterWorld
  PROVE  \E l \in Nat : \E o \in [1..l -> Acked] :
           /\ \A i, j \in 1..l : o[i] = o[j] => i = j
           /\ EpochSent(l, o)
           /\ IF mode = "client"
              THEN /\ pending' = {[type |-> o[i], counter |-> next + i - 1,
                                  value |-> desired[o[i]], resends |-> 0] : i \in 1..l}
                   /\ next' = next + l
              ELSE pending' = {} /\ next' = next
  <1> DEFINE fresh(i) == IF mode = "client" THEN next + i - 1 ELSE None
             create   == <<[create |-> Created]>>
             reissue(o) == [i \in DOMAIN o |-> Packet(o[i], desired[o[i]], fresh(i))]
  <1>1. PICK o \in Orders :
          /\ toClient' = toClient \o create \o reissue(o)
          /\ IF mode = "client"
             THEN /\ pending' = {[type |-> o[i], counter |-> next + i - 1,
                                  value |-> desired[o[i]], resends |-> 0] : i \in DOMAIN o}
                  /\ next' = next + Len(o)
             ELSE pending' = {} /\ next' = next
    BY DEF EnterWorld
  <1>2. Snapshot \subseteq Acked
    BY KindFacts DEF Snapshot
  <1>3. /\ Cardinality(Snapshot) \in Nat
        /\ o \in [1..Cardinality(Snapshot) -> Snapshot]
        /\ \A i, j \in 1..Cardinality(Snapshot) : o[i] = o[j] => i = j
    <2>1. IsFiniteSet(Acked)
      BY MotionAssumption, FS_Union DEF Acked
    <2>2. IsFiniteSet(Snapshot)
      BY <1>2, <2>1, FS_Subset
    <2> QED BY <2>2, FS_CardinalityType DEF Orders
  <1>21. \A t \in Snapshot : \E i \in 1..Cardinality(Snapshot) : o[i] = t
    <2>1. IsFiniteSet(Snapshot)
      BY <1>2, MotionAssumption, FS_Union, FS_Subset DEF Acked
    <2>2. IsFiniteSet(1..Cardinality(Snapshot)) /\ Cardinality(1..Cardinality(Snapshot)) = Cardinality(Snapshot)
      BY <1>3, FS_Interval
    <2>3. o \in Injection(1..Cardinality(Snapshot), Snapshot)
      BY <1>3 DEF Injection, IsInjective
    <2>4. o \in Surjection(1..Cardinality(Snapshot), Snapshot)
      BY <2>1, <2>2, <2>3, FS_Injection
    <2> QED BY <2>4 DEF Surjection
  <1>22. \A i \in 1..Cardinality(Snapshot) : o[i] \in Snapshot
    BY <1>3
  <1> DEFINE l == Cardinality(Snapshot)
  <1>23. (\A t \in Snapshot : \E i \in 1..l : o[i] = t) /\ \A i \in 1..l : o[i] \in Snapshot
    BY <1>21, <1>22
  <1>4. l \in Nat /\ o \in [1..l -> Acked] /\ DOMAIN o = 1..l /\ Len(o) = l
    BY <1>2, <1>3
  <1>5. \A i, j \in 1..l : o[i] = o[j] => i = j
    BY <1>3
  <1> HIDE DEF l
  <1>6. ASSUME NEW i \in 1..l
        PROVE  reissue(o)[i] \in Wire
    <2>1. o[i] \in Types /\ o[i] \in Acked /\ desired[o[i]] \in BOOLEAN
      BY <1>4, KindFacts DEF TypeOK
    <2>2. fresh(i) = None \/ fresh(i) \in Nat
      BY <1>4 DEF TypeOK
    <2>3. reissue(o)[i] = Packet(o[i], desired[o[i]], fresh(i))
      BY <1>4
    <2> HIDE DEF reissue, fresh
    <2>4. Packet(o[i], desired[o[i]], fresh(i)) \in Wire
      BY <2>1, <2>2, PacketTypes
    <2> QED BY <2>3, <2>4
  <1>7. reissue(o) \in Seq(Wire) /\ Len(reissue(o)) = l
    <2>1. reissue(o) = [i \in 1..l |-> reissue(o)[i]]
      BY <1>4
    <2> HIDE DEF reissue
    <2>2. reissue(o) \in [1..l -> Wire]
      BY <1>6, <2>1
    <2> QED BY <1>4, <2>2, SeqDef
  <1>8. /\ \A i \in 1..l : reissue(o)[i] = Packet(o[i], desired[o[i]], fresh(i))
    BY <1>4
  <1> DEFINE c == [create |-> Created]
             n == Len(toClient)
             q == toClient \o <<c>>
             r == reissue(o)
  <1>9. c \in Creates /\ c \in Wire /\ c.create = Created
    <2>1. Created \in [OnClients -> BOOLEAN]
      BY KindFacts DEF Created, TypeOK
    <2> QED BY <2>1 DEF Creates, Wire
  <1>10. toClient \in Seq(Wire)
    BY ThreeParts DEF WireTypes
  <1>11. toClient' = q \o r
    BY <1>1
  <1>12. r \in Seq(Wire) /\ Len(r) = l /\ \A i \in 1..l : r[i] = Packet(o[i], desired[o[i]], fresh(i))
    BY <1>7, <1>8
  <1> HIDE DEF c, r, reissue
  <1>13. /\ q \in Seq(Wire) /\ n \in Nat /\ DOMAIN q = 1..n + 1
         /\ \A i \in 1..n : q[i] = toClient[i]
         /\ q[n + 1] = c
    BY <1>9, <1>10, OneMore
  <1> HIDE DEF q, n, fresh
  <1>14. Len(q) = n + 1
    BY <1>13
  <1>15. /\ q \o r \in Seq(Wire) /\ Len(q \o r) = n + 1 + l
         /\ \A i \in 1..n + 1 + l : (q \o r)[i] = IF i <= n + 1 THEN q[i] ELSE r[i - (n + 1)]
    <2>1. /\ q \o r \in Seq(Wire) /\ Len(q \o r) = Len(q) + Len(r)
          /\ \A i \in 1..Len(q) + Len(r) : (q \o r)[i] = IF i <= Len(q) THEN q[i] ELSE r[i - Len(q)]
      BY <1>12, <1>13, ConcatProperties
    <2> QED BY <1>12, <1>14, <2>1
  <1>16. DOMAIN (q \o r) = 1..n + 1 + l
    BY <1>15
  <1>17. \A i \in 1..n : (q \o r)[i] = toClient[i]
    BY <1>4, <1>13, <1>15
  <1>18. (q \o r)[n + 1] = c
    BY <1>4, <1>13, <1>15
  <1>19. ASSUME NEW i \in 1..l
         PROVE  (q \o r)[n + 1 + i] = Packet(o[i], desired[o[i]], fresh(i))
    <2> DEFINE k == n + 1 + i
    <2>1. k \in 1..n + 1 + l /\ ~(k <= n + 1) /\ k - (n + 1) = i
      BY <1>4, <1>13
    <2> HIDE DEF k
    <2>2. (q \o r)[k] = r[i]
      BY <1>15, <2>1
    <2> QED BY <1>12, <2>2 DEF k
  <1>20. EpochSent(l, o)
    BY <1>9, <1>11, <1>15, <1>16, <1>17, <1>18, <1>19, <1>23 DEF EpochSent, n, fresh
  <1> QED BY <1>1, <1>4, <1>5, <1>20

LEMMA WireStep ==
  ASSUME IInv, Next
  PROVE  WireTypes'
  <1> KernelTypes /\ WireTypes /\ RestTypes
    BY ThreeParts DEF IInv
  <1> USE DEF WireTypes
  <1>1. ASSUME NEW t \in Types, NEW v \in BOOLEAN, Apply(t, v)
        PROVE  WireTypes'
    <2>1. PICK n : (n = None \/ (n \in Nat /\ t \in Acked)) /\ Emit(<<Packet(t, v, n)>>)
      <3>1. Emit(<<Packet(t, v, None)>>) \/ (t \in Acked /\ Emit(<<Packet(t, v, next)>>))
        BY <1>1 DEF Apply, ApplyServer, ApplyAcked, ApplyRate
      <3> QED BY <3>1 DEF KernelTypes, Emit
    <2>2. Packet(t, v, n) \in Wire
      BY <2>1, PacketTypes
    <2>3. toClient' \in Seq(Wire)
      BY <2>1, <2>2, OneMore DEF Emit
    <2> QED BY <1>1, <2>3 DEF Apply
  <1>2. ASSUME NEW t \in Types, NEW v \in BOOLEAN, Adopt(t, v)
        PROVE  WireTypes'
    BY <1>2 DEF Adopt
  <1>3. CASE Revoke \/ Grant \/ Tick \/ LeaveWorld
    BY <1>3 DEF Revoke, Grant, Tick, LeaveWorld
  <1>4. CASE EnterWorld
    <2>1. toClient' \in Seq(Wire)
      BY <1>4, EpochSends DEF IInv, EpochSent
    <2> QED BY <1>4, <2>1 DEF EnterWorld
  <1>5. CASE ClientTakes
    <2> DEFINE p == Head(toClient)
    <2>1. toClient # <<>> /\ toClient' = Tail(toClient) /\ p \in Wire
      BY <1>5 DEF ClientTakes
    <2>2. toClient' \in Seq(Wire)
      BY <2>1
    <2>3. CASE "create" \in DOMAIN p
      <3>1. p \in Creates
        BY <2>1, <2>3, WireFacts DEF Wire
      <3>2. "type" \notin DOMAIN p
        BY <3>1, WireFacts
      <3>3. client' = p.create /\ acks' = acks
        BY <1>5, <2>3, <3>2 DEF ClientTakes
      <3>4. p.create \in [OnClients -> BOOLEAN]
        BY <3>1 DEF Creates
      <3> QED BY <2>2, <3>3, <3>4
    <2>4. CASE "create" \notin DOMAIN p
      <3>1. p \in Packets
        BY <2>1, <2>4, WireFacts DEF Wire
      <3>2. /\ p.value \in BOOLEAN /\ p.type \in Types
            /\ p.counter # None => p.type \in Acked /\ p.counter \in Nat
        BY <3>1, KindFacts DEF Packets
      <3>3. /\ client' = IF p.type \in Gaits THEN client ELSE [client EXCEPT ![p.type] = p.value]
            /\ IF p.counter = None THEN UNCHANGED <<acks, wrong, faults>>
               ELSE \E v \in BOOLEAN : Answer(p, v)
        BY <1>5, <2>4 DEF ClientTakes
      <3>4. client' \in [OnClients -> BOOLEAN]
        BY <3>2, <3>3
      <3>5. acks' \in Seq(Answered)
        <4>1. CASE p.counter = None
          BY <3>3, <4>1
        <4>2. CASE p.counter # None
          <5>1. PICK v \in BOOLEAN : Answer(p, v)
            BY <3>3, <4>2
          <5>2. [type |-> p.type, counter |-> p.counter, value |-> v] \in Answered
            BY <3>2, <4>2 DEF Answered
          <5> QED BY <5>1, <5>2 DEF Answer
        <4> QED BY <4>1, <4>2
      <3> QED BY <2>2, <3>4, <3>5
    <2> QED BY <2>3, <2>4
  <1>6. CASE Stray
    <2>1. PICK t \in Acked, n \in 0..next, v \in BOOLEAN :
            acks' = Append(acks, [type |-> t, counter |-> n, value |-> v])
      BY <1>6 DEF Stray
    <2>2. [type |-> t, counter |-> n, value |-> v] \in Answered
      BY DEF Answered, KernelTypes
    <2> QED BY <1>6, <2>1, <2>2 DEF Stray
  <1>7. CASE HandleMovementAck
    <2>1. acks' \in Seq(Answered) /\ client' = client
      BY <1>7 DEF HandleMovementAck
    <2>2. toClient' \in Seq(Wire)
      <3>1. \/ toClient' = toClient
            \/ \E e \in pending : Emit(<<Packet(e.type, e.value, next)>>)
        BY <1>7 DEF HandleMovementAck, Ack, Matched, Mismatched
      <3>2. ASSUME NEW e \in pending, Emit(<<Packet(e.type, e.value, next)>>)
            PROVE  toClient' \in Seq(Wire)
        <4>1. e.type \in Acked /\ e.type \in Types /\ e.value \in BOOLEAN /\ next \in Nat
          BY KindFacts DEF KernelTypes, Entry
        <4>2. Packet(e.type, e.value, next) \in Wire
          BY <4>1, PacketTypes
        <4> QED BY <3>2, <4>2, OneMore DEF Emit
      <3> QED BY <3>1, <3>2
    <2> QED BY <2>1, <2>2
  <1> QED BY <1>1, <1>2, <1>3, <1>4, <1>5, <1>6, <1>7 DEF Next

LEMMA RestStep ==
  ASSUME TypeOK, Next
  PROVE  RestTypes'
  <1> RestTypes /\ WireTypes
    BY ThreeParts
  <1> USE DEF RestTypes
  <1>1. ASSUME NEW t \in Types, NEW v \in BOOLEAN, Apply(t, v)
        PROVE  RestTypes'
    BY <1>1 DEF Apply, ApplyServer, ApplyAcked, ApplyRate, Decision
  <1>2. ASSUME NEW t \in Types, NEW v \in BOOLEAN, Adopt(t, v)
        PROVE  RestTypes'
    BY <1>2 DEF Adopt, Decision, historyVars
  <1>3. CASE Revoke \/ Grant
    <2>1. mode' \in {"server", "client"} /\ ops' \in Nat /\ unsaid' \subseteq Flags
      BY <1>3 DEF Revoke, Grant, Decision, historyVars
    <2>2. UNCHANGED <<inWorld, wrong, faults, unheard>>
      BY <1>3 DEF Revoke, Grant, historyVars
    <2> QED BY <2>1, <2>2
  <1>4. CASE Tick \/ LeaveWorld
    <2>1. ops' \in Nat /\ inWorld' \in BOOLEAN
      <3>1. CASE Tick
        BY <3>1 DEF Tick
      <3>2. CASE LeaveWorld
        <4>1. ops' = ops + 1 /\ inWorld' = FALSE
          BY <3>2 DEF LeaveWorld, Decision
        <4>2. ops \in Nat
          OBVIOUS
        <4>3. ops' \in Nat
          BY <4>1, <4>2
        <4> QED BY <4>1, <4>3
      <3> QED BY <1>4, <3>1, <3>2
    <2>2. UNCHANGED <<mode, wrong, faults, unheard, unsaid>>
      BY <1>4 DEF Tick, LeaveWorld, historyVars, kernelVars
    <2> QED BY <2>1, <2>2
  <1>5. CASE EnterWorld
    BY <1>5 DEF EnterWorld, Decision
  <1>6. CASE ClientTakes
    <2>1. UNCHANGED <<wrong, faults>> \/ \E v \in BOOLEAN : Answer(Head(toClient), v)
      BY <1>6 DEF ClientTakes
    <2>2. wrong' \in BOOLEAN /\ faults' \in Nat
      <3>1. ASSUME NEW v \in BOOLEAN, Answer(Head(toClient), v)
            PROVE  wrong' \in BOOLEAN /\ faults' \in Nat
        <4>1. wrong' \in BOOLEAN
          BY <3>1 DEF Answer
        <4>2. faults' = faults \/ faults' = faults + 1
          BY <3>1 DEF Answer
        <4> QED BY <4>1, <4>2
      <3> QED BY <2>1, <3>1
    <2>3. UNCHANGED <<mode, inWorld, ops, unheard, unsaid>>
      BY <1>6 DEF ClientTakes, kernelVars
    <2> QED BY <2>2, <2>3
  <1>7. CASE Stray
    BY <1>7 DEF Stray, kernelVars
  <1>8. CASE HandleMovementAck
    <2>1. acks # <<>> /\ Head(acks) \in Answered
      BY <1>8 DEF HandleMovementAck, WireTypes
    <2>2. Head(acks).counter \in Nat
      BY <2>1 DEF Answered
    <2>3. faults' \in Nat /\ unheard' \subseteq Nat
      <3>1. \/ UNCHANGED <<faults, unheard>>
            \/ faults' = faults + 1 /\ unheard' = unheard \cup {Head(acks).counter}
        BY <1>8 DEF HandleMovementAck
      <3>2. faults \in Nat /\ unheard \subseteq Nat
        OBVIOUS
      <3>3. faults + 1 \in Nat
        BY <3>2
      <3> QED BY <2>2, <3>1, <3>2, <3>3
    <2>4. UNCHANGED <<mode, inWorld, wrong, ops, unsaid>>
      BY <1>8 DEF HandleMovementAck
    <2> QED BY <2>3, <2>4
  <1> QED BY <1>1, <1>2, <1>3, <1>4, <1>5, <1>6, <1>7, <1>8 DEF Next

LEMMA InitInv == Init => IInv
  <1> SUFFICES ASSUME Init PROVE IInv
    OBVIOUS
  <1> USE DEF Init
  <1>1. TypeOK
    <2>1. /\ desired \in [Types -> BOOLEAN] /\ confirmed \in [Types -> BOOLEAN]
          /\ client \in [OnClients -> BOOLEAN]
      OBVIOUS
    <2>2. tombstones \in Seq(Grave) /\ toClient \in Seq(Wire) /\ acks \in Seq(Answered)
      OBVIOUS
    <2> QED BY <2>1, <2>2, ThreeParts DEF KernelTypes, WireTypes, RestTypes
  <1> QED BY <1>1 DEF IInv, Fit, FitPending, FitGraves, ServerInv

LEMMA StepInv == IInv /\ [Next]_vars => IInv'
  <1> SUFFICES ASSUME IInv, [Next]_vars PROVE IInv'
    OBVIOUS
  <1>1. KernelTypes' /\ Fit' /\ ServerInv'
    BY KernelFits
  <1>2. WireTypes' /\ RestTypes'
    <2>1. CASE Next
      BY <2>1, WireStep, RestStep DEF IInv
    <2>2. CASE UNCHANGED vars
      BY <2>2, ThreeParts DEF IInv, vars, historyVars, WireTypes, RestTypes, kernelVars
    <2> QED BY <2>1, <2>2
  <1>3. TypeOK'
    BY <1>1, <1>2 DEF TypeOK, KernelTypes, WireTypes, RestTypes, Wire, Packets, Creates, Answered
  <1> QED BY <1>1, <1>3 DEF IInv

THEOREM Invariance == Spec => []IInv
  BY InitInv, StepInv, PTL DEF Spec

\* The kernel's state and the two queues keep their types; what awaits an
\* acknowledgement is of a kind that has one.
THEOREM MotionTypeCorrect == Spec => []TypeOK
  <1>1. IInv => TypeOK
    BY DEF IInv
  <1> QED BY <1>1, Invariance, PTL

\* One outstanding change of a type, the latest decided, and no counter twice
\* among those outstanding and remembered.
THEOREM CountersStayApart == Spec => []CountersApart
  <1>1. IInv => CountersApart
    BY TwoFits DEF IInv, Fit
  <1> QED BY <1>1, Invariance, PTL

-----------------------------------------------------------------------------
\* Nothing but what the client has done is confirmed: where the packet and
\* the answer of each outstanding change are.
IsPacket(p)   == "type" \in DOMAIN p
Touches(p, t) == ~IsPacket(p) \/ p.type = t

\* The packet of an outstanding change carries it, and is the last word on
\* its type on the way to the client.
Sent(e) ==
  \A i \in DOMAIN toClient : IsPacket(toClient[i]) /\ toClient[i].counter = e.counter =>
    /\ toClient[i].type = e.type /\ toClient[i].value = e.value
    /\ \A j \in DOMAIN toClient : j > i => ~Touches(toClient[j], e.type)

\* Once a fitting answer is on its way, the client has made the change, and
\* nothing on its way will undo it.
Heard(e) ==
  \A k \in DOMAIN acks : Answers(e, acks[k]) /\ Agrees(e, acks[k]) =>
    /\ client[e.type] = e.value
    /\ \A j \in DOMAIN toClient : ~Touches(toClient[j], e.type)

Issued ==
  /\ \A i \in DOMAIN toClient : IsPacket(toClient[i]) =>
       toClient[i].counter = None \/ toClient[i].counter < next
  /\ ~Strayed => \A k \in DOMAIN acks : acks[k].counter < next

\* The history of faults: wrong answers and answers thrown away are counted.
Counted ==
  /\ IsFiniteSet(unheard)
  /\ faults >= (IF wrong THEN 1 ELSE 0) + Cardinality(unheard)

Done == Issued /\ \A e \in pending : Sent(e) /\ (~Strayed => Heard(e))

LEMMA CountedStep ==
  ASSUME TypeOK, Counted, Next
  PROVE  Counted' /\ (Strayed => Strayed') /\ (Stray => Strayed')
  <1> DEFINE w == IF wrong THEN 1 ELSE 0
             c == Cardinality(unheard)
  <1>1. faults \in Nat /\ c \in Nat /\ w \in {0, 1} /\ faults >= w + c
    BY FS_CardinalityType DEF Counted, TypeOK
  <1>2. ASSUME UNCHANGED <<faults, wrong, unheard>>
        PROVE  Counted' /\ (Strayed => Strayed')
    BY <1>2 DEF Counted, Strayed
  <1>3. ASSUME Stray
        PROVE  Counted' /\ Strayed'
    <2>1. faults' = faults + 1 /\ wrong' = wrong /\ unheard' = unheard
      BY <1>3 DEF Stray
    <2> QED BY <1>1, <2>1 DEF Counted, Strayed
  <1>4. ASSUME UNCHANGED unheard, wrong' # wrong, wrong', faults' = faults + 1, wrong \in BOOLEAN
        PROVE  Counted' /\ (Strayed => Strayed')
    <2>1. ~wrong
      BY <1>4
    <2>2. w = 0 /\ (IF wrong' THEN 1 ELSE 0) = 1
      BY <1>4, <2>1
    <2> QED BY <1>1, <1>4, <2>2 DEF Counted, Strayed
  <1>5. ASSUME NEW n, unheard' = unheard \cup {n}, faults' = faults + 1, UNCHANGED wrong
        PROVE  Counted' /\ (Strayed => Strayed')
    <2>1. IsFiniteSet(unheard') /\ Cardinality(unheard') \in {c, c + 1}
      BY <1>5, FS_AddElement DEF Counted
    <2> HIDE DEF c
    <2>2. faults' >= w + Cardinality(unheard')
      BY <1>1, <1>5, <2>1
    <2>3. faults > w + c => faults' > w + Cardinality(unheard')
      BY <1>1, <1>5, <2>1
    <2> QED BY <1>5, <2>1, <2>2, <2>3 DEF Counted, Strayed, c
  <1>6. CASE ClientTakes
    <2>1. /\ unheard' = unheard
          /\ \/ UNCHANGED <<wrong, faults>>
             \/ \E v \in BOOLEAN : Answer(Head(toClient), v)
      BY <1>6 DEF ClientTakes
    <2>2. ASSUME NEW v \in BOOLEAN, Answer(Head(toClient), v)
          PROVE  UNCHANGED <<wrong, faults>> \/ (wrong' # wrong /\ wrong' /\ faults' = faults + 1)
      BY <2>2 DEF Answer, TypeOK
    <2>3. wrong \in BOOLEAN
      BY DEF TypeOK
    <2>4. UNCHANGED <<faults, wrong, unheard>>
            \/ (UNCHANGED unheard /\ wrong' # wrong /\ wrong' /\ faults' = faults + 1)
      BY <2>1, <2>2
    <2> QED BY <1>2, <1>3, <1>4, <2>3, <2>4
  <1>7. CASE HandleMovementAck
    <2>1. /\ wrong' = wrong
          /\ \/ UNCHANGED <<faults, unheard>>
             \/ faults' = faults + 1 /\ unheard' = unheard \cup {Head(acks).counter}
      BY <1>7 DEF HandleMovementAck
    <2> QED BY <1>2, <1>3, <1>5, <2>1
  <1>8. ASSUME \/ \E t \in Types, v \in BOOLEAN : Apply(t, v) \/ Adopt(t, v)
               \/ Revoke \/ Grant \/ Tick \/ LeaveWorld \/ EnterWorld
        PROVE  UNCHANGED <<faults, wrong, unheard>>
    BY <1>8 DEF Apply, Adopt, Revoke, Grant, Tick, LeaveWorld, EnterWorld, historyVars
  <1> QED BY <1>2, <1>3, <1>6, <1>7, <1>8 DEF Next

LEMMA FirstAndRest ==
  ASSUME NEW S, NEW q \in Seq(S), q # <<>>
  PROVE  /\ 1 \in DOMAIN q /\ Head(q) = q[1] /\ Head(q) \in S
         /\ DOMAIN Tail(q) \subseteq Nat
         /\ \A i \in DOMAIN Tail(q) : i + 1 \in DOMAIN q /\ Tail(q)[i] = q[i + 1] /\ i >= 1
  <1>1. Len(q) \in Nat /\ Len(q) >= 1 /\ DOMAIN q = 1..Len(q)
    OBVIOUS
  <1>2. Tail(q) \in Seq(S) /\ Len(Tail(q)) = Len(q) - 1 /\ DOMAIN Tail(q) = 1..Len(q) - 1
    BY <1>1
  <1> QED BY <1>1, <1>2

\* A packet of another change is sent.
LEMMA OtherSent ==
  ASSUME TypeOK, NEW e \in Entry, Sent(e), NEW t \in Types, NEW v \in BOOLEAN, NEW n,
         n = None \/ (n \in Nat /\ t \in Acked), t # e.type, n # e.counter,
         UNCHANGED toClient \/ Emit(<<Packet(t, v, n)>>)
  PROVE  Sent(e)'
  <1> DEFINE p == Packet(t, v, n)
  <1>1. p \in Wire /\ p.type = t /\ p.counter = n /\ p \in Packets
    BY PacketTypes
  <1>2. IsPacket(p)
    BY <1>1, WireFacts DEF IsPacket
  <1>3. toClient \in Seq(Wire)
    BY ThreeParts DEF WireTypes
  <1> HIDE DEF p
  <1>4. CASE toClient' = toClient \o <<p>>
    <2>1. /\ DOMAIN toClient' = 1..Len(toClient) + 1 /\ DOMAIN toClient = 1..Len(toClient)
          /\ Len(toClient) \in Nat
          /\ \A i \in 1..Len(toClient) : toClient'[i] = toClient[i]
          /\ toClient'[Len(toClient) + 1] = p
      BY <1>1, <1>3, <1>4, OneMore
    <2>2. ASSUME NEW i \in DOMAIN toClient'
          PROVE  \/ i \in DOMAIN toClient /\ toClient'[i] = toClient[i]
                 \/ i = Len(toClient) + 1 /\ toClient'[i] = p
      <3>1. i \in 1..Len(toClient) \/ i = Len(toClient) + 1
        BY <2>1
      <3> QED BY <2>1, <3>1
    <2>3. ~Touches(p, e.type)
      BY <1>1, <1>2 DEF Touches
    <2> QED BY <1>1, <2>1, <2>2, <2>3 DEF Sent
  <1>5. CASE toClient' = toClient
    BY <1>5 DEF Sent
  <1> QED BY <1>4, <1>5 DEF Emit, p

LEMMA OtherHeard ==
  ASSUME TypeOK, NEW e \in Entry, Heard(e), NEW t \in Types, NEW v \in BOOLEAN, NEW n,
         n = None \/ (n \in Nat /\ t \in Acked), t # e.type,
         UNCHANGED toClient \/ Emit(<<Packet(t, v, n)>>), UNCHANGED client,
         \A k \in DOMAIN acks' : \E l \in DOMAIN acks : acks'[k] = acks[l]
  PROVE  Heard(e)'
  <1> DEFINE p == Packet(t, v, n)
  <1>1. p \in Wire /\ p.type = t /\ p \in Packets
    BY PacketTypes
  <1>2. ~Touches(p, e.type)
    BY <1>1, WireFacts DEF IsPacket, Touches
  <1>3. toClient \in Seq(Wire)
    BY ThreeParts DEF WireTypes
  <1> HIDE DEF p
  <1>4. CASE toClient' = toClient \o <<p>>
    <2>1. /\ DOMAIN toClient' = 1..Len(toClient) + 1 /\ DOMAIN toClient = 1..Len(toClient)
          /\ Len(toClient) \in Nat
          /\ \A i \in 1..Len(toClient) : toClient'[i] = toClient[i]
          /\ toClient'[Len(toClient) + 1] = p
      BY <1>1, <1>3, <1>4, OneMore
    <2>2. \A i \in DOMAIN toClient' : \/ i \in DOMAIN toClient /\ toClient'[i] = toClient[i]
                                    \/ toClient'[i] = p
      BY <2>1
    <2> QED BY <1>2, <2>2 DEF Heard
  <1>5. CASE toClient' = toClient
    BY <1>5 DEF Heard
  <1> QED BY <1>4, <1>5 DEF Emit, p

\* A change under a fresh counter.
LEMMA FreshSent ==
  ASSUME TypeOK, Issued, NEW e \in Entry, e.counter = next,
         UNCHANGED toClient \/ Emit(<<Packet(e.type, e.value, next)>>)
  PROVE  Sent(e)'
  <1> DEFINE p == Packet(e.type, e.value, next)
  <1>1. e.type \in Acked /\ e.type \in Types /\ e.value \in BOOLEAN /\ next \in Nat
    BY KindFacts DEF TypeOK, Entry
  <1>2. p \in Wire /\ p.type = e.type /\ p.value = e.value
    BY <1>1, PacketTypes
  <1>3. toClient \in Seq(Wire)
    BY ThreeParts DEF WireTypes
  <1>4. \A i \in DOMAIN toClient : IsPacket(toClient[i]) => toClient[i].counter # next
    BY <1>1, MotionAssumption DEF Issued
  <1> HIDE DEF p
  <1>5. CASE toClient' = toClient \o <<p>>
    <2>1. /\ DOMAIN toClient' = 1..Len(toClient) + 1 /\ DOMAIN toClient = 1..Len(toClient)
          /\ Len(toClient) \in Nat
          /\ \A i \in 1..Len(toClient) : toClient'[i] = toClient[i]
          /\ toClient'[Len(toClient) + 1] = p
      BY <1>2, <1>3, <1>5, OneMore
    <2>2. ASSUME NEW i \in DOMAIN toClient'
          PROVE  \/ i \in DOMAIN toClient /\ toClient'[i] = toClient[i]
                 \/ i = Len(toClient) + 1 /\ toClient'[i] = p
      <3>1. i \in 1..Len(toClient) \/ i = Len(toClient) + 1
        BY <2>1
      <3> QED BY <2>1, <3>1
    <2>3. \A j \in DOMAIN toClient' : ~(j > Len(toClient) + 1)
      BY <2>1
    <2> QED BY <1>2, <1>4, <2>2, <2>3 DEF Sent
  <1>6. CASE toClient' = toClient
    BY <1>4, <1>6 DEF Sent
  <1> QED BY <1>5, <1>6 DEF Emit, p

LEMMA FreshHeard ==
  ASSUME TypeOK, Issued, ~Strayed, NEW e \in Entry, e.counter >= next,
         \A k \in DOMAIN acks' : \E l \in DOMAIN acks : acks'[k] = acks[l]
  PROVE  Heard(e)'
  <1>1. e.counter \in Nat /\ next \in Nat
    BY DEF TypeOK, Entry
  <1>2. \A k \in DOMAIN acks : acks[k].counter < next /\ acks[k].counter \in Nat
    <2>1. \A k \in DOMAIN acks : acks[k] \in Answered
      BY ThreeParts DEF WireTypes
    <2> QED BY <2>1 DEF Issued, Answered
  <1>3. \A k \in DOMAIN acks : acks[k].counter # e.counter
    BY <1>1, <1>2
  <1>4. \A k \in DOMAIN acks' : acks'[k].counter # e.counter
    BY <1>3
  <1> QED BY <1>4 DEF Heard, Answers

\* Packets sent carry None or a counter issued by then.
LEMMA IssuedOneMore ==
  ASSUME TypeOK, Issued, NEW t \in Types, NEW v \in BOOLEAN, NEW n,
         n = None \/ (n \in Nat /\ t \in Acked /\ n < next'),
         UNCHANGED toClient \/ Emit(<<Packet(t, v, n)>>), next' \in Nat, next <= next', Strayed => Strayed',
         \A k \in DOMAIN acks' : \E l \in DOMAIN acks : acks'[k] = acks[l]
  PROVE  Issued'
  <1> DEFINE p == Packet(t, v, n)
  <1>1. p \in Wire /\ p.counter = n
    BY PacketTypes
  <1>2. toClient \in Seq(Wire) /\ acks \in Seq(Answered) /\ next \in Nat
    BY ThreeParts DEF WireTypes, KernelTypes
  <1>3. ASSUME NEW m, m = None \/ m < next, m = None \/ m \in Nat
        PROVE  m = None \/ m < next'
    BY <1>2, <1>3
  <1>4. ASSUME NEW i \in DOMAIN toClient, IsPacket(toClient[i])
        PROVE  toClient[i].counter = None \/ toClient[i].counter < next'
    <2>1. toClient[i] \in Packets
      BY <1>2, <1>4, WireFacts DEF IsPacket, Wire
    <2>2. toClient[i].counter = None \/ toClient[i].counter \in Nat
      BY <2>1 DEF Packets
    <2> QED BY <1>3, <1>4, <2>2 DEF Issued
  <1> HIDE DEF p
  <1>5. ASSUME NEW i \in DOMAIN toClient'
        PROVE  (i \in DOMAIN toClient /\ toClient'[i] = toClient[i]) \/ toClient'[i] = p
    <2>1. CASE toClient' = toClient \o <<p>>
      <3>1. /\ DOMAIN toClient' = 1..Len(toClient) + 1 /\ DOMAIN toClient = 1..Len(toClient)
            /\ Len(toClient) \in Nat
            /\ \A j \in 1..Len(toClient) : toClient'[j] = toClient[j]
            /\ toClient'[Len(toClient) + 1] = p
        BY <1>1, <1>2, <2>1, OneMore
      <3>2. i \in 1..Len(toClient) \/ i = Len(toClient) + 1
        BY <3>1
      <3> QED BY <3>1, <3>2
    <2>2. CASE toClient' = toClient
      BY <2>2
    <2> QED BY <2>1, <2>2 DEF Emit, p
  <1>6. ASSUME NEW i \in DOMAIN toClient', IsPacket(toClient'[i])
        PROVE  toClient'[i].counter = None \/ toClient'[i].counter < next'
    BY <1>1, <1>4, <1>5, <1>6
  <1>7. ASSUME ~Strayed', NEW k \in DOMAIN acks'
        PROVE  acks'[k].counter < next'
    <2>1. PICK l \in DOMAIN acks : acks'[k] = acks[l]
      OBVIOUS
    <2>2. acks[l].counter \in Nat
      <3>1. acks[l] \in Answered
        BY <1>2
      <3> QED BY <3>1 DEF Answered
    <2> QED BY <1>2, <1>7, <2>1, <2>2 DEF Issued
  <1> QED BY <1>6, <1>7 DEF Issued

\* Nothing is outstanding any more.
LEMMA NothingPending ==
  ASSUME Issued', pending' = {}
  PROVE  Done'
  BY DEF Done

\* Nothing is sent, and answers are only taken.
LEMMA DoneKept ==
  ASSUME Done, UNCHANGED <<toClient, client, next>>, pending' \subseteq pending,
         Strayed => Strayed',
         \A k \in DOMAIN acks' : \E l \in DOMAIN acks : acks'[k] = acks[l]
  PROVE  Done'
  <1>1. Issued'
    BY DEF Done, Issued
  <1>2. ASSUME NEW e \in pending'
        PROVE  Sent(e)' /\ (~Strayed' => Heard(e)')
    <2>0. e \in pending
      OBVIOUS
    <2>1. Sent(e)'
      BY <2>0 DEF Done, Sent
    <2>2. ~Strayed' => Heard(e)'
      BY <2>0 DEF Done, Heard
    <2> QED BY <2>1, <2>2
  <1> QED BY <1>1, <1>2 DEF Done

LEMMA DoneApply ==
  ASSUME IInv, Done, NEW t \in Types, NEW v \in BOOLEAN, Apply(t, v), Strayed => Strayed'
  PROVE  Done'
  <1> TypeOK /\ Issued /\ next \in Nat /\ next <= next + 1 /\ next + 1 \in Nat
    BY DEF IInv, TypeOK, Done
  <1>1. UNCHANGED <<client, acks, mode>>
    BY DEF Apply
  <1>2. \A k \in DOMAIN acks' : \E l \in DOMAIN acks : acks'[k] = acks[l]
    BY <1>1
  <1>3. \A e \in pending : e \in Entry /\ e.counter \in Nat /\ e.type \in Acked /\ e.counter # None
    BY MotionAssumption DEF TypeOK, Entry
  <1>4. CASE ApplyServer(t, v)
    <2>1. pending' = {} /\ next' = next /\ Emit(<<Packet(t, v, None)>>)
      BY <1>4 DEF ApplyServer, IInv, ServerInv
    <2>2. next' \in Nat /\ next <= next'
      BY <2>1
    <2>3. Issued'
      BY <1>2, <2>1, <2>2, IssuedOneMore
    <2> QED BY <2>1, <2>3, NothingPending
  <1>5. CASE ApplyRate(t, v)
    <2>1. pending' = pending /\ next' = next + 1 /\ Emit(<<Packet(t, v, None)>>) /\ t \in Rates
      BY <1>5 DEF ApplyRate
    <2>2. next' \in Nat /\ next <= next'
      BY <2>1
    <2>3. Issued'
      BY <1>2, <2>1, <2>2, IssuedOneMore
    <2>4. ASSUME NEW e \in pending
          PROVE  Sent(e)' /\ (~Strayed' => Heard(e)')
      <3>1. t # e.type
        BY <1>3, <2>1, KindFacts
      <3>2. Sent(e)'
        BY <1>3, <2>1, <3>1, OtherSent DEF Done
      <3>3. ASSUME ~Strayed'
            PROVE  Heard(e)'
        BY <1>1, <1>2, <1>3, <2>1, <3>1, <3>3, OtherHeard DEF Done
      <3> QED BY <3>2, <3>3
    <2> QED BY <2>1, <2>3, <2>4 DEF Done
  <1>6. CASE ApplyAcked(t, v)
    <2> DEFINE rest == pending \ PendingOf(t)
    <2>1. /\ pending' = rest \cup {[type |-> t, counter |-> next, value |-> v, resends |-> 0]}
          /\ next' = next + 1
          /\ Emit(<<Packet(t, v, next)>>) /\ t \in Acked
      BY <1>6 DEF ApplyAcked, Open, OldGone
    <2>2. next' \in Nat /\ next <= next' /\ next < next'
      BY <2>1
    <2>3. Issued'
      BY <1>2, <2>1, <2>2, IssuedOneMore
    <2>4. PICK new \in Entry : new = [type |-> t, counter |-> next, value |-> v, resends |-> 0]
      BY <2>1 DEF Entry
    <2>. /\ new.type = t /\ new.counter = next /\ new.value = v /\ new.counter >= next
         /\ pending' = rest \cup {new}
      BY <2>1, <2>4
    <2>5. Sent(new)'
      BY <2>1, FreshSent
    <2>6. ~Strayed' => Heard(new)'
      BY <1>2, FreshHeard
    <2>7. ASSUME NEW e \in rest
          PROVE  Sent(e)' /\ (~Strayed' => Heard(e)')
      <3>1. e \in pending /\ t # e.type
        BY DEF PendingOf
      <3>2. next # e.counter
        BY <1>3, <3>1 DEF IInv, Fit, FitPending
      <3>3. Sent(e)'
        BY <1>3, <2>1, <3>1, <3>2, OtherSent DEF Done
      <3>4. ASSUME ~Strayed'
            PROVE  Heard(e)'
        BY <1>1, <1>2, <1>3, <2>1, <3>1, <3>4, OtherHeard DEF Done
      <3> QED BY <3>3, <3>4
    <2>8. \A e \in pending' : Sent(e)' /\ (~Strayed' => Heard(e)')
      BY <2>5, <2>6, <2>7
    <2> QED BY <2>3, <2>8 DEF Done
  <1> QED BY <1>4, <1>5, <1>6 DEF Apply

LEMMA DoneEpoch ==
  ASSUME IInv, Done, EnterWorld, Strayed => Strayed'
  PROVE  Done'
  <1> TypeOK /\ Issued /\ next \in Nat
    BY DEF IInv, TypeOK, Done
  <1>1. UNCHANGED <<acks, client, mode, desired>>
    BY DEF EnterWorld
  <1>2. PICK l \in Nat : \E o \in [1..l -> Acked] :
           /\ \A i, j \in 1..l : o[i] = o[j] => i = j
           /\ EpochSent(l, o)
           /\ IF mode = "client"
              THEN /\ pending' = {[type |-> o[i], counter |-> next + i - 1,
                                  value |-> desired[o[i]], resends |-> 0] : i \in 1..l}
                   /\ next' = next + l
              ELSE pending' = {} /\ next' = next
    BY EpochSends
  <1>3. PICK o \in [1..l -> Acked] :
           /\ \A i, j \in 1..l : o[i] = o[j] => i = j
           /\ EpochSent(l, o)
           /\ IF mode = "client"
              THEN /\ pending' = {[type |-> o[i], counter |-> next + i - 1,
                                  value |-> desired[o[i]], resends |-> 0] : i \in 1..l}
                   /\ next' = next + l
              ELSE pending' = {} /\ next' = next
    BY <1>2
  <1> DEFINE n == Len(toClient)
             fresh(i) == IF mode = "client" THEN next + i - 1 ELSE None
  <1>4. toClient \in Seq(Wire) /\ acks \in Seq(Answered) /\ n \in Nat /\ DOMAIN toClient = 1..n
    BY ThreeParts DEF WireTypes
  <1>5. /\ \A i \in 1..n : toClient'[i] = toClient[i]
        /\ DOMAIN toClient' = 1..n + 1 + l
        /\ toClient'[n + 1] \in Creates
        /\ \A i \in 1..l : toClient'[n + 1 + i] = Packet(o[i], desired[o[i]], fresh(i))
    BY <1>3 DEF EpochSent
  <1> HIDE DEF n, fresh
  <1>6. ~IsPacket(toClient'[n + 1])
    BY <1>5, WireFacts DEF IsPacket
  <1>7. ASSUME NEW i \in 1..l
        PROVE  /\ toClient'[n + 1 + i].type = o[i] /\ toClient'[n + 1 + i].value = desired[o[i]]
               /\ toClient'[n + 1 + i].counter = fresh(i) /\ IsPacket(toClient'[n + 1 + i])
    <2>1. o[i] \in Acked /\ o[i] \in Types /\ desired[o[i]] \in BOOLEAN
      BY KindFacts DEF TypeOK
    <2>2. fresh(i) = None \/ fresh(i) \in Nat
      BY <1>2 DEF fresh
    <2>3. Packet(o[i], desired[o[i]], fresh(i)) \in Packets
      BY <2>1, <2>2, PacketTypes
    <2>4. /\ Packet(o[i], desired[o[i]], fresh(i)).type = o[i]
          /\ Packet(o[i], desired[o[i]], fresh(i)).value = desired[o[i]]
          /\ Packet(o[i], desired[o[i]], fresh(i)).counter = fresh(i)
      BY <2>1, <2>2, PacketTypes
    <2> QED BY <1>5, <2>3, <2>4, WireFacts DEF IsPacket
  <1>8. ASSUME NEW j \in DOMAIN toClient'
        PROVE  j \in 1..n \/ j = n + 1 \/ \E i \in 1..l : j = n + 1 + i
    <2>1. j \in Nat /\ j >= 1 /\ j <= n + 1 + l
      BY <1>4, <1>5
    <2>2. CASE j > n + 1
      <3>1. j - (n + 1) \in 1..l /\ j = n + 1 + (j - (n + 1))
        BY <1>4, <2>1, <2>2
      <3> QED BY <3>1
    <2>3. CASE ~(j > n + 1)
      BY <1>4, <2>1, <2>3
    <2> QED BY <2>2, <2>3
  <1>9. ASSUME NEW i \in 1..n, IsPacket(toClient[i])
        PROVE  toClient[i].counter = None \/ (toClient[i].counter \in Nat /\ toClient[i].counter < next)
    <2>1. toClient[i] \in Packets
      BY <1>4, <1>9, WireFacts DEF IsPacket, Wire
    <2>2. toClient[i].counter = None \/ toClient[i].counter \in Nat
      BY <2>1 DEF Packets
    <2> QED BY <1>4, <1>9, <2>2 DEF Issued
  <1>10. next' \in Nat /\ next <= next' /\ (mode = "client" => next' = next + l)
    BY <1>2, <1>3
  <1>11. Issued'
    <2>1. ASSUME NEW j \in DOMAIN toClient', IsPacket(toClient'[j])
          PROVE  toClient'[j].counter = None \/ toClient'[j].counter < next'
      <3>1. CASE j \in 1..n
        BY <1>5, <1>9, <1>10, <2>1, <3>1
      <3>2. ASSUME NEW i \in 1..l, j = n + 1 + i
            PROVE  toClient'[j].counter = None \/ toClient'[j].counter < next'
        BY <1>2, <1>7, <1>10, <3>2 DEF fresh
      <3> QED BY <1>6, <1>8, <2>1, <3>1, <3>2
    <2>2. ASSUME ~Strayed', NEW k \in DOMAIN acks
          PROVE  acks[k].counter < next'
      <3>1. acks[k] \in Answered
        BY <1>4
      <3>2. acks[k].counter \in Nat /\ acks[k].counter < next
        BY <2>2, <3>1 DEF Answered, Issued
      <3> QED BY <1>10, <3>2
    <2> QED BY <1>1, <2>1, <2>2 DEF Issued
  <1>12. CASE mode # "client"
    BY <1>3, <1>11, <1>12, NothingPending
  <1>13. CASE mode = "client"
    <2>1. ASSUME NEW e \in pending'
          PROVE  Sent(e)' /\ (~Strayed' => Heard(e)')
      <3>1. PICK i \in 1..l : e = [type |-> o[i], counter |-> next + i - 1,
                                  value |-> desired[o[i]], resends |-> 0]
        BY <1>3, <1>13
      <3>2. /\ e.type = o[i] /\ e.counter = next + i - 1 /\ e.value = desired[o[i]]
            /\ e \in Entry /\ e.counter >= next /\ e.counter \in Nat
        <4>1. next + i - 1 \in Nat /\ next + i - 1 >= next
          BY <1>2
        <4>2. o[i] \in Acked /\ desired[o[i]] \in BOOLEAN
          BY KindFacts DEF TypeOK
        <4> QED BY <3>1, <4>1, <4>2 DEF Entry
      <3>3. ASSUME NEW j \in DOMAIN toClient', IsPacket(toClient'[j]), toClient'[j].counter = e.counter
            PROVE  j = n + 1 + i
        <4>1. j \notin 1..n
          BY <1>5, <1>9, <3>2, <3>3, MotionAssumption
        <4>2. PICK x \in 1..l : j = n + 1 + x
          BY <1>6, <1>8, <3>3, <4>1
        <4>3. next + x - 1 = next + i - 1
          BY <1>7, <1>13, <3>2, <3>3, <4>2 DEF fresh
        <4> QED BY <1>2, <4>2, <4>3
      <3>4. ASSUME NEW j \in DOMAIN toClient', j > n + 1 + i
            PROVE  ~Touches(toClient'[j], e.type)
        <4>0. j \notin 1..n /\ j # n + 1
          <5>1. j \in Nat /\ j > n + 1
            BY <1>2, <1>4, <1>5, <3>4
          <5> QED BY <1>4, <5>1
        <4>1. PICK x \in 1..l : j = n + 1 + x
          BY <1>8, <3>4, <4>0
        <4>2. x # i
          BY <1>2, <1>4, <3>4, <4>1
        <4>3. o[x] # o[i]
          BY <1>3, <4>2
        <4> QED BY <1>7, <3>2, <4>1, <4>3 DEF Touches
      <3>5. Sent(e)'
        BY <1>7, <3>2, <3>3, <3>4 DEF Sent
      <3>6. \A k \in DOMAIN acks' : \E m \in DOMAIN acks : acks'[k] = acks[m]
        BY <1>1
      <3>7. ~Strayed' => Heard(e)'
        BY <3>2, <3>6, FreshHeard
      <3> QED BY <3>5, <3>7
    <2> QED BY <1>11, <2>1 DEF Done
  <1> QED BY <1>12, <1>13

LEMMA DoneAck ==
  ASSUME IInv, Done, HandleMovementAck, Strayed => Strayed'
  PROVE  Done'
  <1> TypeOK /\ Issued /\ next \in Nat /\ next <= next + 1 /\ next < next + 1 /\ next + 1 \in Nat
    BY DEF IInv, TypeOK, Done
  <1>1. acks # <<>> /\ acks' = Tail(acks) /\ UNCHANGED <<client, mode, desired>>
    BY DEF HandleMovementAck
  <1>2. \A k \in DOMAIN acks' : \E l \in DOMAIN acks : acks'[k] = acks[l]
    <2>1. acks \in Seq(Answered)
      BY ThreeParts DEF WireTypes
    <2> QED BY <1>1, <2>1, FirstAndRest
  <1>3. CASE UNCHANGED <<pending, next, toClient>>
    BY <1>1, <1>2, <1>3, DoneKept
  <1>4. ASSUME NEW e \in pending, Matched(e)
        PROVE  Done'
    <2>1. pending' \subseteq pending /\ UNCHANGED <<next, toClient>>
      BY <1>4 DEF Matched
    <2> QED BY <1>1, <1>2, <2>1, DoneKept
  <1>5. ASSUME NEW e \in pending, Mismatched(e)
        PROVE  Done'
    <2>1. e \in Entry /\ e.type \in Acked /\ e.type \in Types /\ e.value \in BOOLEAN /\ e.resends + 1 \in Nat
      BY KindFacts DEF TypeOK, Entry
    <2>2. PICK new \in Entry : new = [e EXCEPT !.counter = next, !.resends = @ + 1]
      BY <2>1 DEF Entry
    <2>3. /\ new.type = e.type /\ new.value = e.value /\ new.counter = next /\ new.counter >= next
      BY <2>1, <2>2 DEF Entry
    <2>4. /\ pending' = (pending \ {e}) \cup {new} /\ next' = next + 1
          /\ UNCHANGED toClient \/ Emit(<<Packet(e.type, e.value, next)>>)
      BY <1>5, <2>2 DEF Mismatched
    <2>5. Sent(new)'
      BY <2>3, <2>4, FreshSent
    <2>6. ~Strayed' => Heard(new)'
      BY <1>2, <2>3, FreshHeard
    <2>7. ASSUME NEW f \in pending, f # e
          PROVE  Sent(f)' /\ (~Strayed' => Heard(f)')
      <3>1. f \in Entry /\ f.counter \in Nat /\ f.counter < next /\ f.counter # next
        BY DEF IInv, Fit, FitPending, TypeOK, Entry
      <3>2. f.type # e.type
        BY <2>7 DEF IInv, Fit, FitPending
      <3>3. Sent(f)'
        BY <2>1, <2>4, <3>1, <3>2, OtherSent DEF Done
      <3>4. ASSUME ~Strayed'
            PROVE  Heard(f)'
        BY <1>1, <1>2, <2>1, <2>4, <3>1, <3>2, <3>4, OtherHeard DEF Done
      <3> QED BY <3>3, <3>4
    <2>8. next' \in Nat /\ next <= next' /\ next < next'
      BY <2>4
    <2>9. Issued'
      BY <1>2, <2>1, <2>4, <2>8, IssuedOneMore
    <2>10. \A f \in pending' : Sent(f)' /\ (~Strayed' => Heard(f)')
      BY <2>4, <2>5, <2>6, <2>7
    <2> QED BY <2>9, <2>10 DEF Done
  <1>6. ASSUME Ack(Head(acks))
        PROVE  Done'
    <2>1. PICK a : a = Head(acks)
      OBVIOUS
    <2>2. Ack(a)
      BY <1>6, <2>1 DEF Ack
    <2>3. \/ \E e \in pending : Matched(e) \/ Mismatched(e)
          \/ UNCHANGED <<pending, next, toClient>>
      BY <2>2 DEF Ack
    <2> QED BY <1>3, <1>4, <1>5, <2>3
  <1> QED BY <1>3, <1>6 DEF HandleMovementAck

LEMMA DoneTakes ==
  ASSUME IInv, Done, ClientTakes, Strayed => Strayed'
  PROVE  Done'
  <1> TypeOK /\ Issued
    BY DEF IInv, Done
  <1>1. PICK p : p = Head(toClient)
    OBVIOUS
  <1>2. /\ toClient # <<>> /\ toClient' = Tail(toClient) /\ UNCHANGED <<pending, next>>
        /\ \/ /\ "create" \in DOMAIN p /\ acks' = acks
           \/ /\ "type" \in DOMAIN p
              /\ client' = IF p.type \in Gaits THEN client ELSE [client EXCEPT ![p.type] = p.value]
              /\ \/ acks' = acks
                 \/ /\ p.counter # None
                    /\ \E v \in BOOLEAN : acks' = Append(acks, [type |-> p.type, counter |-> p.counter, value |-> v])
    BY <1>1 DEF ClientTakes, Answer, kernelVars
  <1>3. toClient \in Seq(Wire) /\ acks \in Seq(Answered) /\ client \in [OnClients -> BOOLEAN]
    BY ThreeParts DEF WireTypes, RestTypes
  <1>4. /\ 1 \in DOMAIN toClient /\ p = toClient[1] /\ p \in Wire
        /\ \A i \in DOMAIN toClient' : /\ i + 1 \in DOMAIN toClient /\ i \in Nat /\ i + 1 > 1
                                      /\ toClient'[i] = toClient[i + 1]
    <2>1. /\ 1 \in DOMAIN toClient /\ p = toClient[1] /\ p \in Wire
          /\ DOMAIN toClient' \subseteq Nat
          /\ \A i \in DOMAIN toClient' : i + 1 \in DOMAIN toClient /\ toClient'[i] = toClient[i + 1] /\ i >= 1
      BY <1>1, <1>2, <1>3, FirstAndRest
    <2>2. \A i \in Nat : i >= 1 => i + 1 > 1
      OBVIOUS
    <2> QED BY <2>1, <2>2
  <1>5. ASSUME NEW e \in pending
        PROVE  Sent(e)'
    <2>1. \A i, j \in DOMAIN toClient' : j > i => j + 1 > i + 1
      BY <1>4
    <2> QED BY <1>4, <2>1 DEF Done, Sent
  <1>6. ASSUME NEW k \in DOMAIN acks'
        PROVE  \/ k \in DOMAIN acks /\ acks'[k] = acks[k]
               \/ /\ IsPacket(p) /\ p.counter # None
                  /\ acks'[k].type = p.type /\ acks'[k].counter = p.counter
    <2>1. CASE acks' = acks
      BY <2>1
    <2>2. ASSUME "type" \in DOMAIN p, p.counter # None, NEW v \in BOOLEAN,
                 acks' = Append(acks, [type |-> p.type, counter |-> p.counter, value |-> v])
          PROVE  \/ k \in DOMAIN acks /\ acks'[k] = acks[k]
                 \/ /\ IsPacket(p) /\ p.counter # None
                    /\ acks'[k].type = p.type /\ acks'[k].counter = p.counter
      <3> DEFINE a == [type |-> p.type, counter |-> p.counter, value |-> v]
      <3>1. a.type = p.type /\ a.counter = p.counter
        OBVIOUS
      <3> HIDE DEF a
      <3>2. /\ DOMAIN acks' = 1..Len(acks) + 1 /\ DOMAIN acks = 1..Len(acks) /\ Len(acks) \in Nat
            /\ \A i \in 1..Len(acks) : acks'[i] = acks[i]
            /\ acks'[Len(acks) + 1] = a
        BY <1>3, <2>2 DEF a
      <3>3. k \in 1..Len(acks) \/ k = Len(acks) + 1
        BY <3>2
      <3> QED BY <2>2, <3>1, <3>2, <3>3 DEF IsPacket
    <2> QED BY <1>2, <2>1, <2>2
  <1>7. ASSUME NEW e \in pending, ~Strayed'
        PROVE  Heard(e)'
    <2>1. e \in Entry /\ e.type \in OnClients /\ e.type \notin Gaits
      BY KindFacts, MotionAssumption DEF TypeOK, Entry, OnClients, Acked
    <2>2. ASSUME NEW k \in DOMAIN acks', Answers(e, acks'[k]), Agrees(e, acks'[k])
          PROVE  /\ client'[e.type] = e.value
                 /\ \A j \in DOMAIN toClient' : ~Touches(toClient'[j], e.type)
      <3>1. CASE k \in DOMAIN acks /\ acks'[k] = acks[k]
        <4>1. /\ client[e.type] = e.value
              /\ \A j \in DOMAIN toClient : ~Touches(toClient[j], e.type)
          BY <1>7, <2>2, <3>1 DEF Done, Heard
        <4>2. IsPacket(p) /\ p.type # e.type
          BY <1>4, <4>1 DEF Touches
        <4>3. client' = IF p.type \in Gaits THEN client ELSE [client EXCEPT ![p.type] = p.value]
          BY <1>2, <1>4, <4>2, WireFacts DEF IsPacket, Wire
        <4>4. client'[e.type] = client[e.type]
          BY <1>3, <2>1, <4>2, <4>3
        <4> QED BY <1>4, <4>1, <4>4
      <3>2. CASE IsPacket(p) /\ p.counter # None /\ acks'[k].type = p.type /\ acks'[k].counter = p.counter
        <4>1. p.counter = e.counter
          BY <2>2, <3>2 DEF Answers
        <4>2. /\ p.type = e.type /\ p.value = e.value
              /\ \A j \in DOMAIN toClient : j > 1 => ~Touches(toClient[j], e.type)
          BY <1>4, <3>2, <4>1 DEF Done, Sent
        <4>3. client' = IF p.type \in Gaits THEN client ELSE [client EXCEPT ![p.type] = p.value]
          BY <1>2, <1>4, <3>2, WireFacts DEF IsPacket, Wire
        <4>4. client'[e.type] = e.value
          BY <1>3, <2>1, <4>2, <4>3
        <4> QED BY <1>4, <4>2, <4>4
      <3> QED BY <1>6, <2>2, <3>1, <3>2
    <2> QED BY <2>2 DEF Heard
  <1>8. Issued'
    <2>1. \A i \in DOMAIN toClient' : IsPacket(toClient'[i]) =>
            toClient'[i].counter = None \/ toClient'[i].counter < next'
      BY <1>2, <1>4 DEF Issued
    <2>2. ASSUME ~Strayed', NEW k \in DOMAIN acks'
          PROVE  acks'[k].counter < next'
      <3>1. IsPacket(p) => p.counter = None \/ p.counter < next
        BY <1>4 DEF Issued
      <3> QED BY <1>2, <1>6, <2>2, <3>1 DEF Issued
    <2> QED BY <2>1, <2>2 DEF Issued
  <1> QED BY <1>2, <1>5, <1>7, <1>8 DEF Done

LEMMA DoneStep == IInv /\ Counted /\ Done /\ [Next]_vars => Counted' /\ Done'
  <1> SUFFICES ASSUME IInv, Counted, Done, [Next]_vars PROVE Counted' /\ Done'
    OBVIOUS
  <1>1. CASE UNCHANGED vars
    <2>1. UNCHANGED <<pending, next, toClient, acks, client, wrong, faults, unheard>>
      BY <1>1 DEF vars, kernelVars, historyVars
    <2>2. Counted' /\ (Strayed => Strayed')
      BY <2>1 DEF Counted, Strayed
    <2> QED BY <2>1, <2>2, DoneKept
  <1>2. CASE Next
    <2> TypeOK
      BY DEF IInv
    <2>1. Counted' /\ (Strayed => Strayed') /\ (Stray => Strayed')
      BY <1>2, CountedStep
    <2>2. ASSUME NEW t \in Types, NEW v \in BOOLEAN, Apply(t, v)
          PROVE  Done'
      BY <2>1, <2>2, DoneApply
    <2>3. CASE EnterWorld
      BY <2>1, <2>3, DoneEpoch
    <2>4. CASE ClientTakes
      BY <2>1, <2>4, DoneTakes
    <2>5. CASE HandleMovementAck
      BY <2>1, <2>5, DoneAck
    <2>6. CASE Stray
      <3>1. UNCHANGED <<toClient, next, pending, client>> /\ Strayed'
        BY <2>1, <2>6 DEF Stray, kernelVars
      <3>2. Issued'
        BY <3>1 DEF Done, Issued
      <3>3. \A e \in pending : Sent(e)'
        BY <3>1 DEF Done, Sent
      <3>4. ASSUME NEW e \in pending'
            PROVE  Sent(e)' /\ (~Strayed' => Heard(e)')
        BY <3>1, <3>3
      <3> QED BY <2>1, <3>2, <3>4 DEF Done
    <2>7. ASSUME UNCHANGED <<toClient, client, next, acks>>, pending' \subseteq pending
          PROVE  Done'
      BY <2>1, <2>7, DoneKept
    <2>8. ASSUME NEW t \in Types, NEW v \in BOOLEAN, Adopt(t, v)
          PROVE  Done'
      BY <2>7, <2>8 DEF Adopt
    <2>9. CASE Revoke \/ Grant \/ Tick \/ LeaveWorld
      <3>1. Revoke \/ Grant => pending' = {} /\ UNCHANGED <<toClient, client, next, acks>>
        BY DEF Revoke, Grant
      <3>2. Tick \/ LeaveWorld => pending' = pending /\ UNCHANGED <<toClient, client, next, acks>>
        BY DEF Tick, LeaveWorld, kernelVars
      <3>3. CASE Revoke \/ Grant
        BY <2>1, <2>7, <3>1, <3>3
      <3>4. CASE Tick \/ LeaveWorld
        BY <2>1, <2>7, <3>2, <3>4
      <3> QED BY <2>9, <3>3, <3>4
    <2> QED BY <1>2, <2>1, <2>2, <2>3, <2>4, <2>5, <2>6, <2>8, <2>9 DEF Next
  <1> QED BY <1>1, <1>2

LEMMA InitDone == Init => Counted /\ Done
  <1> SUFFICES ASSUME Init PROVE Counted /\ Done
    OBVIOUS
  <1>1. IsFiniteSet(unheard) /\ Cardinality(unheard) = 0 /\ faults = 0 /\ ~wrong
    BY FS_EmptySet DEF Init
  <1>2. Counted
    BY <1>1 DEF Counted
  <1>3. DOMAIN toClient = {} /\ DOMAIN acks = {} /\ pending = {}
    BY DEF Init
  <1> QED BY <1>2, <1>3 DEF Done, Issued

\* What a step confirms is what is desired then, and what the client has made.
LEMMA ConfirmsWhatWasDone ==
  ASSUME IInv, Done, Next, NEW t \in Types
  PROVE  /\ confirmed'[t] # confirmed[t] => confirmed'[t] = desired'[t]
         /\ t \in Acked /\ mode = "client" /\ mode' = "client" /\ ~Strayed
              => confirmed'[t] = confirmed[t] \/ confirmed'[t] = client[t]
  <1> DEFINE Fine == /\ confirmed'[t] # confirmed[t] => confirmed'[t] = desired'[t]
                     /\ t \in Acked /\ mode = "client" /\ mode' = "client" /\ ~Strayed
                          => confirmed'[t] = confirmed[t] \/ confirmed'[t] = client[t]
  <1> TypeOK /\ confirmed \in [Types -> BOOLEAN] /\ desired \in [Types -> BOOLEAN]
    BY DEF IInv, TypeOK
  <1>1. CASE UNCHANGED confirmed
    BY <1>1
  <1>2. CASE confirmed' = desired' /\ ~(mode = "client" /\ mode' = "client")
    BY <1>2
  <1>3. ASSUME NEW u \in Types, NEW v \in BOOLEAN, Apply(u, v)
        PROVE  Fine
    <2>1. CASE ApplyServer(u, v)
      BY <1>2, <2>1 DEF ApplyServer
    <2>2. CASE ApplyAcked(u, v)
      BY <1>1, <2>2 DEF ApplyAcked
    <2>3. CASE ApplyRate(u, v)
      <3>1. /\ desired' = [desired EXCEPT ![u] = v] /\ confirmed' = [confirmed EXCEPT ![u] = v]
            /\ u \in Rates
        BY <2>3 DEF ApplyRate
      <3>2. t \in Acked => t # u
        BY <3>1, MotionAssumption DEF Acked
      <3>3. t # u => confirmed'[t] = confirmed[t]
        BY <3>1
      <3>4. t = u => confirmed'[t] = v /\ desired'[t] = v
        BY <3>1
      <3> QED BY <3>2, <3>3, <3>4
    <2> QED BY <1>3, <2>1, <2>2, <2>3 DEF Apply
  <1>4. ASSUME NEW e \in pending, Answers(e, acks[1]), Agrees(e, acks[1]), Matched(e),
               1 \in DOMAIN acks, UNCHANGED desired
        PROVE  Fine
    <2>1. confirmed' = [confirmed EXCEPT ![e.type] = e.value] /\ e.value = desired[e.type]
      BY <1>4 DEF Matched, IInv, Fit, FitPending
    <2>2. t # e.type => confirmed'[t] = confirmed[t]
      BY <2>1
    <2>3. t = e.type => confirmed'[t] = desired'[t] /\ confirmed'[t] = e.value
      BY <1>4, <2>1
    <2>4. ~Strayed => client[e.type] = e.value
      BY <1>4 DEF Done, Heard
    <2> QED BY <2>2, <2>3, <2>4
  <1>5. CASE HandleMovementAck
    <2>1. /\ acks # <<>> /\ UNCHANGED desired
          /\ UNCHANGED confirmed \/ Ack(Head(acks))
      BY <1>5 DEF HandleMovementAck
    <2>2. 1 \in DOMAIN acks /\ Head(acks) = acks[1]
      <3>1. acks \in Seq(Answered)
        BY ThreeParts DEF WireTypes
      <3> QED BY <2>1, <3>1, FirstAndRest
    <2>3. PICK a : a = acks[1]
      OBVIOUS
    <2>4. ASSUME Ack(Head(acks))
          PROVE  \/ UNCHANGED confirmed
                 \/ \E e \in pending : Answers(e, a) /\ Agrees(e, a) /\ Matched(e)
      <3>1. Ack(a)
        BY <2>2, <2>3, <2>4 DEF Ack
      <3> QED BY <3>1 DEF Ack, Mismatched
    <2> QED BY <1>1, <1>4, <2>1, <2>2, <2>3, <2>4
  <1>6. ASSUME NEW u \in Types, NEW v \in BOOLEAN, Adopt(u, v)
        PROVE  Fine
    BY <1>2, <1>6 DEF Adopt
  <1>7. CASE Revoke
    BY <1>2, <1>7 DEF Revoke
  <1>8. CASE EnterWorld
    BY <1>1, <1>2, <1>8 DEF EnterWorld
  <1>9. CASE Grant \/ Tick \/ LeaveWorld \/ ClientTakes \/ Stray
    BY <1>1, <1>9 DEF Grant, Tick, LeaveWorld, ClientTakes, Stray, kernelVars
  <1> QED BY <1>3, <1>5, <1>6, <1>7, <1>8, <1>9 DEF Next

\* No answer brings back an old value, and while the answers are the client's
\* own, a change is confirmed only when the client has made it.
THEOREM OnlyTheDone == Spec => OnlyWhatWasDone
  <1> DEFINE Confirms ==
        /\ \A t \in Types : confirmed'[t] # confirmed[t] => confirmed'[t] = desired'[t]
        /\ \A t \in Acked :
             mode = "client" /\ mode' = "client" /\ ~Strayed
               => confirmed'[t] = confirmed[t] \/ confirmed'[t] = client[t]
  <1>1. IInv /\ Counted /\ Done /\ [Next]_vars => [Confirms]_vars
    <2> SUFFICES ASSUME IInv, Counted, Done, Next PROVE Confirms
      BY DEF vars
    <2>1. \A t \in Acked : t \in Types
      BY KindFacts
    <2> QED BY <2>1, ConfirmsWhatWasDone
  <1>2. Init => IInv /\ Counted /\ Done
    BY InitInv, InitDone
  <1>3. IInv /\ Counted /\ Done /\ [Next]_vars => IInv' /\ Counted' /\ Done'
    BY StepInv, DoneStep
  <1>4. [Confirms]_vars =>
          /\ [\A t \in Types : confirmed'[t] # confirmed[t] => confirmed'[t] = desired'[t]]_vars
          /\ [\A t \in Acked :
               mode = "client" /\ mode' = "client" /\ ~Strayed
                 => confirmed'[t] = confirmed[t] \/ confirmed'[t] = client[t]]_vars
    OBVIOUS
  <1> QED BY <1>1, <1>2, <1>3, <1>4, PTL DEF Spec, OnlyWhatWasDone, OnlyTheLatest
-----------------------------------------------------------------------------
\* What the client will believe once everything on its way has arrived: what
\* the last packet or create about a type says, or what it believes now.
Says(p, t) == IF IsPacket(p) THEN p.value ELSE p.create[t]
LastWord(i, t) == /\ Touches(toClient[i], t)
                  /\ \A j \in DOMAIN toClient : j > i => ~Touches(toClient[j], t)
Learns(t) ==
  \/ \E i \in DOMAIN toClient : LastWord(i, t) /\ Says(toClient[i], t) = desired[t]
  \/ (\A i \in DOMAIN toClient : ~Touches(toClient[i], t)) /\ client[t] = desired[t]
Abreast == inWorld => \A t \in OnClients : Learns(t)

LEMMA InitAbreast == Init => Abreast
  BY DEF Init, Abreast

LEMMA LearnsKept ==
  ASSUME NEW t, Learns(t), UNCHANGED <<toClient, client>>, desired'[t] = desired[t]
  PROVE  Learns(t)'
  BY DEF Learns, LastWord

\* A packet about u: the last word on u, none on another type.
LEMMA LearnsMore ==
  ASSUME TypeOK, NEW t \in OnClients, NEW u \in Types, NEW v \in BOOLEAN, NEW n,
         n = None \/ (n \in Nat /\ u \in Acked), inWorld, Emit(<<Packet(u, v, n)>>),
         UNCHANGED client, u = t => desired'[t] = v,
         u # t => Learns(t) /\ desired'[t] = desired[t]
  PROVE  Learns(t)'
  <1> DEFINE p == Packet(u, v, n)
  <1>1. p \in Wire /\ p.type = u /\ p.value = v /\ p \in Packets
    BY PacketTypes
  <1>2. IsPacket(p)
    BY <1>1, WireFacts DEF IsPacket
  <1>3. toClient \in Seq(Wire)
    BY ThreeParts DEF WireTypes
  <1>4. toClient' = toClient \o <<p>>
    BY DEF Emit
  <1> HIDE DEF p
  <1>5. /\ DOMAIN toClient' = 1..Len(toClient) + 1 /\ DOMAIN toClient = 1..Len(toClient)
        /\ Len(toClient) \in Nat
        /\ \A i \in 1..Len(toClient) : toClient'[i] = toClient[i]
        /\ toClient'[Len(toClient) + 1] = p
    BY <1>1, <1>3, <1>4, OneMore
  <1>6. ASSUME NEW i \in DOMAIN toClient'
        PROVE  \/ i \in DOMAIN toClient /\ toClient'[i] = toClient[i] /\ i < Len(toClient) + 1
               \/ i = Len(toClient) + 1 /\ toClient'[i] = p
    <2>1. i \in 1..Len(toClient) \/ i = Len(toClient) + 1
      BY <1>5
    <2> QED BY <1>5, <2>1
  <1>7. CASE u = t
    <2>1. Touches(p, t) /\ Says(p, t) = v
      BY <1>1, <1>2, <1>7 DEF Touches, Says
    <2>2. Len(toClient) + 1 \in DOMAIN toClient' /\ \A j \in DOMAIN toClient' : ~(j > Len(toClient) + 1)
      BY <1>5
    <2> QED BY <1>5, <1>7, <2>1, <2>2 DEF Learns, LastWord
  <1>8. CASE u # t
    <2>1. ~Touches(p, t)
      BY <1>1, <1>2, <1>8 DEF Touches
    <2>2. CASE \A i \in DOMAIN toClient : ~Touches(toClient[i], t)
      <3>1. client[t] = desired[t]
        BY <1>8, <2>2 DEF Learns, LastWord
      <3> QED BY <1>6, <1>8, <2>1, <2>2, <3>1 DEF Learns
    <2>3. ASSUME NEW i \in DOMAIN toClient, LastWord(i, t), Says(toClient[i], t) = desired[t]
          PROVE  Learns(t)'
      <3>1. i \in DOMAIN toClient' /\ toClient'[i] = toClient[i]
        BY <1>5
      <3>2. \A j \in DOMAIN toClient' : j > i => ~Touches(toClient'[j], t)
        BY <1>6, <2>1, <2>3 DEF LastWord
      <3> QED BY <1>8, <2>3, <3>1, <3>2 DEF Learns, LastWord
    <2> QED BY <1>8, <2>2, <2>3 DEF Learns
  <1> QED BY <1>7, <1>8

LEMMA AbreastApply ==
  ASSUME IInv, Abreast, NEW u \in Types, NEW v \in BOOLEAN, Apply(u, v)
  PROVE  Abreast'
  <1> SUFFICES ASSUME inWorld', NEW t \in OnClients PROVE Learns(t)'
    BY DEF Abreast
  <1>1. TypeOK /\ inWorld /\ UNCHANGED client /\ Learns(t)
    BY DEF Apply, IInv, Abreast
  <1>2. PICK n : /\ n = None \/ (n \in Nat /\ u \in Acked)
                 /\ Emit(<<Packet(u, v, n)>>) /\ desired' = [desired EXCEPT ![u] = v]
    BY <1>1 DEF Apply, ApplyServer, ApplyAcked, ApplyRate, TypeOK
  <1>3. desired \in [Types -> BOOLEAN] /\ t \in Types
    BY <1>1 DEF TypeOK, Types
  <1>4. (u = t => desired'[t] = v) /\ (u # t => desired'[t] = desired[t])
    BY <1>2, <1>3
  <1> QED BY <1>1, <1>2, <1>4, LearnsMore

\* A wrong echo is answered with the value that is desired.
LEMMA AbreastAck ==
  ASSUME IInv, Abreast, HandleMovementAck
  PROVE  Abreast'
  <1> SUFFICES ASSUME inWorld', NEW t \in OnClients PROVE Learns(t)'
    BY DEF Abreast
  <1>1. TypeOK /\ inWorld /\ UNCHANGED <<client, desired>> /\ Learns(t)
    BY DEF HandleMovementAck, IInv, Abreast
  <1>2. CASE UNCHANGED toClient
    BY <1>1, <1>2, LearnsKept
  <1>3. ASSUME NEW e \in pending, Mismatched(e)
        PROVE  Learns(t)'
    <2>1. /\ e.type \in Acked /\ e.type \in Types /\ e.value \in BOOLEAN /\ next \in Nat
          /\ e.value = desired[e.type]
      BY KindFacts DEF TypeOK, Entry, IInv, Fit, FitPending
    <2>2. CASE Emit(<<Packet(e.type, e.value, next)>>)
      BY <1>1, <2>1, <2>2, LearnsMore
    <2> QED BY <1>2, <1>3, <2>2 DEF Mismatched
  <1>4. ASSUME Ack(Head(acks))
        PROVE  UNCHANGED toClient \/ \E e \in pending : Mismatched(e)
    <2>1. PICK a : a = Head(acks)
      OBVIOUS
    <2>2. Ack(a)
      BY <1>4, <2>1 DEF Ack
    <2> QED BY <2>2 DEF Ack, Matched
  <1> QED BY <1>2, <1>3, <1>4 DEF HandleMovementAck

\* The create sets every type, and the snapshot what the create leaves.
LEMMA AbreastEpoch ==
  ASSUME IInv, EnterWorld
  PROVE  Abreast'
  <1> SUFFICES ASSUME NEW t \in OnClients PROVE Learns(t)'
    BY DEF Abreast
  <1> TypeOK
    BY DEF IInv
  <1>1. desired' = desired /\ desired \in [Types -> BOOLEAN] /\ t \in Types
    BY DEF EnterWorld, TypeOK, Types
  <1>2. PICK l \in Nat : \E o \in [1..l -> Acked] :
           /\ \A i, j \in 1..l : o[i] = o[j] => i = j
           /\ EpochSent(l, o)
    BY EpochSends
  <1>3. PICK o \in [1..l -> Acked] :
           /\ \A i, j \in 1..l : o[i] = o[j] => i = j
           /\ EpochSent(l, o)
    BY <1>2
  <1> DEFINE n == Len(toClient)
             fresh(i) == IF mode = "client" THEN next + i - 1 ELSE None
  <1>4. toClient \in Seq(Wire) /\ n \in Nat
    BY ThreeParts DEF WireTypes
  <1>5. /\ DOMAIN toClient' = 1..n + 1 + l
        /\ toClient'[n + 1] \in Creates /\ toClient'[n + 1].create = Created
        /\ \A i \in 1..l : toClient'[n + 1 + i] = Packet(o[i], desired[o[i]], fresh(i))
    BY <1>3 DEF EpochSent
  <1>6. \A i \in 1..l : fresh(i) = None \/ fresh(i) \in Nat
    BY DEF TypeOK
  <1> HIDE DEF n, fresh
  <1>7. ~IsPacket(toClient'[n + 1])
    BY <1>5, WireFacts DEF IsPacket
  <1>8. ASSUME NEW i \in 1..l
        PROVE  /\ n + 1 + i \in DOMAIN toClient' /\ IsPacket(toClient'[n + 1 + i])
               /\ toClient'[n + 1 + i].type = o[i] /\ toClient'[n + 1 + i].value = desired[o[i]]
    <2>1. o[i] \in Acked /\ o[i] \in Types /\ desired[o[i]] \in BOOLEAN
      BY <1>1, KindFacts
    <2>2. /\ Packet(o[i], desired[o[i]], fresh(i)) \in Packets
          /\ Packet(o[i], desired[o[i]], fresh(i)).type = o[i]
          /\ Packet(o[i], desired[o[i]], fresh(i)).value = desired[o[i]]
      BY <1>6, <2>1, PacketTypes
    <2>3. n + 1 + i \in 1..n + 1 + l
      BY <1>2, <1>4
    <2> QED BY <1>5, <2>2, <2>3, WireFacts DEF IsPacket
  <1>9. ASSUME NEW j \in DOMAIN toClient', j > n + 1
        PROVE  \E i \in 1..l : j = n + 1 + i
    <2>1. j - (n + 1) \in 1..l /\ j = n + 1 + (j - (n + 1))
      BY <1>2, <1>4, <1>5, <1>9
    <2> QED BY <2>1
  <1>10. CASE t \in Snapshot
    <2>1. PICK i \in 1..l : o[i] = t
      BY <1>3, <1>10 DEF EpochSent
    <2>2. ASSUME NEW j \in DOMAIN toClient', j > n + 1 + i
          PROVE  ~Touches(toClient'[j], t)
      <3>1. j > n + 1
        BY <1>2, <1>4, <1>5, <2>2
      <3>2. PICK x \in 1..l : j = n + 1 + x
        BY <1>9, <3>1
      <3>3. x # i
        BY <1>2, <1>4, <2>2, <3>2
      <3> QED BY <1>3, <1>8, <2>1, <3>2, <3>3 DEF Touches
    <2>3. Touches(toClient'[n + 1 + i], t) /\ Says(toClient'[n + 1 + i], t) = desired[t]
      BY <1>8, <2>1 DEF Touches, Says
    <2> QED BY <1>1, <1>8, <2>2, <2>3 DEF Learns, LastWord
  <1>11. CASE t \notin Snapshot
    <2>1. Created[t] = desired[t]
      <3>1. t \in Rates \/ (t \in Flags /\ ~desired[t])
        BY <1>11 DEF Snapshot, OnClients, Acked
      <3>2. CASE t \in Rates
        BY <3>2 DEF Created
      <3>3. CASE t \in Flags /\ ~desired[t]
        <4>1. t \notin Speeds \cup Rates
          BY <3>3, MotionAssumption
        <4>2. Created[t] = FALSE
          BY <4>1 DEF Created
        <4>3. desired[t] = FALSE
          BY <1>1, <3>3
        <4> QED BY <4>2, <4>3
      <3> QED BY <3>1, <3>2, <3>3
    <2>2. n + 1 \in DOMAIN toClient'
      BY <1>2, <1>4, <1>5
    <2>3. ASSUME NEW j \in DOMAIN toClient', j > n + 1
          PROVE  ~Touches(toClient'[j], t)
      <3>1. PICK x \in 1..l : j = n + 1 + x
        BY <1>9, <2>3
      <3>2. o[x] # t
        BY <1>3, <1>11 DEF EpochSent
      <3> QED BY <1>8, <3>1, <3>2 DEF Touches
    <2>4. Touches(toClient'[n + 1], t) /\ Says(toClient'[n + 1], t) = desired[t]
      BY <1>5, <1>7, <2>1 DEF Touches, Says
    <2> QED BY <1>1, <2>2, <2>3, <2>4 DEF Learns, LastWord
  <1> QED BY <1>10, <1>11

LEMMA AbreastTakes ==
  ASSUME IInv, Abreast, ClientTakes
  PROVE  Abreast'
  <1> SUFFICES ASSUME inWorld', NEW t \in OnClients PROVE Learns(t)'
    BY DEF Abreast
  <1> TypeOK
    BY DEF IInv
  <1>1. PICK p : p = Head(toClient)
    OBVIOUS
  <1>2. /\ toClient # <<>> /\ toClient' = Tail(toClient) /\ UNCHANGED <<desired, inWorld>>
        /\ \/ "create" \in DOMAIN p /\ client' = p.create
           \/ /\ "type" \in DOMAIN p
              /\ client' = IF p.type \in Gaits THEN client ELSE [client EXCEPT ![p.type] = p.value]
    BY <1>1 DEF ClientTakes, kernelVars
  <1>3. toClient \in Seq(Wire) /\ client \in [OnClients -> BOOLEAN]
    BY ThreeParts DEF WireTypes
  <1>4. /\ 1 \in DOMAIN toClient /\ p = toClient[1] /\ p \in Wire
        /\ DOMAIN toClient' \subseteq Nat
        /\ \A i \in DOMAIN toClient' : i + 1 \in DOMAIN toClient /\ toClient'[i] = toClient[i + 1] /\ i >= 1
    BY <1>1, <1>2, <1>3, FirstAndRest
  <1>5. \A i \in DOMAIN toClient : i = 1 \/ (i - 1 \in DOMAIN toClient' /\ i - 1 + 1 = i /\ i > 1)
    BY <1>2, <1>3
  <1>6. client'[t] = IF Touches(p, t) THEN Says(p, t) ELSE client[t]
    <2>1. CASE IsPacket(p)
      <3>1. client' = IF p.type \in Gaits THEN client ELSE [client EXCEPT ![p.type] = p.value]
        BY <1>2, <1>4, <2>1, WireFacts DEF IsPacket, Wire
      <3>2. t \notin Gaits
        BY MotionAssumption DEF OnClients, Acked
      <3> QED BY <1>3, <2>1, <3>1, <3>2 DEF Touches, Says
    <2>2. CASE ~IsPacket(p)
      BY <1>2, <2>2 DEF IsPacket, Touches, Says
    <2> QED BY <2>1, <2>2
  <1>7. Learns(t)
    BY <1>2 DEF Abreast
  <1>8. CASE \A i \in DOMAIN toClient : ~Touches(toClient[i], t)
    <2>1. client[t] = desired[t]
      BY <1>7, <1>8 DEF Learns, LastWord
    <2> QED BY <1>2, <1>4, <1>6, <1>8, <2>1 DEF Learns
  <1>9. ASSUME NEW i \in DOMAIN toClient, LastWord(i, t), Says(toClient[i], t) = desired[t]
        PROVE  Learns(t)'
    <2>1. CASE i = 1
      <3>1. \A j \in DOMAIN toClient' : j + 1 > 1
        BY <1>4
      <3> QED BY <1>2, <1>4, <1>6, <1>9, <2>1, <3>1 DEF Learns, LastWord
    <2>2. CASE i # 1
      <3>1. i - 1 \in DOMAIN toClient' /\ toClient'[i - 1] = toClient[i]
        BY <1>4, <1>5, <2>2
      <3>2. ASSUME NEW j \in DOMAIN toClient', j > i - 1
            PROVE  ~Touches(toClient'[j], t)
        <4>1. j + 1 > i /\ j + 1 \in DOMAIN toClient /\ toClient'[j] = toClient[j + 1]
          <5>1. i \in Nat
            BY <1>3
          <5> QED BY <1>4, <3>2, <5>1
        <4> QED BY <1>9, <4>1 DEF LastWord
      <3> QED BY <1>2, <1>9, <3>1, <3>2 DEF Learns, LastWord
    <2> QED BY <2>1, <2>2
  <1> QED BY <1>7, <1>8, <1>9 DEF Learns

LEMMA AbreastStep == IInv /\ Abreast /\ [Next]_vars => Abreast'
  <1> SUFFICES ASSUME IInv, Abreast, [Next]_vars PROVE Abreast'
    OBVIOUS
  <1>1. ASSUME UNCHANGED <<toClient, client>>, inWorld' => inWorld,
               \A t \in OnClients : desired'[t] = desired[t]
        PROVE  Abreast'
    BY <1>1, LearnsKept DEF Abreast
  <1>2. CASE UNCHANGED vars
    BY <1>1, <1>2 DEF vars, kernelVars
  <1>3. ASSUME NEW t \in Types, NEW v \in BOOLEAN, Apply(t, v) PROVE Abreast'
    BY <1>3, AbreastApply
  <1>4. ASSUME NEW u \in Types, NEW v \in BOOLEAN, Adopt(u, v) PROVE Abreast'
    <2>1. u \in Gaits /\ desired' = [desired EXCEPT ![u] = v] /\ UNCHANGED <<toClient, client, inWorld>>
      BY <1>4 DEF Adopt
    <2>2. \A t \in OnClients : t # u /\ t \in Types
      BY <2>1, MotionAssumption DEF OnClients, Acked, Types
    <2>3. \A t \in OnClients : desired'[t] = desired[t]
      BY <2>1, <2>2 DEF IInv, TypeOK
    <2> QED BY <1>1, <2>1, <2>3
  <1>5. CASE Revoke \/ Grant \/ Tick \/ LeaveWorld \/ Stray
    BY <1>1, <1>5 DEF Revoke, Grant, Tick, LeaveWorld, Stray, kernelVars
  <1> QED BY <1>2, <1>3, <1>4, <1>5, AbreastEpoch, AbreastTakes, AbreastAck DEF Next

\* Once everything sent has arrived, the client of a unit in the world agrees
\* with the server about every type it may change.
THEOREM ClientsCatchUp == Spec => []ClientCatchesUp
  <1>1. Abreast => ClientCatchesUp
    BY DEF Abreast, Learns, ClientCatchesUp
  <1>2. Init => IInv /\ Abreast
    BY InitInv, InitAbreast
  <1>3. IInv /\ Abreast /\ [Next]_vars => IInv' /\ Abreast'
    BY StepInv, AbreastStep
  <1> QED BY <1>1, <1>2, <1>3, PTL DEF Spec

-----------------------------------------------------------------------------
\* An outstanding change is on its way or excused, and a type that is not yet
\* confirmed has one outstanding, in the world or out of it.
Alive(e) == e.resends > MaxMismatchResends \/ e.counter \in unheard \/ OnItsWay(e)
Owed(t)  == confirmed[t] = desired[t] \/ t \in unsaid \/ PendingOf(t) # {}
Promised == /\ inWorld => \A e \in pending : Alive(e)
            /\ \A t \in Acked : Owed(t)

LEMMA InitPromised == Init => Promised
  <1> SUFFICES ASSUME Init, NEW t \in Acked PROVE Promised /\ Owed(t)
    BY DEF Init, Promised
  <1>1. t \in Types /\ confirmed[t] = desired[t]
    BY KindFacts DEF Init
  <1>2. \A u \in Acked : confirmed[u] = desired[u]
    BY KindFacts DEF Init
  <1> QED BY <1>1, <1>2 DEF Init, Promised, Owed

\* What is on the wire stays there when a packet is added.
LEMMA AliveKept ==
  ASSUME TypeOK, NEW e, Alive(e), unheard \subseteq unheard',
         \A i \in DOMAIN toClient : i \in DOMAIN toClient' /\ toClient'[i] = toClient[i],
         \A k \in DOMAIN acks : \E l \in DOMAIN acks' : acks'[l] = acks[k]
  PROVE  Alive(e)'
  <1>1. CASE e.resends > MaxMismatchResends \/ e.counter \in unheard
    BY <1>1 DEF Alive
  <1>2. CASE OnItsWay(e)
    <2>1. OnItsWay(e)'
      BY <1>2 DEF OnItsWay, Answers
    <2> QED BY <2>1 DEF Alive
  <1> QED BY <1>1, <1>2 DEF Alive

\* Emitting keeps what is on the wire and, in the world, adds the packet.
LEMMA EmitAdds ==
  ASSUME TypeOK, NEW t \in Types, NEW v \in BOOLEAN, NEW n,
         n = None \/ (n \in Nat /\ t \in Acked), Emit(<<Packet(t, v, n)>>)
  PROVE  /\ \A i \in DOMAIN toClient : i \in DOMAIN toClient' /\ toClient'[i] = toClient[i]
         /\ inWorld => \E i \in DOMAIN toClient' :
              /\ "type" \in DOMAIN toClient'[i]
              /\ toClient'[i].type = t /\ toClient'[i].counter = n
  <1> DEFINE p == Packet(t, v, n)
  <1>1. p \in Wire /\ p.type = t /\ p.counter = n /\ "type" \in DOMAIN p
    BY PacketTypes, WireFacts
  <1>2. toClient \in Seq(Wire)
    BY ThreeParts DEF WireTypes
  <1> HIDE DEF p
  <1>3. CASE toClient' = toClient \o <<p>>
    <2>1. /\ DOMAIN toClient' = 1..Len(toClient) + 1 /\ DOMAIN toClient = 1..Len(toClient)
          /\ Len(toClient) \in Nat
          /\ \A i \in 1..Len(toClient) : toClient'[i] = toClient[i]
          /\ toClient'[Len(toClient) + 1] = p
      BY <1>1, <1>2, <1>3, OneMore
    <2>2. Len(toClient) + 1 \in DOMAIN toClient'
      BY <2>1
    <2> QED BY <1>1, <2>1, <2>2
  <1>4. CASE ~inWorld /\ toClient' = toClient
    BY <1>4
  <1> QED BY <1>3, <1>4 DEF Emit, p

LEMMA PromisedApply ==
  ASSUME IInv, Promised, NEW t \in Types, NEW v \in BOOLEAN, Apply(t, v)
  PROVE  Promised'
  <1> TypeOK /\ next \in Nat
    BY DEF IInv, TypeOK
  <1>1. UNCHANGED <<inWorld, acks, unheard>>
    BY DEF Apply
  <1>2. CASE ApplyServer(t, v)
    <2>1. pending' = {} /\ confirmed' = desired'
      BY <1>2 DEF ApplyServer, IInv, ServerInv
    <2> QED BY <2>1 DEF Promised, Owed
  <1>3. CASE ApplyRate(t, v)
    <2>1. /\ pending' = pending /\ Emit(<<Packet(t, v, None)>>) /\ t \in Rates /\ unsaid' = unsaid
          /\ desired' = [desired EXCEPT ![t] = v] /\ confirmed' = [confirmed EXCEPT ![t] = v]
      BY <1>3 DEF ApplyRate
    <2>2. \A i \in DOMAIN toClient : i \in DOMAIN toClient' /\ toClient'[i] = toClient[i]
      BY <2>1, EmitAdds
    <2>3. inWorld' => \A e \in pending' : Alive(e)'
      BY <1>1, <2>1, <2>2, AliveKept DEF Promised
    <2>4. ASSUME NEW u \in Acked
          PROVE  Owed(u)'
      <3>1. u \in Types /\ u # t
        BY <2>1, KindFacts
      <3>2. confirmed'[u] = confirmed[u] /\ desired'[u] = desired[u]
        BY <2>1, <3>1 DEF TypeOK
      <3> QED BY <2>1, <3>2 DEF Promised, Owed, PendingOf
    <2> QED BY <2>3, <2>4 DEF Promised
  <1>4. CASE ApplyAcked(t, v)
    <2> DEFINE rest == pending \ PendingOf(t)
    <2>0. PICK new : new = [type |-> t, counter |-> next, value |-> v, resends |-> 0]
      OBVIOUS
    <2>1. /\ pending' = rest \cup {new} /\ confirmed' = confirmed /\ t \in Acked
          /\ Emit(<<Packet(t, v, next)>>) /\ unsaid' = unsaid \ {t}
          /\ desired' = [desired EXCEPT ![t] = v]
      BY <1>4, <2>0 DEF ApplyAcked, Open, OldGone
    <2>2. new.type = t /\ new.counter = next
      BY <2>0
    <2>3. /\ \A i \in DOMAIN toClient : i \in DOMAIN toClient' /\ toClient'[i] = toClient[i]
          /\ inWorld => \E i \in DOMAIN toClient' :
               /\ "type" \in DOMAIN toClient'[i]
               /\ toClient'[i].type = t /\ toClient'[i].counter = next
      BY <2>1, EmitAdds
    <2>4. inWorld => Alive(new)'
      <3>1. inWorld => OnItsWay(new)'
        BY <2>2, <2>3 DEF OnItsWay, Answers
      <3> QED BY <3>1 DEF Alive
    <2>5. inWorld => \A e \in rest : Alive(e)'
      BY <1>1, <2>3, AliveKept DEF Promised
    <2>7. inWorld' => \A e \in pending' : Alive(e)'
      BY <1>1, <2>1, <2>4, <2>5
    <2>6. ASSUME NEW u \in Acked
          PROVE  Owed(u)'
      <3>1. CASE u = t
        <4>1. new \in pending' /\ new.type = u
          BY <2>1, <2>2, <3>1
        <4> QED BY <4>1 DEF Owed, PendingOf
      <3>2. CASE u # t
        <4>1. desired'[u] = desired[u]
          BY <2>1, <3>2, KindFacts DEF TypeOK
        <4>2. \A e \in pending : e.type = u => e \in pending'
          BY <2>1, <3>2 DEF PendingOf
        <4> QED BY <2>1, <3>2, <4>1, <4>2 DEF Promised, Owed, PendingOf
      <3> QED BY <3>1, <3>2
    <2> QED BY <2>6, <2>7 DEF Promised
  <1> QED BY <1>2, <1>3, <1>4 DEF Apply

\* A new epoch sends every change it opens; the flags it says nothing of were
\* confirmed off, or are remembered as unsaid.
LEMMA PromisedEpoch ==
  ASSUME IInv, Promised, EnterWorld
  PROVE  Promised'
  <1> TypeOK /\ next \in Nat
    BY DEF IInv, TypeOK
  <1>1. /\ UNCHANGED <<mode, desired, unheard>>
        /\ unsaid' = unsaid \cup {t \in Flags : ~desired[t] /\ PendingOf(t) # {}}
        /\ IF mode = "client" THEN confirmed' = confirmed ELSE confirmed' = desired
    BY DEF EnterWorld
  <1>2. PICK l \in Nat : \E o \in [1..l -> Acked] :
           /\ EpochSent(l, o)
           /\ IF mode = "client"
              THEN pending' = {[type |-> o[i], counter |-> next + i - 1,
                                value |-> desired[o[i]], resends |-> 0] : i \in 1..l}
              ELSE pending' = {}
    BY EpochSends
  <1>3. PICK o \in [1..l -> Acked] :
           /\ EpochSent(l, o)
           /\ IF mode = "client"
              THEN pending' = {[type |-> o[i], counter |-> next + i - 1,
                                value |-> desired[o[i]], resends |-> 0] : i \in 1..l}
              ELSE pending' = {}
    BY <1>2
  <1>4. CASE mode # "client"
    BY <1>1, <1>3, <1>4 DEF Promised, Owed
  <1>5. CASE mode = "client"
    <2> DEFINE n == Len(toClient)
    <2>1. n \in Nat
      BY ThreeParts DEF WireTypes
    <2>2. /\ DOMAIN toClient' = 1..n + 1 + l
          /\ \A i \in 1..l : toClient'[n + 1 + i] = Packet(o[i], desired[o[i]], next + i - 1)
      BY <1>3, <1>5 DEF EpochSent
    <2> HIDE DEF n
    <2>3. ASSUME NEW e \in pending'
          PROVE  Alive(e)'
      <3>1. PICK i \in 1..l : e = [type |-> o[i], counter |-> next + i - 1,
                                  value |-> desired[o[i]], resends |-> 0]
        BY <1>3, <1>5
      <3>2. e.type = o[i] /\ e.counter = next + i - 1
        BY <3>1
      <3>3. /\ o[i] \in Acked /\ o[i] \in Types /\ desired[o[i]] \in BOOLEAN
            /\ next + i - 1 \in Nat /\ n + 1 + i \in 1..n + 1 + l
        BY <1>2, <2>1, KindFacts DEF TypeOK
      <3>4. /\ Packet(o[i], desired[o[i]], next + i - 1).type = o[i]
            /\ Packet(o[i], desired[o[i]], next + i - 1).counter = next + i - 1
            /\ "type" \in DOMAIN Packet(o[i], desired[o[i]], next + i - 1)
        BY <3>3, PacketTypes, WireFacts
      <3>5. OnItsWay(e)'
        BY <2>2, <3>2, <3>3, <3>4 DEF OnItsWay, Answers
      <3> QED BY <3>5 DEF Alive
    <2>4. ASSUME NEW t \in Acked
          PROVE  Owed(t)'
      <3>1. CASE t \in Snapshot
        <4>1. PICK i \in 1..l : o[i] = t
          BY <1>3, <3>1 DEF EpochSent
        <4>2. [type |-> o[i], counter |-> next + i - 1,
               value |-> desired[o[i]], resends |-> 0] \in pending'
          BY <1>3, <1>5
        <4>3. \E e \in pending' : e.type = t
          BY <4>1, <4>2
        <4> QED BY <4>3 DEF Owed, PendingOf
      <3>2. CASE t \notin Snapshot
        <4>1. t \in Flags /\ ~desired[t]
          BY <3>2 DEF Snapshot, Acked
        <4>2. t \in unsaid' \/ (PendingOf(t) = {} /\ t \notin unsaid)
          BY <1>1, <4>1
        <4>3. t \in unsaid' \/ confirmed[t] = desired[t]
          BY <4>2 DEF Promised, Owed
        <4> QED BY <1>1, <1>5, <4>3 DEF Owed
      <3> QED BY <3>1, <3>2
    <2> QED BY <2>3, <2>4 DEF Promised
  <1> QED BY <1>4, <1>5

\* The client answers every packet that carries a counter.
LEMMA PromisedTakes ==
  ASSUME IInv, Promised, ClientTakes
  PROVE  Promised'
  <1> TypeOK
    BY DEF IInv
  <1>1. PICK p : p = Head(toClient)
    OBVIOUS
  <1>2. /\ toClient # <<>> /\ toClient' = Tail(toClient)
        /\ UNCHANGED <<pending, desired, confirmed, unsaid, unheard, inWorld>>
        /\ \/ "create" \in DOMAIN p /\ acks' = acks
           \/ /\ "type" \in DOMAIN p
              /\ IF p.counter = None THEN acks' = acks
                 ELSE \E v \in BOOLEAN :
                        acks' = Append(acks, [type |-> p.type, counter |-> p.counter, value |-> v])
    BY <1>1 DEF ClientTakes, Answer, kernelVars
  <1>3. toClient \in Seq(Wire) /\ acks \in Seq(Answered)
    BY ThreeParts DEF WireTypes
  <1>4. 1 \in DOMAIN toClient /\ p = toClient[1] /\ p \in Wire
    BY <1>1, <1>2, <1>3, FirstAndRest
  <1>5. \A i \in DOMAIN toClient : i = 1 \/ (i - 1 \in DOMAIN toClient' /\ toClient'[i - 1] = toClient[i])
    BY <1>2, <1>3
  <1>6. /\ \A k \in DOMAIN acks : k \in DOMAIN acks' /\ acks'[k] = acks[k]
        /\ "type" \in DOMAIN p /\ p.counter # None =>
             \E k \in DOMAIN acks' : acks'[k].type = p.type /\ acks'[k].counter = p.counter
    <2>1. CASE acks' = acks
      <3>1. ~("type" \in DOMAIN p /\ p.counter # None)
        <4>1. p \in Creates => "type" \notin DOMAIN p
          BY WireFacts
        <4>2. "create" \in DOMAIN p => p \in Creates
          BY <1>4, WireFacts DEF Wire
        <4>3. ASSUME NEW v \in BOOLEAN,
                     acks' = Append(acks, [type |-> p.type, counter |-> p.counter, value |-> v])
              PROVE  FALSE
          <5>1. Len(acks') = Len(acks) + 1 /\ Len(acks) \in Nat
            BY <1>3, <4>3
          <5> QED BY <2>1, <5>1
        <4> QED BY <1>2, <4>1, <4>2, <4>3
      <3> QED BY <2>1, <3>1
    <2>2. ASSUME NEW v \in BOOLEAN,
                 acks' = Append(acks, [type |-> p.type, counter |-> p.counter, value |-> v])
          PROVE  /\ \A k \in DOMAIN acks : k \in DOMAIN acks' /\ acks'[k] = acks[k]
                 /\ \E k \in DOMAIN acks' : acks'[k].type = p.type /\ acks'[k].counter = p.counter
      <3> DEFINE a == [type |-> p.type, counter |-> p.counter, value |-> v]
      <3>1. a.type = p.type /\ a.counter = p.counter
        OBVIOUS
      <3> HIDE DEF a
      <3>2. /\ DOMAIN acks' = 1..Len(acks) + 1 /\ DOMAIN acks = 1..Len(acks) /\ Len(acks) \in Nat
            /\ \A i \in 1..Len(acks) : acks'[i] = acks[i]
            /\ acks'[Len(acks) + 1] = a
        BY <1>3, <2>2 DEF a
      <3>3. Len(acks) + 1 \in DOMAIN acks'
        BY <3>2
      <3>4. \A k \in DOMAIN acks : k \in DOMAIN acks' /\ acks'[k] = acks[k]
        BY <3>2
      <3> QED BY <3>1, <3>2, <3>3, <3>4
    <2> QED BY <1>2, <2>1, <2>2
  <1>7. ASSUME NEW e \in pending, Alive(e)
        PROVE  Alive(e)'
    <2>1. CASE e.resends > MaxMismatchResends \/ e.counter \in unheard
      BY <1>2, <2>1 DEF Alive
    <2>2. ASSUME NEW k \in DOMAIN acks, Answers(e, acks[k])
          PROVE  OnItsWay(e)'
      BY <1>6, <2>2 DEF OnItsWay, Answers
    <2>3. ASSUME NEW i \in DOMAIN toClient, "type" \in DOMAIN toClient[i], Answers(e, toClient[i])
          PROVE  OnItsWay(e)'
      <3>1. CASE i # 1
        BY <1>5, <2>3, <3>1 DEF OnItsWay, Answers
      <3>2. CASE i = 1
        <4>1. e.counter # None
          BY MotionAssumption DEF TypeOK, Entry
        <4>2. "type" \in DOMAIN p /\ p.counter # None /\ e.type = p.type /\ e.counter = p.counter
          BY <1>4, <2>3, <3>2, <4>1 DEF Answers
        <4> QED BY <1>6, <4>2 DEF OnItsWay, Answers
      <3> QED BY <3>1, <3>2
    <2>4. OnItsWay(e) => OnItsWay(e)'
      BY <2>2, <2>3 DEF OnItsWay
    <2> QED BY <1>7, <2>1, <2>4 DEF Alive
  <1> QED BY <1>2, <1>7 DEF Promised, Owed, PendingOf

\* The session closes the change an answer is for, sends it again, gives it
\* up after that, or throws the answer away.
LEMMA PromisedAck ==
  ASSUME IInv, Promised, HandleMovementAck
  PROVE  Promised'
  <1> TypeOK /\ next \in Nat
    BY DEF IInv, TypeOK
  <1>1. PICK a : a = Head(acks)
    OBVIOUS
  <1>2. /\ acks # <<>> /\ acks' = Tail(acks) /\ UNCHANGED <<mode, desired, inWorld, unsaid>>
        /\ \/ mode = "client" /\ Ack(a) /\ UNCHANGED unheard
           \/ mode = "server" /\ UNCHANGED <<pending, confirmed, toClient, unheard>>
           \/ unheard' = unheard \cup {a.counter} /\ UNCHANGED <<pending, confirmed, toClient>>
    BY <1>1 DEF HandleMovementAck, Ack
  <1>3. acks \in Seq(Answered)
    BY ThreeParts DEF WireTypes
  <1>4. 1 \in DOMAIN acks /\ a = acks[1]
    BY <1>1, <1>2, <1>3, FirstAndRest
  <1>5. \A k \in DOMAIN acks : k = 1 \/ (k - 1 \in DOMAIN acks' /\ acks'[k - 1] = acks[k])
    BY <1>2, <1>3
  <1>6. ASSUME NEW e \in pending, Alive(e), ~Answers(e, a) \/ e.counter \in unheard',
               \A i \in DOMAIN toClient : i \in DOMAIN toClient' /\ toClient'[i] = toClient[i]
        PROVE  Alive(e)'
    <2>1. unheard \subseteq unheard'
      BY <1>2
    <2>2. CASE e.resends > MaxMismatchResends \/ e.counter \in unheard'
      BY <2>2 DEF Alive
    <2>3. CASE ~Answers(e, a) /\ e.counter \notin unheard'
      <3>1. ASSUME NEW k \in DOMAIN acks, Answers(e, acks[k])
            PROVE  OnItsWay(e)'
        BY <1>4, <1>5, <2>3, <3>1 DEF OnItsWay, Answers
      <3>2. ASSUME NEW i \in DOMAIN toClient, "type" \in DOMAIN toClient[i], Answers(e, toClient[i])
            PROVE  OnItsWay(e)'
        BY <1>6, <3>2 DEF OnItsWay, Answers
      <3>3. OnItsWay(e) => OnItsWay(e)'
        BY <3>1, <3>2 DEF OnItsWay
      <3> QED BY <1>6, <2>1, <2>3, <3>3 DEF Alive
    <2> QED BY <1>6, <2>2, <2>3
  <1>7. CASE unheard' = unheard \cup {a.counter} /\ UNCHANGED <<pending, confirmed, toClient>>
    <2>1. \A e \in pending : ~Answers(e, a) \/ e.counter \in unheard'
      BY <1>7 DEF Answers
    <2> QED BY <1>2, <1>6, <1>7, <2>1 DEF Promised, Owed, PendingOf
  <1>8. CASE mode = "server" /\ UNCHANGED <<pending, confirmed, toClient, unheard>>
    <2>1. pending' = {}
      BY <1>8 DEF IInv, ServerInv
    <2> QED BY <1>2, <1>8, <2>1 DEF Promised, Owed, PendingOf
  <1>9. ASSUME UNCHANGED <<pending, confirmed, toClient>>, \A e \in pending : ~Answers(e, a)
        PROVE  Promised'
    BY <1>2, <1>6, <1>9 DEF Promised, Owed, PendingOf
  <1>10. ASSUME NEW e \in pending, Answers(e, a), Matched(e)
         PROVE  Promised'
    <2>1. /\ pending' = pending \ {e} /\ toClient' = toClient
          /\ confirmed' = [confirmed EXCEPT ![e.type] = e.value]
          /\ e.value = desired[e.type] /\ e.type \in Types
      BY <1>10, KindFacts DEF Matched, IInv, Fit, FitPending, TypeOK, Entry
    <2>2. \A f \in pending' : ~Answers(f, a) /\ f \in pending
      BY <1>10, <2>1 DEF Answers, IInv, Fit, FitPending
    <2>3. inWorld' => \A f \in pending' : Alive(f)'
      BY <1>2, <1>6, <2>1, <2>2 DEF Promised
    <2>4. ASSUME NEW u \in Acked
          PROVE  Owed(u)'
      <3>1. CASE u = e.type
        <4>1. confirmed'[u] = desired[u]
          BY <2>1, <3>1 DEF TypeOK
        <4> QED BY <1>2, <4>1 DEF Owed
      <3>2. CASE u # e.type
        <4>1. confirmed'[u] = confirmed[u]
          BY <2>1, <3>2, KindFacts DEF TypeOK
        <4>2. \A f \in pending : f.type = u => f \in pending'
          BY <2>1, <3>2
        <4> QED BY <1>2, <4>1, <4>2 DEF Promised, Owed, PendingOf
      <3> QED BY <3>1, <3>2
    <2> QED BY <2>3, <2>4 DEF Promised
  <1>11. ASSUME NEW e \in pending, Answers(e, a), Mismatched(e)
         PROVE  Promised'
    <2>1. /\ e \in Entry /\ e.type \in Acked /\ e.type \in Types /\ e.value \in BOOLEAN
          /\ e.resends \in Nat /\ e.resends + 1 \in Nat
      BY KindFacts DEF TypeOK, Entry
    <2>2. PICK new : new = [e EXCEPT !.counter = next, !.resends = @ + 1]
      OBVIOUS
    <2>3. new.type = e.type /\ new.counter = next /\ new.resends = e.resends + 1
      BY <2>1, <2>2 DEF Entry
    <2>4. /\ pending' = (pending \ {e}) \cup {new} /\ confirmed' = confirmed
          /\ IF Resends(e) THEN Emit(<<Packet(e.type, e.value, next)>>) ELSE UNCHANGED toClient
      BY <1>11, <2>2 DEF Mismatched
    <2>5. /\ \A i \in DOMAIN toClient : i \in DOMAIN toClient' /\ toClient'[i] = toClient[i]
          /\ inWorld /\ Resends(e) => \E i \in DOMAIN toClient' :
               /\ "type" \in DOMAIN toClient'[i]
               /\ toClient'[i].type = e.type /\ toClient'[i].counter = next
      <3>1. CASE Emit(<<Packet(e.type, e.value, next)>>)
        <4>1. PICK u \in Types, w \in BOOLEAN : u = e.type /\ w = e.value
          BY <2>1
        <4>3. Emit(<<Packet(u, w, next)>>) /\ u \in Acked
          BY <2>1, <3>1, <4>1
        <4>4. /\ \A i \in DOMAIN toClient : i \in DOMAIN toClient' /\ toClient'[i] = toClient[i]
              /\ inWorld => \E i \in DOMAIN toClient' :
                   /\ "type" \in DOMAIN toClient'[i]
                   /\ toClient'[i].type = u /\ toClient'[i].counter = next
          BY <4>3, EmitAdds
        <4>2. /\ \A i \in DOMAIN toClient : i \in DOMAIN toClient' /\ toClient'[i] = toClient[i]
              /\ inWorld => \E i \in DOMAIN toClient' :
                   /\ "type" \in DOMAIN toClient'[i]
                   /\ toClient'[i].type = e.type /\ toClient'[i].counter = next
          BY <4>1, <4>4
        <4> QED BY <4>2
      <3>2. CASE ~Resends(e) /\ UNCHANGED toClient
        BY <3>2
      <3> QED BY <2>4, <3>1, <3>2
    <2>6. inWorld => Alive(new)'
      <3>1. CASE Resends(e)
        <4>1. inWorld => OnItsWay(new)'
          BY <2>3, <2>5, <3>1 DEF OnItsWay, Answers
        <4> QED BY <4>1 DEF Alive
      <3>2. CASE ~Resends(e)
        <4>1. new.resends > MaxMismatchResends
          BY <2>1, <2>3, <3>2 DEF Resends, MaxMismatchResends
        <4> QED BY <4>1 DEF Alive
      <3> QED BY <3>1, <3>2
    <2>7. \A f \in pending \ {e} : ~Answers(f, a)
      BY <1>11 DEF Answers, IInv, Fit, FitPending
    <2>8. inWorld => \A f \in pending \ {e} : Alive(f)'
      BY <1>6, <2>5, <2>7 DEF Promised
    <2>9. ASSUME NEW u \in Acked
          PROVE  Owed(u)'
      <3>1. CASE u = e.type
        <4>1. new \in pending' /\ new.type = u
          BY <2>3, <2>4, <3>1
        <4> QED BY <4>1 DEF Owed, PendingOf
      <3>2. CASE u # e.type
        <4>1. \A f \in pending : f.type = u => f \in pending'
          BY <2>4, <3>2
        <4> QED BY <1>2, <2>4, <4>1 DEF Promised, Owed, PendingOf
      <3> QED BY <3>1, <3>2
    <2> QED BY <1>2, <2>4, <2>6, <2>8, <2>9 DEF Promised
  <1>12. ASSUME Ack(a)
         PROVE  \/ \E e \in pending : Answers(e, a) /\ (Matched(e) \/ Mismatched(e))
                \/ UNCHANGED <<pending, confirmed, toClient>> /\ \A e \in pending : ~Answers(e, a)
    BY <1>12 DEF Ack
  <1> QED BY <1>2, <1>7, <1>8, <1>9, <1>10, <1>11, <1>12

LEMMA PromisedStep == IInv /\ Promised /\ [Next]_vars => Promised'
  <1> SUFFICES ASSUME IInv, Promised, [Next]_vars PROVE Promised'
    OBVIOUS
  <1> TypeOK
    BY DEF IInv
  <1>1. ASSUME UNCHANGED <<pending, toClient, unheard, unsaid>>, inWorld' => inWorld,
               \A k \in DOMAIN acks : \E l \in DOMAIN acks' : acks'[l] = acks[k],
               \A t \in Acked : confirmed'[t] = confirmed[t] /\ desired'[t] = desired[t]
        PROVE  Promised'
    <2>1. inWorld' => \A e \in pending' : Alive(e)'
      BY <1>1, AliveKept DEF Promised
    <2> QED BY <1>1, <2>1 DEF Promised, Owed, PendingOf
  <1>2. ASSUME pending' = {}, \A t \in Acked : confirmed'[t] = desired'[t]
        PROVE  Promised'
    BY <1>2 DEF Promised, Owed
  <1>3. CASE UNCHANGED vars
    BY <1>1, <1>3 DEF vars, kernelVars, historyVars
  <1>4. ASSUME NEW t \in Types, NEW v \in BOOLEAN, Apply(t, v) PROVE Promised'
    BY <1>4, PromisedApply
  <1>5. ASSUME NEW t \in Types, NEW v \in BOOLEAN, Adopt(t, v) PROVE Promised'
    <2>1. pending' = {} /\ confirmed' = desired'
      BY <1>5 DEF Adopt, IInv, ServerInv
    <2> QED BY <1>2, <2>1
  <1>6. CASE Revoke \/ Grant
    <2>1. pending' = {} /\ confirmed' = desired /\ desired' = desired
      BY <1>6 DEF Revoke, Grant, IInv, ServerInv
    <2> QED BY <1>2, <2>1
  <1>7. CASE Tick \/ LeaveWorld
    <2>1. CASE Tick
      BY <1>1, <2>1 DEF Tick, historyVars
    <2>2. CASE LeaveWorld
      BY <1>1, <2>2 DEF LeaveWorld, kernelVars, historyVars
    <2> QED BY <1>7, <2>1, <2>2
  <1>8. CASE Stray
    <2>1. /\ UNCHANGED <<kernelVars, inWorld, toClient, unheard, unsaid>>
          /\ \E x : acks' = Append(acks, x)
      BY <1>8 DEF Stray
    <2>2. \A k \in DOMAIN acks : k \in DOMAIN acks' /\ acks'[k] = acks[k]
      <3>1. acks \in Seq(Answered)
        BY ThreeParts DEF WireTypes
      <3> QED BY <2>1, <3>1
    <2> QED BY <1>1, <2>1, <2>2 DEF kernelVars
  <1> QED BY <1>3, <1>4, <1>5, <1>6, <1>7, <1>8, PromisedEpoch, PromisedTakes, PromisedAck DEF Next

\* While a unit is in the world, a change not yet confirmed is on its way to
\* the client or back, for any number of changes: nothing waits for an answer
\* nobody will give; and when the wire is empty the client has caught up.
THEOREM NothingIsForgotten == Spec => []NothingForgotten
  <1>1. Promised => Outstanding
    <2> SUFFICES ASSUME Promised, inWorld, NEW t \in Acked, confirmed[t] # desired[t], ~Excused(t)
                 PROVE  \E e \in PendingOf(t) : OnItsWay(e)
      BY DEF Outstanding
    <2>1. PICK e \in PendingOf(t) : TRUE
      BY DEF Promised, Owed, Excused
    <2>2. Alive(e)
      BY DEF Promised, PendingOf
    <2> QED BY <2>1, <2>2 DEF Alive, Excused
  <1>2. Init => IInv /\ Promised
    BY InitInv, InitPromised
  <1>3. IInv /\ Promised /\ [Next]_vars => IInv' /\ Promised'
    BY StepInv, PromisedStep
  <1> QED BY <1>1, <1>2, <1>3, ClientsCatchUp, PTL DEF Spec, NothingForgotten
=============================================================================
