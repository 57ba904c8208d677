---------------------------- MODULE MapTickProofs ---------------------------
(***************************************************************************)
(* The barrier of the map tick, for any number of workers, maps and        *)
(* vessels: it opens when no update is queued or running, so no unit has   *)
(* two owners, no map is deleted under its update, and each map of a tick  *)
(* is updated once.  What is posted meanwhile is applied once.             *)
(***************************************************************************)
EXTENDS MapTick, FiniteSetTheorems, SequenceTheorems, TLAPS

\* A thread that has a map: about to update it, or updating it.
HasMap == {"begin"} \cup UpdateAt

\* m_pending counts the updates queued and those a worker still owes.
Busy    == {w \in Workers : at[w] \in HasMap \cup {"owe"}}
Barrier == pending = Len(tasks) + Cardinality(Busy)

\* Where the world thread can be in the phase and out of it.  Nothing is
\* owed out of the phase, at its end, and in a tick the workers have no
\* part in.
PhaseInv ==
  /\ at[World] \in {"loop", "wake", "end"} \cup HasMap => active
  /\ at[World] \in OutsideAt \cup {"stop", "rouse", "join", "down"} => ~active
  /\ at[World] = "wake" => pooled
  /\ at[World] \in HasMap => ~pooled
  /\ at[World] \in {"wait", "parked"} /\ active => todo = {}
  /\ at[World] \in {"end", "cross"} => todo = {}
  /\ ~active \/ ~pooled \/ at[World] = "end" => pending = 0
  /\ stop => at[World] \in {"rouse", "join", "down"}

\* A map of the tick is to be scheduled, queued, with one thread, or done.
JobInv ==
  /\ todo \subseteq due
  /\ active => due \subseteq loaded
  /\ Unique(tasks)
  /\ \A m \in InSeq(tasks) : m \in due /\ m \notin todo
  /\ \A t \in Threads : at[t] \in HasMap =>
       /\ job[t] \in due /\ job[t] \notin todo /\ job[t] \notin InSeq(tasks)
       /\ \A u \in Threads : at[u] \in HasMap /\ job[u] = job[t] => u = t

RunInv ==
  /\ \A m \in Maps : runs[m] # 0 =>
       /\ runs[m] = 1
       /\ m \notin todo /\ m \notin InSeq(tasks)
       /\ \A t \in Threads : at[t] = "begin" => job[t] # m
  /\ \A m \in due : \/ runs[m] = 1 \/ m \in todo \/ m \in InSeq(tasks)
                    \/ \E t \in Threads : at[t] = "begin" /\ job[t] = m

\* A deck's update runs nested in the update of the map its vessel sails.
DeckInv == \A t \in Threads :
  at[t] \in {"aboard", "deck"} => deck[t] \in Decks /\ sails[deck[t]] = job[t]

Inv == TypeOK /\ Barrier /\ PhaseInv /\ JobInv /\ RunInv /\ DeckInv

\* TypeOK in four parts.
SetTypes ==
  /\ loaded \subseteq Maps /\ todo \subseteq Maps /\ due \subseteq Maps
  /\ pending \in Nat /\ ticks \in Nat
  /\ stop \in BOOLEAN /\ active \in BOOLEAN /\ pooled \in BOOLEAN
  /\ tasks \in Seq(Maps)

PlaceTypes ==
  /\ at \in [Threads -> WorkerAt \cup WorldAt]
  /\ \A w \in Workers : at[w] \in WorkerAt
  /\ at[World] \in WorldAt

ScopeTypes ==
  /\ job \in [Threads -> Maps \cup {None}]
  /\ deck \in [Threads -> Decks \cup {None}]
  /\ seen \in [Threads -> SUBSET Decks]
  /\ sails \in [Decks -> Shores] /\ crossing \in [Decks -> Shores \cup {None}]
  /\ runs \in [Maps -> Nat]

PostTypes ==
  /\ afterQ \in Seq(Nat) /\ teamQ \in [AllMaps -> Seq(Nat)]
  /\ offQ \in Seq(Nat \X AllMaps)
  /\ fate \in Seq({"queued", "done", "lost"})

LEMMA FourParts == TypeOK <=> SetTypes /\ PlaceTypes /\ ScopeTypes /\ PostTypes
  BY DEF TypeOK, SetTypes, PlaceTypes, ScopeTypes, PostTypes

LEMMA MapFacts ==
  /\ Shores \subseteq Maps /\ Instances \subseteq Maps /\ Maps \subseteq AllMaps
  /\ Decks \subseteq AllMaps /\ Decks \cap Maps = {}
  /\ World \in Threads /\ World \notin Workers
  /\ \A w \in Workers : w \in Threads /\ w # World
  /\ None \notin Maps
  BY MapTickAssumption DEF Maps, AllMaps, Threads

\* What Len, Append and Tail do to the members of a queue.
LEMMA QueueFacts ==
  ASSUME NEW S, NEW s \in Seq(S), NEW x \in S
  PROVE  /\ InSeq(Append(s, x)) = InSeq(s) \cup {x}
         /\ x \notin InSeq(s) /\ Unique(s) => Unique(Append(s, x))
         /\ s # <<>> => /\ Head(s) \in S
                        /\ InSeq(s) = InSeq(Tail(s)) \cup {Head(s)}
                        /\ Unique(s) => Unique(Tail(s)) /\ Head(s) \notin InSeq(Tail(s))
                        /\ Len(Tail(s)) = Len(s) - 1 /\ Tail(s) \in Seq(S)
  <1>1. InSeq(Append(s, x)) = InSeq(s) \cup {x}
    <2>1. /\ DOMAIN s = 1..Len(s) /\ DOMAIN Append(s, x) = 1..Len(s) + 1 /\ Len(s) \in Nat
          /\ \A i \in 1..Len(s) : Append(s, x)[i] = s[i]
          /\ Append(s, x)[Len(s) + 1] = x
      OBVIOUS
    <2>2. \A i \in DOMAIN Append(s, x) : i \in DOMAIN s \/ i = Len(s) + 1
      BY <2>1
    <2>3. \A i \in DOMAIN s : i \in DOMAIN Append(s, x) /\ Append(s, x)[i] = s[i]
      BY <2>1
    <2>4. Len(s) + 1 \in DOMAIN Append(s, x)
      BY <2>1
    <2>5. Append(s, x)[Len(s) + 1] = x
      BY <2>1
    <2>6. \A y \in InSeq(Append(s, x)) : y \in InSeq(s) \cup {x}
      BY <2>2, <2>3, <2>5 DEF InSeq
    <2>7. \A y \in InSeq(s) \cup {x} : y \in InSeq(Append(s, x))
      BY <2>3, <2>4, <2>5 DEF InSeq
    <2> QED BY <2>6, <2>7
  <1>2. ASSUME x \notin InSeq(s), Unique(s)
        PROVE  Unique(Append(s, x))
    BY <1>2 DEF InSeq, Unique
  <1>3. ASSUME s # <<>>
        PROVE  /\ Head(s) \in S /\ Head(s) = s[1] /\ Len(s) \in Nat \ {0}
               /\ Tail(s) \in Seq(S) /\ Len(Tail(s)) = Len(s) - 1
               /\ \A i \in 1..Len(s) - 1 : Tail(s)[i] = s[i + 1]
    BY <1>3
  <1>4. ASSUME s # <<>>
        PROVE  InSeq(s) = InSeq(Tail(s)) \cup {Head(s)}
    <2>1. DOMAIN Tail(s) = 1..Len(s) - 1 /\ DOMAIN s = 1..Len(s)
      BY <1>3, <1>4
    <2>2. \A i \in DOMAIN s : i = 1 \/ (i - 1 \in DOMAIN Tail(s) /\ Tail(s)[i - 1] = s[i])
      BY <1>3, <1>4, <2>1
    <2>3. \A i \in DOMAIN Tail(s) : i + 1 \in DOMAIN s /\ Tail(s)[i] = s[i + 1]
      BY <1>3, <1>4, <2>1
    <2>4. 1 \in DOMAIN s /\ Head(s) = s[1]
      BY <1>3, <1>4, <2>1
    <2> QED BY <2>2, <2>3, <2>4 DEF InSeq
  <1>5. ASSUME s # <<>>, Unique(s)
        PROVE  Unique(Tail(s)) /\ Head(s) \notin InSeq(Tail(s))
    <2>1. DOMAIN Tail(s) = 1..Len(s) - 1 /\ DOMAIN s = 1..Len(s)
      BY <1>3, <1>5
    <2> QED BY <1>3, <1>5, <2>1 DEF InSeq, Unique
  <1> QED BY <1>1, <1>2, <1>3, <1>4, <1>5

LEMMA BusyFinite == IsFiniteSet(Busy) /\ Cardinality(Busy) \in Nat
  BY MapTickAssumption, FS_Subset, FS_CardinalityType DEF Busy

LEMMA OpenBarrier ==
  ASSUME TypeOK, Barrier
  PROVE  /\ pending = 0 => tasks = <<>> /\ InSeq(tasks) = {} /\ Busy = {}
         /\ \A w \in Busy : pending - 1 \in Nat
  <1>1. Len(tasks) \in Nat /\ pending \in Nat
    BY DEF TypeOK
  <1>2. ASSUME pending = 0
        PROVE  tasks = <<>> /\ InSeq(tasks) = {} /\ Busy = {}
    <2>1. Len(tasks) = 0 /\ Cardinality(Busy) = 0
      BY <1>1, <1>2, BusyFinite DEF Barrier
    <2>2. Busy = {}
      BY <2>1, BusyFinite, FS_EmptySet
    <2>3. tasks = <<>>
      BY <2>1 DEF TypeOK
    <2> QED BY <2>2, <2>3 DEF InSeq
  <1>3. ASSUME NEW w \in Busy
        PROVE  pending - 1 \in Nat
    <2>1. Cardinality(Busy) # 0
      BY BusyFinite, FS_EmptySet
    <2> QED BY <1>1, <2>1, BusyFinite DEF Barrier
  <1> QED BY <1>2, <1>3
-----------------------------------------------------------------------------
\* Types: the pool, the sets of maps and the phase.
LEMMA SetTypesStep ==
  ASSUME TypeOK, Barrier, Next
  PROVE  SetTypes'
  <1> SetTypes
    BY FourParts
  <1> USE DEF SetTypes
  <1>1. ASSUME NEW t \in Threads, Post(t) \/ SpuriousWake(t)
        PROVE  SetTypes'
    BY <1>1 DEF Post, SpuriousWake, poolVars, mapVars, phaseVars
  <1>2. ASSUME NEW t \in Threads, UpdateStep(t)
        PROVE  SetTypes'
    BY <1>2 DEF UpdateStep, Enter, Sail, EnterDeck, LeaveDeck, Leave, Bound, poolVars, mapVars,
                phaseVars
  <1>3. ASSUME NEW w \in Workers, Look(w)
        PROVE  SetTypes'
    <2>1. UNCHANGED <<loaded, todo, due, pending, ticks, stop, active, pooled>>
      BY <1>3 DEF Look, poolVars, mapVars, phaseVars
    <2>2. tasks' = tasks \/ (tasks # <<>> /\ tasks' = Tail(tasks))
      BY <1>3 DEF Look, poolVars
    <2>3. tasks' \in Seq(Maps)
      BY <2>2
    <2> QED BY <2>1, <2>3
  <1>4. ASSUME NEW w \in Workers, GiveBack(w)
        PROVE  SetTypes'
    <2>1. pending - 1 \in Nat
      BY <1>4, OpenBarrier DEF GiveBack, Busy, Go
    <2> QED BY <1>4, <2>1 DEF GiveBack, mapVars, phaseVars
  <1>5. ASSUME NEW w \in Workers, Tell(w) \/ Throw(w)
        PROVE  SetTypes'
    BY <1>5 DEF Tell, Throw, poolVars, mapVars, phaseVars
  <1>6. ASSUME NEW m \in Maps, CreateMap(m) \/ RunInline(m)
        PROVE  SetTypes'
    BY <1>6 DEF CreateMap, RunInline, poolVars, mapVars, phaseVars
  <1>7. ASSUME NEW m \in Maps, Schedule(m)
        PROVE  SetTypes'
    <2>1. tasks' \in Seq(Maps) /\ pending' \in Nat
      BY <1>7 DEF Schedule
    <2> QED BY <1>7, <2>1 DEF Schedule, mapVars
  <1>8. CASE BeginTick
    <2>1. PICK p \in IF Workers = {} THEN {FALSE} ELSE BOOLEAN : pooled' = p
      BY <1>8 DEF BeginTick
    <2>2. p \in BOOLEAN
      <3>1. CASE Workers = {}
        BY <2>1, <3>1
      <3>2. CASE Workers # {}
        BY <2>1, <3>2
      <3> QED BY <3>1, <3>2
    <2>3. ticks' \in Nat
      BY <1>8 DEF BeginTick
    <2> QED BY <1>8, <2>1, <2>2, <2>3 DEF BeginTick, poolVars, mapVars
  <1>9. CASE UnloadAll \/ Unload
    BY <1>9 DEF UnloadAll, Unload, Drop, poolVars, phaseVars
  <1>10. ASSUME NEW d \in Decks, CompleteCrossing(d)
         PROVE  SetTypes'
    <2>1. crossing[d] \in Maps
      BY <1>10, MapFacts DEF CompleteCrossing, TypeOK
    <2> QED BY <1>10, <2>1 DEF CompleteCrossing, poolVars, phaseVars
  <1>11. CASE \/ WakeOne \/ AllScheduled \/ Wait \/ EndPhase \/ AllCrossed
              \/ ApplyAfterMapPhasePosts \/ ApplyOffMapAuraUpdates \/ Stop \/ Rouse \/ Join
    BY <1>11 DEF WakeOne, Wakeable, Parked, AllScheduled, Wait, EndPhase, AllCrossed,
                 ApplyAfterMapPhasePosts, ApplyOffMapAuraUpdates, Stop, Rouse, Join, poolVars,
                 mapVars, phaseVars
  <1> QED BY <1>1, <1>2, <1>3, <1>4, <1>5, <1>6, <1>7, <1>8, <1>9, <1>10, <1>11, MapFacts
          DEF Next, WorldOn, WorkerStep

\* Types: where the threads are.
LEMMA PlaceTypesStep ==
  ASSUME TypeOK, Next
  PROVE  PlaceTypes'
  <1> PlaceTypes
    BY FourParts
  <1> USE MapFacts DEF PlaceTypes, Go, WorldGo, WorkerAt, WorldAt, UpdateAt, OutsideAt
  <1>1. ASSUME NEW t \in Threads, Post(t) \/ SpuriousWake(t)
        PROVE  PlaceTypes'
    BY <1>1 DEF Post, SpuriousWake, Threads
  <1>2. ASSUME NEW t \in Threads, UpdateStep(t)
        PROVE  PlaceTypes'
    BY <1>2 DEF UpdateStep, Enter, Sail, EnterDeck, LeaveDeck, Leave, Threads
  <1>3. ASSUME NEW w \in Workers, Look(w) \/ GiveBack(w) \/ Throw(w)
        PROVE  PlaceTypes'
    BY <1>3 DEF Look, GiveBack, Throw, Catch
  <1>4. ASSUME NEW w \in Workers, Tell(w)
        PROVE  PlaceTypes'
    BY <1>4 DEF Tell, WakeWorld
  <1>5. ASSUME NEW m \in Maps, CreateMap(m) \/ RunInline(m) \/ Schedule(m)
        PROVE  PlaceTypes'
    BY <1>5 DEF CreateMap, RunInline, Schedule
  <1>6. ASSUME NEW d \in Decks, CompleteCrossing(d)
        PROVE  PlaceTypes'
    BY <1>6 DEF CompleteCrossing
  <1>7. CASE WakeOne \/ Rouse
    BY <1>7 DEF WakeOne, Wakeable, Parked, Rouse
  <1>8. CASE \/ BeginTick \/ UnloadAll \/ Unload \/ AllScheduled \/ Wait \/ EndPhase \/ AllCrossed
             \/ ApplyAfterMapPhasePosts \/ ApplyOffMapAuraUpdates \/ Stop \/ Join
    BY <1>8 DEF BeginTick, UnloadAll, Unload, AllScheduled, Wait, EndPhase, AllCrossed,
                ApplyAfterMapPhasePosts, ApplyOffMapAuraUpdates, Stop, Join
  <1> QED BY <1>1, <1>2, <1>3, <1>4, <1>5, <1>6, <1>7, <1>8
          DEF Next, WorldOn, WorkerStep

LEMMA CountUp ==
  ASSUME runs \in [Maps -> Nat], NEW m
  PROVE  [runs EXCEPT ![m] = @ + 1] \in [Maps -> Nat]
  <1>1. CASE m \in Maps
    <2>1. runs[m] + 1 \in Nat
      BY <1>1
    <2> QED BY <2>1
  <1>2. CASE m \notin Maps
    BY <1>2
  <1> QED BY <1>1, <1>2

\* Types: what each thread works on, and where the vessels are.
LEMMA ScopeTypesStep ==
  ASSUME TypeOK, Next
  PROVE  ScopeTypes'
  <1> ScopeTypes /\ SetTypes
    BY FourParts
  <1> USE DEF ScopeTypes
  <1>1. ASSUME NEW t \in Threads, Post(t) \/ SpuriousWake(t)
        PROVE  ScopeTypes'
    BY <1>1 DEF Post, SpuriousWake, mapVars, scopeVars
  <1>2. ASSUME NEW t \in Threads, Enter(t), job[t] \in Maps \cup {None}
        PROVE  ScopeTypes'
    <2>1. runs' \in [Maps -> Nat]
      BY <1>2, CountUp DEF Enter
    <2>2. seen' \in [Threads -> SUBSET Decks]
      BY <1>2 DEF Enter
    <2> QED BY <1>2, <2>1, <2>2 DEF Enter, mapVars
  <1>3. ASSUME NEW t \in Threads, NEW d \in Decks, Sail(t, d)
        PROVE  ScopeTypes'
    <2>1. crossing' \in [Decks -> Shores \cup {None}] /\ sails' = sails
      BY <1>3 DEF Sail, Bound
    <2>2. deck' \in [Threads -> Decks \cup {None}] /\ seen' \in [Threads -> SUBSET Decks]
      BY <1>3 DEF Sail
    <2> QED BY <1>3, <2>1, <2>2 DEF Sail
  <1>4. ASSUME NEW t \in Threads, EnterDeck(t) \/ LeaveDeck(t) \/ Leave(t)
        PROVE  ScopeTypes'
    BY <1>4 DEF EnterDeck, LeaveDeck, Leave, mapVars, scopeVars
  <1>5. ASSUME NEW w \in Workers, Look(w)
        PROVE  ScopeTypes'
    <2>1. job' \in [Threads -> Maps \cup {None}]
      <3>1. tasks # <<>> => Head(tasks) \in Maps
        BY DEF SetTypes
      <3> QED BY <1>5, <3>1 DEF Look, scopeVars
    <2> QED BY <1>5, <2>1 DEF Look, mapVars, scopeVars
  <1>6. ASSUME NEW w \in Workers, GiveBack(w) \/ Tell(w)
        PROVE  ScopeTypes'
    BY <1>6 DEF GiveBack, Tell, mapVars, scopeVars
  <1>7. ASSUME NEW w \in Workers, Throw(w)
        PROVE  ScopeTypes'
    <2>1. runs' \in [Maps -> Nat]
      BY <1>7, CountUp DEF Throw
    <2> QED BY <1>7, <2>1 DEF Throw, mapVars
  <1>8. ASSUME NEW m \in Maps, CreateMap(m) \/ RunInline(m) \/ Schedule(m)
        PROVE  ScopeTypes'
    BY <1>8 DEF CreateMap, RunInline, Schedule, mapVars, scopeVars
  <1>9. CASE BeginTick
    BY <1>9 DEF BeginTick, mapVars
  <1>10. CASE UnloadAll
    BY <1>10 DEF UnloadAll, scopeVars
  <1>11. ASSUME NEW d \in Decks, CompleteCrossing(d)
         PROVE  ScopeTypes'
    BY <1>11 DEF CompleteCrossing, scopeVars
  <1>12. CASE \/ WakeOne \/ Unload \/ AllScheduled \/ Wait \/ EndPhase \/ AllCrossed
              \/ ApplyAfterMapPhasePosts \/ ApplyOffMapAuraUpdates \/ Stop \/ Rouse \/ Join
    BY <1>12 DEF WakeOne, Wakeable, Parked, Unload, Drop, AllScheduled, Wait, EndPhase, AllCrossed,
                 ApplyAfterMapPhasePosts, ApplyOffMapAuraUpdates, Stop, Rouse, Join, mapVars,
                 scopeVars
  <1> QED BY <1>1, <1>2, <1>3, <1>4, <1>5, <1>6, <1>7, <1>8, <1>9, <1>10, <1>11, <1>12, MapFacts
          DEF Next, WorldOn, WorkerStep, UpdateStep

-----------------------------------------------------------------------------
\* Types: the posts.
LEMMA SameShape ==
  ASSUME NEW S, NEW s \in Seq(S), NEW f, f = [i \in DOMAIN s |-> f[i]],
         \A i \in DOMAIN s : f[i] \in S
  PROVE  f \in Seq(S)
  <1>1. DOMAIN s = 1..Len(s) /\ Len(s) \in Nat
    OBVIOUS
  <1>2. f \in [1..Len(s) -> S]
    BY <1>1
  <1> QED BY <1>1, <1>2, SeqDef

Fates == {"queued", "done", "lost"}

LEMMA SettledTypes ==
  ASSUME PostTypes, NEW ps, NEW f \in Fates
  PROVE  Settled(ps, f) \in Seq(Fates)
  <1>1. \A p \in DOMAIN fate : fate[p] \in Fates
    BY DEF PostTypes, Fates
  <1>2. \A p \in DOMAIN fate : Settled(ps, f)[p] \in Fates
    BY <1>1 DEF Settled
  <1>3. Settled(ps, f) = [p \in DOMAIN fate |-> Settled(ps, f)[p]]
    BY DEF Settled
  <1> QED BY <1>2, <1>3, SameShape DEF PostTypes, Fates

LEMMA ScopesAreMaps ==
  ASSUME TypeOK, JobInv, DeckInv, NEW t \in Threads
  PROVE  Scopes(t) \subseteq AllMaps
  <1>1. at[t] \in UpdateAt => job[t] \in Maps
    BY DEF JobInv, HasMap, TypeOK
  <1>2. at[t] = "deck" => deck[t] \in Decks
    BY DEF DeckInv
  <1> QED BY <1>1, <1>2, MapFacts DEF Scopes, UpdateAt

LEMMA PostStepTypes ==
  ASSUME TypeOK, JobInv, DeckInv, NEW t \in Threads, Post(t)
  PROVE  PostTypes'
  <1> PostTypes
    BY FourParts
  <1>1. /\ Queued \in Seq(Fates) /\ Done \in Seq(Fates) /\ Lost \in Seq(Fates)
        /\ Fresh \in Nat
    BY DEF Queued, Done, Lost, Fresh, PostTypes, Fates
  <1>2. CASE PostAfterPhase
    BY <1>1, <1>2 DEF PostAfterPhase, PostTypes, Fates
  <1>3. ASSUME NEW m \in AllMaps, PostTeamBuff(t, m)
        PROVE  PostTypes'
    <2>1. fate' \in Seq(Fates)
      BY <1>1, <1>3 DEF PostTeamBuff
    <2>2. teamQ' \in [AllMaps -> Seq(Nat)]
      <3>1. Append(teamQ[m], Fresh) \in Seq(Nat)
        BY <1>1 DEF PostTypes
      <3> QED BY <1>3, <3>1 DEF PostTeamBuff, PostTypes
    <2> QED BY <1>3, <2>1, <2>2 DEF PostTeamBuff, PostTypes, Fates
  <1>4. ASSUME NEW m \in AllMaps, NEW c \in AllMaps, PostAuraUpdate(t, m, c)
        PROVE  PostTypes'
    <2>1. Append(offQ, <<Fresh, m>>) \in Seq(Nat \X AllMaps)
      BY <1>1 DEF PostTypes
    <2>2. offQ' \in Seq(Nat \X AllMaps) /\ fate' \in Seq(Fates)
      BY <1>1, <1>4, <2>1 DEF PostAuraUpdate, PostTypes
    <2> QED BY <1>4, <2>2 DEF PostAuraUpdate, PostTypes, Fates
  <1>5. Scopes(t) \subseteq AllMaps
    BY ScopesAreMaps
  <1> QED BY <1>2, <1>3, <1>4, <1>5 DEF Post

LEMMA TakenTypes ==
  ASSUME PostTypes, NEW m, TakenNotApplied(m)
  PROVE  PostTypes'
  <1>1. PICK n \in 0..Len(teamQ[m]) - 1 :
          fate' = [p \in DOMAIN fate |->
                     IF p \notin InSeq(teamQ[m]) THEN fate[p]
                     ELSE IF p \in InSeq(SubSeq(teamQ[m], 1, n)) THEN "done" ELSE "lost"]
    BY DEF TakenNotApplied
  <1>2. \A p \in DOMAIN fate : fate[p] \in Fates
    BY DEF PostTypes, Fates
  <1>3. \A p \in DOMAIN fate : fate'[p] \in Fates
    BY <1>1, <1>2 DEF Fates
  <1>4. fate' = [p \in DOMAIN fate |-> fate'[p]]
    BY <1>1
  <1>5. fate' \in Seq(Fates)
    BY <1>3, <1>4, SameShape DEF PostTypes, Fates
  <1>6. teamQ' \in [AllMaps -> Seq(Nat)]
    <2>1. <<>> \in Seq(Nat)
      OBVIOUS
    <2> QED BY <2>1 DEF TakenNotApplied, PostTypes
  <1> QED BY <1>5, <1>6 DEF TakenNotApplied, PostTypes, Fates

LEMMA AppliedTypes ==
  ASSUME PostTypes, NEW m, ApplyTeamBuffs(m)
  PROVE  PostTypes'
  <1>1. fate' \in Seq(Fates)
    BY SettledTypes DEF ApplyTeamBuffs, Fates
  <1>2. teamQ' \in [AllMaps -> Seq(Nat)]
    <2>1. <<>> \in Seq(Nat)
      OBVIOUS
    <2> QED BY <2>1 DEF ApplyTeamBuffs, PostTypes
  <1> QED BY <1>1, <1>2 DEF ApplyTeamBuffs, PostTypes, Fates

LEMMA PostTypesStep ==
  ASSUME TypeOK, JobInv, DeckInv, Next
  PROVE  PostTypes'
  <1> PostTypes
    BY FourParts
  <1>1. ASSUME NEW t \in Threads, Post(t)
        PROVE  PostTypes'
    BY <1>1, PostStepTypes
  <1>2. ASSUME NEW t \in Threads, Enter(t)
        PROVE  PostTypes'
    BY <1>2, AppliedTypes DEF Enter
  <1>3. ASSUME NEW t \in Threads, EnterDeck(t)
        PROVE  PostTypes'
    BY <1>3, AppliedTypes DEF EnterDeck
  <1>4. ASSUME NEW w \in Workers, Throw(w)
        PROVE  PostTypes'
    BY <1>4, TakenTypes DEF Throw, PostTypes, postVars
  <1>5. ASSUME NEW ms, Drop(ms)
        PROVE  PostTypes'
    <2>1. fate' \in Seq(Fates)
      BY <1>5, SettledTypes DEF Drop, Fates
    <2>2. teamQ' \in [AllMaps -> Seq(Nat)]
      BY <1>5 DEF Drop, PostTypes
    <2> QED BY <1>5, <2>1, <2>2 DEF Drop, PostTypes, Fates
  <1>6. CASE UnloadAll
    <2>1. fate' \in Seq(Fates)
      BY <1>6, SettledTypes DEF UnloadAll, Fates
    <2>2. teamQ' \in [AllMaps -> Seq(Nat)]
      BY <1>6 DEF UnloadAll, PostTypes
    <2> QED BY <1>6, <2>1, <2>2 DEF UnloadAll, PostTypes, Fates
  <1>7. CASE ApplyAfterMapPhasePosts
    <2>1. fate' \in Seq(Fates)
      BY <1>7, SettledTypes DEF ApplyAfterMapPhasePosts, PostTypes, Fates
    <2> QED BY <1>7, <2>1 DEF ApplyAfterMapPhasePosts, PostTypes, Fates
  <1>8. CASE ApplyOffMapAuraUpdates
    <2>1. \A p \in DOMAIN fate : fate[p] \in Fates
      BY DEF PostTypes, Fates
    <2>2. /\ \A p \in DOMAIN fate : fate'[p] \in Fates
          /\ fate' = [p \in DOMAIN fate |-> fate'[p]]
      BY <1>8, <2>1 DEF ApplyOffMapAuraUpdates, Fates
    <2>3. fate' \in Seq(Fates)
      BY <2>2, SameShape DEF PostTypes, Fates
    <2> QED BY <1>8, <2>3 DEF ApplyOffMapAuraUpdates, PostTypes, Fates
  <1>9. CASE /\ UNCHANGED postVars
    BY <1>9 DEF PostTypes, postVars
  <1>10. ASSUME NEW t \in Threads, \/ SpuriousWake(t) \/ LeaveDeck(t) \/ Leave(t)
                                   \/ \E d \in Decks : Sail(t, d)
         PROVE  UNCHANGED postVars
    BY <1>10 DEF SpuriousWake, LeaveDeck, Leave, Sail
  <1>11. ASSUME NEW w \in Workers, Look(w) \/ GiveBack(w) \/ Tell(w)
         PROVE  UNCHANGED postVars
    BY <1>11 DEF Look, GiveBack, Tell
  <1>12. ASSUME NEW m \in Maps, CreateMap(m) \/ RunInline(m) \/ Schedule(m)
         PROVE  UNCHANGED postVars
    BY <1>12 DEF CreateMap, RunInline, Schedule
  <1>13. ASSUME \/ BeginTick \/ WakeOne \/ AllScheduled \/ Wait \/ EndPhase \/ AllCrossed
                \/ Stop \/ Rouse \/ Join \/ \E d \in Decks : CompleteCrossing(d)
         PROVE  UNCHANGED postVars
    BY <1>13 DEF BeginTick, WakeOne, Wakeable, Parked, AllScheduled, Wait, EndPhase, AllCrossed,
                 Stop, Rouse, Join, CompleteCrossing
  <1> QED BY <1>1, <1>2, <1>3, <1>4, <1>5, <1>6, <1>7, <1>8, <1>9, <1>10, <1>11, <1>12, <1>13,
             MapFacts
          DEF Next, WorldOn, WorkerStep, UpdateStep, Unload

LEMMA TypeStep ==
  ASSUME TypeOK, Barrier, JobInv, DeckInv, Next
  PROVE  TypeOK'
  BY SetTypesStep, PlaceTypesStep, ScopeTypesStep, PostTypesStep
     DEF TypeOK, SetTypes, PlaceTypes, ScopeTypes, PostTypes

-----------------------------------------------------------------------------
\* The barrier: a step that moves one worker moves the count with it.
LEMMA SameBusy ==
  ASSUME Barrier, UNCHANGED <<tasks, pending>>,
         \A w \in Workers : at'[w] \in HasMap \cup {"owe"} <=> at[w] \in HasMap \cup {"owe"}
  PROVE  Barrier'
  <1>1. Busy' = Busy
    BY DEF Busy
  <1> QED BY <1>1 DEF Barrier

LEMMA BarrierStep ==
  ASSUME TypeOK, Barrier, Next
  PROVE  Barrier'
  <1> USE MapFacts DEF HasMap, UpdateAt
  <1> at \in [Threads -> WorkerAt \cup WorldAt]
    BY DEF TypeOK
  <1>1. ASSUME NEW t \in Threads, Post(t) \/ SpuriousWake(t)
        PROVE  Barrier'
    BY <1>1, SameBusy DEF Post, SpuriousWake, Go, poolVars
  <1>2. ASSUME NEW t \in Threads, UpdateStep(t)
        PROVE  Barrier'
    BY <1>2, SameBusy DEF UpdateStep, Enter, Sail, EnterDeck, LeaveDeck, Leave, Go, poolVars
  <1>3. ASSUME NEW w \in Workers, Look(w), tasks # <<>>
        PROVE  Barrier'
    <2>1. tasks' = Tail(tasks) /\ pending' = pending /\ at[w] = "look"
          /\ at' = [at EXCEPT ![w] = "begin"]
      BY <1>3 DEF Look, Go
    <2>2. Busy' = Busy \cup {w} /\ w \notin Busy
      BY <2>1 DEF Busy
    <2>3. Cardinality(Busy') = Cardinality(Busy) + 1
      BY <2>2, BusyFinite, FS_AddElement
    <2>4. Len(tasks') = Len(tasks) - 1 /\ Len(tasks) \in Nat /\ pending' = pending
      BY <1>3, <2>1 DEF TypeOK
    <2>5. Cardinality(Busy) \in Nat
      BY BusyFinite
    <2> HIDE MapFacts DEF HasMap, UpdateAt
    <2> QED BY <2>3, <2>4, <2>5 DEF Barrier
  <1>4. ASSUME NEW w \in Workers, Look(w), tasks = <<>>
        PROVE  Barrier'
    BY <1>4, SameBusy DEF Look, Go, poolVars
  <1>5. ASSUME NEW w \in Workers, GiveBack(w)
        PROVE  Barrier'
    <2>1. tasks' = tasks /\ pending' = pending - 1 /\ at[w] = "owe"
          /\ at' = [at EXCEPT ![w] = "tell"]
      BY <1>5 DEF GiveBack, Go
    <2>2. Busy' = Busy \ {w} /\ w \in Busy
      BY <2>1 DEF Busy
    <2>3. Cardinality(Busy') = Cardinality(Busy) - 1
      BY <2>2, BusyFinite, FS_RemoveElement
    <2>4. Len(tasks) \in Nat
      BY DEF TypeOK
    <2> QED BY <2>1, <2>3, <2>4, BusyFinite DEF Barrier
  <1>6. ASSUME NEW w \in Workers, Tell(w) \/ Throw(w)
        PROVE  Barrier'
    BY <1>6, SameBusy DEF Tell, WakeWorld, Throw, Catch, Go, poolVars
  <1>7. ASSUME NEW m \in Maps, CreateMap(m) \/ RunInline(m)
        PROVE  Barrier'
    BY <1>7, SameBusy DEF CreateMap, RunInline, WorldGo, Go, poolVars
  <1>8. ASSUME NEW m \in Maps, Schedule(m)
        PROVE  Barrier'
    <2>1. Busy' = Busy
      BY <1>8 DEF Schedule, WorldGo, Go, Busy
    <2>2. Len(Append(tasks, m)) = Len(tasks) + 1 /\ Len(tasks) \in Nat
      BY DEF TypeOK
    <2> QED BY <1>8, <2>1, <2>2, BusyFinite DEF Schedule, Barrier
  <1>9. CASE WakeOne
    BY <1>9, SameBusy DEF WakeOne, Wakeable, Parked, poolVars
  <1>10. CASE Rouse
    BY <1>10, SameBusy DEF Rouse, poolVars, Threads
  <1>11. CASE Stop
    BY <1>11, SameBusy DEF Stop, WorldGo, Go
  <1>12. ASSUME NEW d \in Decks, CompleteCrossing(d)
         PROVE  Barrier'
    BY <1>12, SameBusy DEF CompleteCrossing, poolVars
  <1>13. CASE \/ BeginTick \/ UnloadAll \/ Unload \/ AllScheduled \/ Wait \/ EndPhase \/ AllCrossed
              \/ ApplyAfterMapPhasePosts \/ ApplyOffMapAuraUpdates \/ Join
    BY <1>13, SameBusy DEF BeginTick, UnloadAll, Unload, AllScheduled, Wait, EndPhase, AllCrossed,
                 ApplyAfterMapPhasePosts, ApplyOffMapAuraUpdates, Join, WorldGo, Go, poolVars
  <1> QED BY <1>1, <1>2, <1>3, <1>4, <1>5, <1>6, <1>7, <1>8, <1>9, <1>10, <1>11, <1>12, <1>13
          DEF Next, WorldOn, WorkerStep

-----------------------------------------------------------------------------
\* The phase: the world thread moves by itself, except out of the condition
\* variable, where a worker's notification moves it from "parked" to "wait".
LEMMA WorldKept ==
  ASSUME PhaseInv, UNCHANGED <<active, pooled, todo, pending, stop>>,
         at'[World] = at[World] \/ (at[World] = "parked" /\ at'[World] = "wait")
  PROVE  PhaseInv'
  BY DEF PhaseInv, HasMap, UpdateAt, OutsideAt

LEMMA WorldUpdates ==
  ASSUME PhaseInv, UNCHANGED <<active, pooled, todo, pending, stop>>,
         at[World] \in HasMap, at'[World] \in HasMap \cup {"loop"}
  PROVE  PhaseInv'
  BY DEF PhaseInv, HasMap, UpdateAt, OutsideAt

LEMMA PhaseStep ==
  ASSUME TypeOK, Barrier, PhaseInv, Next
  PROVE  PhaseInv'
  <1> USE MapFacts
  <1> at \in [Threads -> WorkerAt \cup WorldAt]
    BY DEF TypeOK
  <1>1. ASSUME NEW t \in Threads, Post(t) \/ SpuriousWake(t)
        PROVE  PhaseInv'
    BY <1>1, WorldKept DEF Post, SpuriousWake, Go, poolVars, phaseVars
  <1>2. ASSUME NEW t \in Threads, UpdateStep(t)
        PROVE  PhaseInv'
    <2>1. UNCHANGED <<active, pooled, todo, pending, stop>>
      BY <1>2 DEF UpdateStep, Enter, Sail, EnterDeck, LeaveDeck, Leave, poolVars, phaseVars
    <2>2. CASE t = World
      BY <1>2, <2>1, <2>2, WorldUpdates DEF UpdateStep, Enter, Sail, EnterDeck, LeaveDeck, Leave,
         Go, HasMap, UpdateAt
    <2>3. CASE t # World
      BY <1>2, <2>1, <2>3, WorldKept DEF UpdateStep, Enter, Sail, EnterDeck, LeaveDeck, Leave, Go
    <2> QED BY <2>2, <2>3
  <1>3. ASSUME NEW w \in Workers, Look(w) \/ Tell(w) \/ Throw(w)
        PROVE  PhaseInv'
    BY <1>3, WorldKept DEF Look, Tell, WakeWorld, Throw, Catch, Go, poolVars, phaseVars
  <1>4. ASSUME NEW w \in Workers, GiveBack(w)
        PROVE  PhaseInv'
    <2>1. pending # 0
      BY <1>4, OpenBarrier DEF GiveBack, Go, Busy, HasMap
    <2>2. at'[World] = at[World] /\ UNCHANGED <<active, pooled, todo, stop>>
      BY <1>4 DEF GiveBack, Go, phaseVars
    <2> QED BY <2>1, <2>2 DEF PhaseInv
  <1>5. ASSUME NEW m \in Maps, CreateMap(m)
        PROVE  PhaseInv'
    BY <1>5, WorldKept DEF CreateMap, poolVars, phaseVars
  <1>6. ASSUME NEW m \in Maps, RunInline(m) \/ Schedule(m)
        PROVE  PhaseInv'
    BY <1>6 DEF RunInline, Schedule, WorldGo, Go, poolVars, PhaseInv, HasMap, UpdateAt, OutsideAt
  <1>7. ASSUME NEW d \in Decks, CompleteCrossing(d)
        PROVE  PhaseInv'
    BY <1>7, WorldKept DEF CompleteCrossing, poolVars, phaseVars
  <1>8. CASE BeginTick
    <2>1. /\ at[World] = "tick" /\ at'[World] = "loop" /\ active'
          /\ UNCHANGED <<pending, stop>>
      BY <1>8 DEF BeginTick, WorldGo, Go, poolVars
    <2> QED BY <2>1 DEF PhaseInv, HasMap, UpdateAt, OutsideAt
  <1>11. CASE WakeOne
    <2>1. /\ at[World] = "wake" /\ at'[World] = "loop"
          /\ UNCHANGED <<active, pooled, todo, pending, stop>>
      BY <1>11 DEF WakeOne, Wakeable, Parked, poolVars, phaseVars
    <2> QED BY <2>1 DEF PhaseInv, HasMap, UpdateAt, OutsideAt
  <1>12. CASE AllScheduled
    <2>1. /\ at[World] = "loop" /\ at'[World] = (IF pooled THEN "wait" ELSE "end") /\ todo = {}
          /\ UNCHANGED <<active, pooled, todo, pending, stop>>
      BY <1>12 DEF AllScheduled, WorldGo, Go, poolVars, phaseVars
    <2> QED BY <2>1 DEF PhaseInv, HasMap, UpdateAt, OutsideAt
  <1>13. CASE Wait
    <2>1. /\ at[World] = "wait"
          /\ \/ pending # 0 /\ at'[World] = "parked"
             \/ pending = 0 /\ active /\ at'[World] = "end"
             \/ pending = 0 /\ ~active /\ at'[World] = "stop"
          /\ UNCHANGED <<active, pooled, todo, pending, stop>>
      BY <1>13 DEF Wait, Passed, WorldGo, Go, poolVars, phaseVars
    <2> QED BY <2>1 DEF PhaseInv, HasMap, UpdateAt, OutsideAt
  <1>9. CASE EndPhase \/ AllCrossed \/ Unload \/ UnloadAll
    BY <1>9 DEF EndPhase, AllCrossed, Unload, UnloadAll, WorldGo, Go, poolVars, phaseVars,
                PhaseInv, HasMap, UpdateAt, OutsideAt
  <1>10. CASE \/ ApplyAfterMapPhasePosts \/ ApplyOffMapAuraUpdates \/ Stop \/ Rouse \/ Join
    BY <1>10 DEF ApplyAfterMapPhasePosts, ApplyOffMapAuraUpdates, Stop, Rouse, Join, WorldGo, Go,
                 poolVars, phaseVars, PhaseInv, HasMap, UpdateAt, OutsideAt
  <1> QED BY <1>1, <1>2, <1>3, <1>4, <1>5, <1>6, <1>7, <1>8, <1>9, <1>10, <1>11, <1>12, <1>13
          DEF Next, WorldOn, WorkerStep

\* Out of the phase nobody has a map and none is queued.
LEMMA OutOfPhase ==
  ASSUME TypeOK, Barrier, PhaseInv, ~active
  PROVE  InSeq(tasks) = {} /\ tasks = <<>> /\ \A t \in Threads : at[t] \notin HasMap
  <1>1. InSeq(tasks) = {} /\ tasks = <<>> /\ Busy = {}
    BY OpenBarrier DEF PhaseInv
  <1>2. at[World] \notin HasMap
    BY DEF PhaseInv
  <1> QED BY <1>1, <1>2 DEF Busy, Threads

-----------------------------------------------------------------------------
\* The maps of the tick.
LEMMA JobsKept ==
  ASSUME JobInv, UNCHANGED <<todo, due, active, tasks>>, active => loaded \subseteq loaded',
         \A t \in Threads : at'[t] \in HasMap => at[t] \in HasMap /\ job'[t] = job[t]
  PROVE  JobInv'
  BY DEF JobInv

LEMMA JobStep ==
  ASSUME TypeOK, Barrier, PhaseInv, JobInv, Next
  PROVE  JobInv'
  <1> USE MapFacts
  <1> at \in [Threads -> WorkerAt \cup WorldAt] /\ job \in [Threads -> Maps \cup {None}]
    BY DEF TypeOK
  <1>1. ASSUME NEW t \in Threads, Post(t) \/ SpuriousWake(t)
        PROVE  JobInv'
    BY <1>1, JobsKept DEF Post, SpuriousWake, Go, poolVars, phaseVars, scopeVars, mapVars,
       HasMap, UpdateAt
  <1>2. ASSUME NEW t \in Threads, UpdateStep(t)
        PROVE  JobInv'
    <2>1. UNCHANGED <<todo, due, active, tasks, loaded>>
      BY <1>2 DEF UpdateStep, Enter, Sail, EnterDeck, LeaveDeck, Leave, Bound, poolVars, phaseVars,
         mapVars
    <2> QED BY <1>2, <2>1, JobsKept DEF UpdateStep, Enter, Sail, EnterDeck, LeaveDeck, Leave, Go,
            HasMap, UpdateAt, scopeVars
  <1>3. ASSUME NEW w \in Workers, Look(w), tasks # <<>>
        PROVE  JobInv'
    <2>1. /\ InSeq(tasks) = InSeq(tasks') \cup {job'[w]} /\ job'[w] \notin InSeq(tasks')
          /\ Unique(tasks')
      <3>1. tasks \in Seq(Maps) /\ Head(tasks) \in Maps /\ Unique(tasks)
        BY <1>3 DEF TypeOK, JobInv
      <3>2. tasks' = Tail(tasks) /\ job'[w] = Head(tasks)
        BY <1>3 DEF Look
      <3> QED BY <1>3, <3>1, <3>2, QueueFacts
    <2>2. \A t \in Threads : t # w => at'[t] = at[t] /\ job'[t] = job[t]
      BY <1>3 DEF Look, Go
    <2>3. at[w] \notin HasMap /\ UNCHANGED <<todo, due, active, loaded>>
      BY <1>3 DEF Look, Go, HasMap, UpdateAt, phaseVars, mapVars
    <2>4. \A t \in Threads \ {w} : at'[t] \in HasMap => job'[t] # job'[w]
      BY <2>1, <2>2 DEF JobInv
    <2> QED BY <2>1, <2>2, <2>3, <2>4 DEF JobInv
  <1>4. ASSUME NEW w \in Workers, \/ Look(w) /\ tasks = <<>>
                                  \/ GiveBack(w) \/ Tell(w) \/ Throw(w)
        PROVE  JobInv'
    BY <1>4, JobsKept DEF Look, GiveBack, Tell, WakeWorld, Throw, Catch, Go, poolVars, phaseVars,
       scopeVars, mapVars, HasMap, UpdateAt
  <1>5. ASSUME NEW m \in Maps, CreateMap(m)
        PROVE  JobInv'
    BY <1>5, JobsKept DEF CreateMap, poolVars, phaseVars, scopeVars
  <1>6. ASSUME NEW m \in Maps, RunInline(m)
        PROVE  JobInv'
    <2>1. at[World] = "loop" /\ at' = [at EXCEPT ![World] = "begin"] /\ m \in todo
          /\ job' = [job EXCEPT ![World] = m] /\ todo' = todo \ {m}
          /\ UNCHANGED <<tasks, due, active, loaded>>
      BY <1>6 DEF RunInline, WorldGo, Go, poolVars, mapVars
    <2>2. at[World] \notin HasMap
      BY <2>1 DEF HasMap, UpdateAt
    <2>3. \A t \in Threads : t # World => at'[t] = at[t] /\ job'[t] = job[t]
      BY <2>1
    <2>4. job'[World] = m /\ m \notin InSeq(tasks) /\ m \in due
          /\ \A t \in Threads : at[t] \in HasMap => job[t] # m
      BY <2>1 DEF JobInv
    <2> QED BY <2>1, <2>2, <2>3, <2>4 DEF JobInv
  <1>7. ASSUME NEW m \in Maps, Schedule(m)
        PROVE  JobInv'
    <2>1. at' = [at EXCEPT ![World] = "wake"] /\ m \in todo /\ todo' = todo \ {m}
          /\ UNCHANGED <<job, due, active, loaded>> /\ at[World] = "loop"
          /\ (tasks' = tasks \/ tasks' = Append(tasks, m))
      BY <1>7 DEF Schedule, WorldGo, Go, mapVars, scopeVars
    <2>2. m \notin InSeq(tasks) /\ m \in due /\ \A t \in Threads : at[t] \in HasMap => job[t] # m
      BY <2>1 DEF JobInv
    <2>3. InSeq(tasks') \subseteq InSeq(tasks) \cup {m} /\ Unique(tasks')
      <3>1. tasks \in Seq(Maps) /\ Unique(tasks)
        BY DEF JobInv, TypeOK
      <3>2. CASE tasks' = tasks
        BY <3>1, <3>2
      <3>3. CASE tasks' = Append(tasks, m)
        <4>1. InSeq(Append(tasks, m)) = InSeq(tasks) \cup {m} /\ Unique(Append(tasks, m))
          BY <2>2, <3>1, QueueFacts
        <4> QED BY <3>3, <4>1
      <3> QED BY <2>1, <3>2, <3>3
    <2>4. \A t \in Threads : at'[t] \in HasMap => at[t] \in HasMap
      BY <2>1 DEF HasMap, UpdateAt
    <2> QED BY <2>1, <2>2, <2>3, <2>4 DEF JobInv
  <1>8. CASE BeginTick
    <2>1. ~active
      BY <1>8 DEF BeginTick, WorldGo, Go, PhaseInv, OutsideAt
    <2>2. \A t \in Threads : at'[t] \notin HasMap
      BY <1>8, <2>1, OutOfPhase DEF BeginTick, WorldGo, Go, HasMap, UpdateAt
    <2>3. InSeq(tasks') = {} /\ Unique(tasks')
      BY <1>8, <2>1, OutOfPhase DEF BeginTick, poolVars, InSeq, JobInv
    <2> QED BY <1>8, <2>2, <2>3 DEF BeginTick, mapVars, JobInv
  <1>9. CASE UnloadAll \/ Unload
    <2>1. ~active /\ UNCHANGED <<active, tasks, todo, due>>
      BY <1>9 DEF UnloadAll, Unload, WorldGo, Go, PhaseInv, OutsideAt, poolVars, phaseVars
    <2>2. \A t \in Threads : at'[t] \notin HasMap
      BY <1>9, <2>1, OutOfPhase DEF UnloadAll, Unload, WorldGo, Go, HasMap, UpdateAt
    <2> QED BY <2>1, <2>2 DEF JobInv
  <1>10. ASSUME NEW d \in Decks, CompleteCrossing(d)
         PROVE  JobInv'
    BY <1>10, JobsKept DEF CompleteCrossing, poolVars, phaseVars, scopeVars
  <1>11. CASE EndPhase
    <2>1. ~active' /\ UNCHANGED <<tasks, todo, due, job>>
      BY <1>11 DEF EndPhase, poolVars, scopeVars
    <2>2. \A t \in Threads : at'[t] \in HasMap => at[t] \in HasMap
      BY <1>11 DEF EndPhase, WorldGo, Go, HasMap, UpdateAt
    <2> QED BY <2>1, <2>2 DEF JobInv
  <1>12. CASE WakeOne \/ Rouse \/ AllScheduled \/ Wait
    BY <1>12, JobsKept DEF WakeOne, Wakeable, Parked, Rouse, AllScheduled, Wait, WorldGo, Go,
                           poolVars, phaseVars, scopeVars, mapVars, HasMap, UpdateAt
  <1>13. CASE AllCrossed \/ ApplyAfterMapPhasePosts \/ ApplyOffMapAuraUpdates \/ Stop \/ Join
    BY <1>13, JobsKept DEF AllCrossed, ApplyAfterMapPhasePosts, ApplyOffMapAuraUpdates, Stop, Join,
       WorldGo, Go, poolVars, phaseVars, scopeVars, mapVars, HasMap, UpdateAt
  <1> QED BY <1>1, <1>2, <1>3, <1>4, <1>5, <1>6, <1>7, <1>8, <1>9, <1>10, <1>11, <1>12, <1>13
          DEF Next, WorldOn, WorkerStep

-----------------------------------------------------------------------------
\* Each map once.
LEMMA RunsKept ==
  ASSUME RunInv, UNCHANGED <<todo, due, tasks, runs>>,
         \A t \in Threads : \/ at'[t] = at[t] /\ job'[t] = job[t]
                            \/ at'[t] # "begin" /\ at[t] # "begin"
  PROVE  RunInv'
  BY DEF RunInv

LEMMA Entered ==
  ASSUME TypeOK, JobInv, RunInv, UNCHANGED <<todo, due, tasks>>, NEW t \in Threads,
         at[t] = "begin", at'[t] # "begin",
         runs' = [runs EXCEPT ![job[t]] = @ + 1],
         \A u \in Threads : u # t => at'[u] = at[u] /\ job'[u] = job[u]
  PROVE  RunInv'
  <1> DEFINE m == job[t]
  <1>1. m \in Maps /\ m \in due /\ m \notin todo /\ m \notin InSeq(tasks)
    BY DEF JobInv, HasMap, TypeOK
  <1>2. runs \in [Maps -> Nat] /\ runs[m] = 0
    BY <1>1 DEF RunInv, TypeOK
  <1>3. runs'[m] = 1 /\ \A n \in Maps : n # m => runs'[n] = runs[n]
    BY <1>1, <1>2
  <1>4. \A u \in Threads : at'[u] = "begin" => job'[u] # m
    BY DEF JobInv, HasMap
  <1>5. due \subseteq Maps
    BY DEF TypeOK
  <1> QED BY <1>1, <1>3, <1>4, <1>5 DEF RunInv

LEMMA RunStep ==
  ASSUME TypeOK, Barrier, PhaseInv, JobInv, RunInv, Next
  PROVE  RunInv'
  <1> USE MapFacts
  <1> /\ at \in [Threads -> WorkerAt \cup WorldAt] /\ job \in [Threads -> Maps \cup {None}]
      /\ tasks \in Seq(Maps)
    BY DEF TypeOK
  <1>1. ASSUME NEW t \in Threads, Post(t) \/ SpuriousWake(t)
        PROVE  RunInv'
    BY <1>1, RunsKept DEF Post, SpuriousWake, Go, poolVars, phaseVars, scopeVars
  <1>2. ASSUME NEW t \in Threads, Enter(t)
        PROVE  RunInv'
    BY <1>2, Entered DEF Enter, Go, poolVars, phaseVars
  <1>3. ASSUME NEW t \in Threads, \/ \E d \in Decks : Sail(t, d)
                                  \/ EnterDeck(t) \/ LeaveDeck(t) \/ Leave(t)
        PROVE  RunInv'
    BY <1>3, RunsKept DEF Sail, EnterDeck, LeaveDeck, Leave, Go, poolVars, phaseVars, scopeVars
  <1>4. ASSUME NEW w \in Workers, Look(w), tasks # <<>>
        PROVE  RunInv'
    <2>1. InSeq(tasks) = InSeq(tasks') \cup {job'[w]} /\ job'[w] \notin InSeq(tasks')
      <3>1. tasks \in Seq(Maps) /\ Head(tasks) \in Maps /\ Unique(tasks)
        BY <1>4 DEF JobInv
      <3>2. tasks' = Tail(tasks) /\ job'[w] = Head(tasks)
        BY <1>4 DEF Look
      <3> QED BY <1>4, <3>1, <3>2, QueueFacts
    <2>2. \A t \in Threads : t # w => at'[t] = at[t] /\ job'[t] = job[t]
      BY <1>4 DEF Look, Go
    <2>3. at[w] = "look" /\ at'[w] = "begin" /\ UNCHANGED <<todo, due, runs>>
      BY <1>4 DEF Look, Go, phaseVars
    <2> QED BY <2>1, <2>2, <2>3 DEF RunInv
  <1>5. ASSUME NEW w \in Workers, (Look(w) /\ tasks = <<>>) \/ GiveBack(w) \/ Tell(w)
        PROVE  RunInv'
    BY <1>5, RunsKept DEF Look, GiveBack, Tell, WakeWorld, Go, poolVars, phaseVars, scopeVars
  <1>6. ASSUME NEW w \in Workers, Throw(w)
        PROVE  RunInv'
    <2>1. CASE at[w] = "begin"
      BY <1>6, <2>1, Entered DEF Throw, Catch, Go, poolVars, phaseVars
    <2>2. CASE at[w] # "begin"
      BY <1>6, <2>2, RunsKept DEF Throw, Catch, Go, poolVars, phaseVars
    <2> QED BY <2>1, <2>2
  <1>7. ASSUME NEW m \in Maps, CreateMap(m)
        PROVE  RunInv'
    BY <1>7, RunsKept DEF CreateMap, poolVars, phaseVars, scopeVars
  <1>8. ASSUME NEW m \in Maps, RunInline(m)
        PROVE  RunInv'
    <2>1. at[World] = "loop" /\ at'[World] = "begin" /\ m \in todo
          /\ job'[World] = m /\ todo' = todo \ {m}
          /\ UNCHANGED <<tasks, due, runs>>
      BY <1>8 DEF RunInline, WorldGo, Go, poolVars, mapVars
    <2>2. \A t \in Threads : t # World => at'[t] = at[t] /\ job'[t] = job[t]
      BY <1>8 DEF RunInline, WorldGo, Go
    <2> QED BY <2>1, <2>2 DEF RunInv
  <1>9. ASSUME NEW m \in Maps, Schedule(m)
        PROVE  RunInv'
    <2>1. /\ at[World] = "loop" /\ at'[World] = "wake" /\ m \in todo /\ todo' = todo \ {m}
          /\ UNCHANGED <<due, runs, job>>
      BY <1>9 DEF Schedule, WorldGo, Go, scopeVars
    <2>2. \A t \in Threads : t # World => at'[t] = at[t]
      BY <1>9 DEF Schedule, WorldGo, Go
    <2>3. ~stop
      BY <2>1 DEF PhaseInv
    <2>4. InSeq(tasks') = InSeq(tasks) \cup {m}
      BY <1>9, <2>3, QueueFacts DEF Schedule
    <2> QED BY <2>1, <2>2, <2>4 DEF RunInv
  <1>10. CASE BeginTick
    <2>1. ~active
      BY <1>10 DEF BeginTick, WorldGo, Go, PhaseInv, OutsideAt
    <2>2. /\ \A m \in Maps : runs'[m] = 0
          /\ todo' = due' /\ todo' \subseteq Maps
      BY <1>10 DEF BeginTick, TypeOK
    <2> QED BY <2>2 DEF RunInv
  <1>11. ASSUME NEW d \in Decks, CompleteCrossing(d)
         PROVE  RunInv'
    BY <1>11, RunsKept DEF CompleteCrossing, poolVars, phaseVars, scopeVars
  <1>12. CASE WakeOne \/ Rouse \/ AllScheduled \/ Wait \/ EndPhase
    BY <1>12, RunsKept DEF WakeOne, Wakeable, Parked, Rouse, AllScheduled, Wait, EndPhase,
                           WorldGo, Go, poolVars, phaseVars, scopeVars
  <1>13. CASE \/ AllCrossed \/ ApplyAfterMapPhasePosts \/ ApplyOffMapAuraUpdates \/ Stop \/ Join
              \/ UnloadAll \/ Unload
    BY <1>13, RunsKept DEF AllCrossed, ApplyAfterMapPhasePosts, ApplyOffMapAuraUpdates, Stop, Join,
       UnloadAll, Unload, WorldGo, Go, poolVars, phaseVars, scopeVars
  <1> QED BY <1>1, <1>2, <1>3, <1>4, <1>5, <1>6, <1>7, <1>8, <1>9, <1>10, <1>11, <1>12, <1>13
          DEF Next, WorldOn, WorkerStep, UpdateStep

-----------------------------------------------------------------------------
\* The decks: a vessel changes maps only where no deck is being updated.
LEMMA DecksKept ==
  ASSUME DeckInv, UNCHANGED sails,
         \A t \in Threads : at'[t] \in {"aboard", "deck"} =>
           at[t] \in {"aboard", "deck"} /\ job'[t] = job[t] /\ deck'[t] = deck[t]
  PROVE  DeckInv'
  BY DEF DeckInv

LEMMA DeckStep ==
  ASSUME TypeOK, Barrier, PhaseInv, DeckInv, Next
  PROVE  DeckInv'
  <1> USE MapFacts
  <1> /\ at \in [Threads -> WorkerAt \cup WorldAt] /\ job \in [Threads -> Maps \cup {None}]
      /\ deck \in [Threads -> Decks \cup {None}]
    BY DEF TypeOK
  <1>1. ASSUME NEW t \in Threads, Post(t) \/ SpuriousWake(t)
        PROVE  DeckInv'
    BY <1>1, DecksKept DEF Post, SpuriousWake, Go, mapVars, scopeVars
  <1>2. ASSUME NEW t \in Threads, Enter(t) \/ EnterDeck(t) \/ LeaveDeck(t) \/ Leave(t)
        PROVE  DeckInv'
    BY <1>2, DecksKept DEF Enter, EnterDeck, LeaveDeck, Leave, Go, mapVars, scopeVars
  <1>3. ASSUME NEW t \in Threads, NEW d \in Decks, Sail(t, d)
        PROVE  DeckInv'
    <2>1. /\ sails' = sails /\ job' = job /\ deck'[t] = d /\ sails[d] = job[t]
          /\ \A u \in Threads : u # t => at'[u] = at[u] /\ deck'[u] = deck[u]
      BY <1>3 DEF Sail, Bound, Aboard, Go
    <2> QED BY <2>1 DEF DeckInv
  <1>4. ASSUME NEW w \in Workers, Look(w) \/ GiveBack(w) \/ Tell(w) \/ Throw(w)
        PROVE  DeckInv'
    BY <1>4, DecksKept DEF Look, GiveBack, Tell, WakeWorld, Throw, Catch, Go, mapVars, scopeVars
  <1>5. ASSUME NEW m \in Maps, CreateMap(m) \/ RunInline(m) \/ Schedule(m)
        PROVE  DeckInv'
    BY <1>5, DecksKept DEF CreateMap, RunInline, Schedule, WorldGo, Go, mapVars, scopeVars
  <1>6. ASSUME NEW d \in Decks, CompleteCrossing(d)
        PROVE  DeckInv'
    <2>1. ~active /\ at' = at
      BY <1>6 DEF CompleteCrossing, PhaseInv, OutsideAt
    <2>2. \A t \in Threads : at[t] \notin HasMap
      BY <2>1, OutOfPhase
    <2> QED BY <2>1, <2>2 DEF DeckInv, HasMap, UpdateAt
  <1>7. CASE \/ BeginTick \/ WakeOne \/ Rouse \/ AllScheduled \/ Wait \/ EndPhase \/ UnloadAll
             \/ Unload
    BY <1>7, DecksKept DEF BeginTick, WakeOne, Wakeable, Parked, Rouse, AllScheduled, Wait,
                           EndPhase, UnloadAll, Unload, Drop, WorldGo, Go, mapVars, scopeVars
  <1>8. CASE AllCrossed \/ ApplyAfterMapPhasePosts \/ ApplyOffMapAuraUpdates \/ Stop \/ Join
    BY <1>8, DecksKept DEF AllCrossed, ApplyAfterMapPhasePosts, ApplyOffMapAuraUpdates, Stop, Join,
       WorldGo, Go, mapVars, scopeVars
  <1> QED BY <1>1, <1>2, <1>3, <1>4, <1>5, <1>6, <1>7, <1>8
          DEF Next, WorldOn, WorkerStep, UpdateStep

-----------------------------------------------------------------------------
\* The invariant.
LEMMA InitInv == Init => Inv
  <1> SUFFICES ASSUME Init PROVE Inv
    OBVIOUS
  <1> USE MapFacts DEF Init
  <1>1. TypeOK
    <2>1. SetTypes
      <3>1. tasks \in Seq(Maps)
        OBVIOUS
      <3> QED BY <3>1 DEF SetTypes
    <2>4. PlaceTypes
      <3>1. \A t \in Threads : at[t] = IF t = World THEN "tick" ELSE "look"
        OBVIOUS
      <3>2. "look" \in WorkerAt /\ "tick" \in WorldAt
        BY DEF WorkerAt, WorldAt, OutsideAt
      <3> QED BY <3>1, <3>2 DEF PlaceTypes
    <2>2. ScopeTypes
      BY DEF ScopeTypes
    <2>3. PostTypes
      <3>1. <<>> \in Seq(Nat) /\ <<>> \in Seq(Nat \X AllMaps)
            /\ <<>> \in Seq({"queued", "done", "lost"})
        OBVIOUS
      <3> QED BY <3>1 DEF PostTypes
    <2> QED BY <2>1, <2>2, <2>3, <2>4, FourParts
  <1>2. Busy = {}
    BY DEF Busy, HasMap, UpdateAt
  <1>3. Barrier
    <2>1. Cardinality(Busy) = 0 /\ Len(tasks) = 0
      BY <1>2, FS_EmptySet
    <2> QED BY <2>1 DEF Barrier
  <1>4. PhaseInv
    BY DEF PhaseInv, HasMap, UpdateAt, OutsideAt
  <1>5. InSeq(tasks) = {} /\ Unique(tasks) /\ \A t \in Threads : at[t] \notin HasMap
    BY DEF InSeq, Unique, HasMap, UpdateAt
  <1>6. JobInv /\ RunInv /\ DeckInv
    BY <1>5 DEF JobInv, RunInv, DeckInv, HasMap, UpdateAt
  <1> QED BY <1>1, <1>3, <1>4, <1>6 DEF Inv

LEMMA StepInv == Inv /\ [Next]_vars => Inv'
  <1> SUFFICES ASSUME Inv, [Next]_vars PROVE Inv'
    OBVIOUS
  <1>1. CASE Next
    BY <1>1, TypeStep, BarrierStep, PhaseStep, JobStep, RunStep, DeckStep DEF Inv
  <1>2. CASE UNCHANGED vars
    BY <1>2 DEF Inv, TypeOK, Barrier, Busy, PhaseInv, JobInv, RunInv, DeckInv, vars, poolVars,
                mapVars, phaseVars, scopeVars, postVars
  <1> QED BY <1>1, <1>2

THEOREM Invariance == Spec => []Inv
  BY InitInv, StepInv, PTL DEF Spec

\* The state of the pool, the phase, the maps and the posts keeps its types;
\* above all, m_pending never goes below zero.
THEOREM TickTypeCorrect == Spec => []TypeOK
  <1>1. Inv => TypeOK
    BY DEF Inv
  <1> QED BY <1>1, Invariance, PTL

\* MapUpdater's count is exact: m_pending is the number of updates queued and
\* of those a worker has not given back, so wait() returns when there is none.
THEOREM BarrierExact == Spec => []Barrier
  <1>1. Inv => Barrier
    BY DEF Inv
  <1> QED BY <1>1, Invariance, PTL

\* What a thread owns belongs to the map it updates: the map itself, the decks
\* of its vessels.
LEMMA OwnedThroughJob ==
  ASSUME Inv, active, NEW t \in Threads, NEW m \in AllMaps, OwnsUnit(t, m)
  PROVE  /\ at[t] \in UpdateAt
         /\ job[t] = IF m \in Decks THEN sails[m] ELSE m
  <1> USE DEF Inv
  <1>1. at[t] \in UpdateAt
    BY DEF OwnsUnit, Owns, Scopes, UpdateAt
  <1>2. job[t] \in Maps /\ job[t] \notin Decks
    BY <1>1, MapFacts DEF JobInv, HasMap, TypeOK
  <1>3. ASSUME NEW n, n \in Scopes(t)
        PROVE  n = job[t] \/ (n \in Decks /\ sails[n] = job[t])
    BY <1>1, <1>3 DEF Scopes, DeckInv, UpdateAt
  <1>4. CASE m \in Scopes(t)
    BY <1>1, <1>2, <1>3, <1>4
  <1>5. CASE m \in Decks /\ sails[m] \in Scopes(t)
    <2>1. sails[m] \notin Decks
      BY <1>5, MapFacts DEF TypeOK
    <2> QED BY <1>1, <1>3, <1>5, <2>1
  <1> QED BY <1>4, <1>5 DEF OwnsUnit, Owns

\* No unit has two owners: MapPhase tells two threads apart while the maps
\* run, and outside the phase the world thread is alone.
THEOREM OneThreadOwns == Spec => []OneOwner
  <1>1. Inv => OneOwner
    <2> SUFFICES ASSUME Inv, NEW t \in Threads, NEW u \in Threads, t # u, Running(t), Running(u),
                        NEW m \in AllMaps, OwnsUnit(t, m), OwnsUnit(u, m)
                 PROVE  FALSE
      BY DEF OneOwner
    <2>1. CASE active
      <3>1. /\ at[t] \in HasMap /\ at[u] \in HasMap /\ job[t] = job[u]
        BY <2>1, OwnedThroughJob DEF HasMap
      <3> QED BY <3>1 DEF Inv, JobInv
    <2>2. CASE ~active
      <3>1. at[t] \notin UpdateAt /\ at[u] \notin UpdateAt
        BY <2>2, OutOfPhase DEF Inv, HasMap
      <3>2. at[t] \in OutsideAt /\ at[u] \in OutsideAt
        BY <3>1 DEF Running
      <3>3. \A w \in Workers : at[w] \notin OutsideAt
        BY DEF Inv, TypeOK, WorkerAt, UpdateAt, OutsideAt
      <3> QED BY <3>2, <3>3 DEF Threads
    <2> QED BY <2>1, <2>2
  <1> QED BY <1>1, Invariance, PTL

\* No map is deleted while it is queued or updated, and at the end of the
\* phase each map of the tick has been entered once.
THEOREM MapsUpdatedOnce == Spec => []EachMapOnce
  <1>1. Inv => EachMapOnce
    <2> SUFFICES ASSUME Inv PROVE EachMapOnce
      OBVIOUS
    <2> USE DEF Inv
    <2>1. NoDeletedMap
      <3>1. CASE active
        BY <3>1 DEF NoDeletedMap, JobInv, HasMap
      <3>2. CASE ~active
        BY <3>2, OutOfPhase DEF NoDeletedMap, HasMap
      <3> QED BY <3>1, <3>2
    <2>2. ASSUME NEW m \in Maps
          PROVE  runs[m] <= 1
      <3>1. runs[m] = 0 \/ runs[m] = 1
        BY DEF RunInv
      <3> QED BY <3>1
    <2>3. ASSUME at[World] \in {"end", "cross"}, NEW m \in due
          PROVE  runs[m] = 1
      <3>1. pending = 0 /\ todo = {}
        BY <2>3 DEF PhaseInv, OutsideAt
      <3>2. InSeq(tasks) = {} /\ Busy = {}
        BY <3>1, OpenBarrier
      <3>3. \A t \in Threads : at[t] # "begin"
        BY <2>3, <3>2 DEF Busy, HasMap, Threads
      <3> QED BY <3>1, <3>2, <3>3 DEF RunInv
    <2> QED BY <2>1, <2>2, <2>3 DEF EachMapOnce
  <1> QED BY <1>1, Invariance, PTL
-----------------------------------------------------------------------------
\* The posts.  Each one made and not yet settled is in one queue; a step adds
\* the post it makes to one of them, or empties some and settles what was in
\* them.
Pending   == {p \in DOMAIN fate : fate[p] = "queued"}
PlacesInv == OnePlace /\ Waiting = Pending

\* Both queues of the world are applied on the way to the next tick.
AppliedInv == /\ at[World] \in {"offMap", "tick"} => afterQ = <<>>
              /\ at[World] = "tick" => offQ = <<>>

LEMMA EmptyQueue == InSeq(<<>>) = {} /\ Unique(<<>>)
  BY DEF InSeq, Unique

LEMMA InitPlaces == Init => PlacesInv /\ AppliedInv
  <1> SUFFICES ASSUME Init PROVE PlacesInv /\ AppliedInv
    OBVIOUS
  <1>1. InSeq(OffPosts) = {} /\ Unique(OffPosts)
    BY DEF Init, OffPosts, InSeq, Unique
  <1>2. \A m \in AllMaps : InSeq(teamQ[m]) = {} /\ Unique(teamQ[m])
    BY EmptyQueue DEF Init
  <1>3. Pending = {}
    BY DEF Init, Pending
  <1> QED BY <1>1, <1>2, <1>3, EmptyQueue DEF Init, PlacesInv, AppliedInv, OnePlace, Waiting

\* Queues that are kept or emptied.
LEMMA QueuesEmptied ==
  ASSUME PlacesInv,
         afterQ' = afterQ \/ afterQ' = <<>>,
         offQ' = offQ \/ offQ' = <<>>,
         \A m \in AllMaps : teamQ'[m] = teamQ[m] \/ teamQ'[m] = <<>>,
         DOMAIN fate' = DOMAIN fate,
         \A p \in DOMAIN fate : /\ p \in Waiting' => fate'[p] = fate[p]
                                /\ p \notin Waiting' => fate'[p] # "queued"
  PROVE  PlacesInv'
  <1>1. InSeq(afterQ') \subseteq InSeq(afterQ) /\ Unique(afterQ')
    BY EmptyQueue DEF PlacesInv, OnePlace
  <1>2. (InSeq(OffPosts))' \subseteq InSeq(OffPosts) /\ Unique(OffPosts)'
    <2>1. CASE offQ' = offQ
      BY <2>1 DEF OffPosts, PlacesInv, OnePlace, InSeq, Unique
    <2>2. CASE offQ' = <<>>
      BY <2>2 DEF OffPosts, InSeq, Unique
    <2> QED BY <2>1, <2>2
  <1>3. \A m \in AllMaps : InSeq(teamQ'[m]) \subseteq InSeq(teamQ[m]) /\ Unique(teamQ'[m])
    BY EmptyQueue DEF PlacesInv, OnePlace
  <1>4. OnePlace'
    <2> USE DEF PlacesInv, OnePlace
    <2>1. InSeq(afterQ') \cap (InSeq(OffPosts))' = {}
      BY <1>1, <1>2
    <2>2. ASSUME NEW m \in AllMaps
          PROVE  InSeq(teamQ'[m]) \cap (InSeq(afterQ') \cup (InSeq(OffPosts))') = {}
      BY <1>1, <1>2, <1>3
    <2>3. ASSUME NEW m \in AllMaps, NEW n \in AllMaps \ {m}
          PROVE  InSeq(teamQ'[m]) \cap InSeq(teamQ'[n]) = {}
      BY <1>3
    <2>4. (InSeq(OffPosts))' = InSeq(OffPosts')
      BY DEF InSeq
    <2> QED BY <1>1, <1>2, <1>3, <2>1, <2>2, <2>3
  <1>5. Waiting' \subseteq Waiting
    BY <1>1, <1>2, <1>3 DEF Waiting
  <1>6. Waiting' = Pending'
    BY <1>5 DEF PlacesInv, Pending
  <1> QED BY <1>4, <1>6 DEF PlacesInv

\* A post that is settled when it is made.
LEMMA PostSettledAtOnce ==
  ASSUME PostTypes, PlacesInv, UNCHANGED <<afterQ, teamQ, offQ>>, fate' = Done \/ fate' = Lost
  PROVE  PlacesInv'
  <1>1. /\ DOMAIN fate' = DOMAIN fate \cup {Fresh} /\ Fresh \notin DOMAIN fate
        /\ \A p \in DOMAIN fate : fate'[p] = fate[p]
        /\ fate'[Fresh] # "queued"
    <2>1. CASE fate' = Done
      BY <2>1 DEF PostTypes, Done, Fresh
    <2>2. CASE fate' = Lost
      BY <2>2 DEF PostTypes, Lost, Fresh
    <2> QED BY <2>1, <2>2
  <1>2. Pending' = Pending
    BY <1>1 DEF Pending
  <1>3. Waiting' = Waiting
    BY DEF Waiting, OffPosts
  <1>4. OnePlace'
    BY DEF PlacesInv, OnePlace, OffPosts
  <1> QED BY <1>2, <1>3, <1>4 DEF PlacesInv

\* A post that is queued is a new one.
LEMMA FreshPost ==
  ASSUME PostTypes, PlacesInv, fate' = Queued
  PROVE  /\ Fresh \in Nat /\ Fresh \notin Waiting
         /\ Pending' = Pending \cup {Fresh}
  <1>1. /\ DOMAIN fate' = DOMAIN fate \cup {Fresh} /\ Fresh \notin DOMAIN fate
        /\ \A p \in DOMAIN fate : fate'[p] = fate[p]
        /\ fate'[Fresh] = "queued" /\ Fresh \in Nat
    BY DEF PostTypes, Queued, Fresh
  <1> QED BY <1>1 DEF Pending, PlacesInv

LEMMA QueuedAfterPhase ==
  ASSUME PostTypes, PlacesInv, afterQ' = Append(afterQ, Fresh), fate' = Queued,
         UNCHANGED <<teamQ, offQ>>
  PROVE  PlacesInv'
  <1>1. InSeq(afterQ') = InSeq(afterQ) \cup {Fresh} /\ Unique(afterQ')
    <2>1. Fresh \notin InSeq(afterQ) /\ Unique(afterQ)
      BY FreshPost DEF Waiting, PlacesInv, OnePlace
    <2> QED BY <2>1, FreshPost, QueueFacts DEF PostTypes
  <1>2. OffPosts' = OffPosts
    BY DEF OffPosts
  <1>3. \A m \in AllMaps : teamQ'[m] = teamQ[m] /\ Fresh \notin InSeq(teamQ[m])
    BY FreshPost DEF Waiting
  <1>4. Fresh \notin InSeq(OffPosts)
    BY FreshPost DEF Waiting
  <1>5. OnePlace'
    BY <1>1, <1>2, <1>3, <1>4 DEF PlacesInv, OnePlace
  <1>6. Waiting' = Waiting \cup {Fresh}
    BY <1>1, <1>2, <1>3 DEF Waiting
  <1> QED BY <1>5, <1>6, FreshPost DEF PlacesInv

LEMMA QueuedForMap ==
  ASSUME PostTypes, PlacesInv, NEW m \in AllMaps, fate' = Queued,
         teamQ' = [teamQ EXCEPT ![m] = Append(@, Fresh)], UNCHANGED <<afterQ, offQ>>
  PROVE  PlacesInv'
  <1>1. /\ InSeq(teamQ'[m]) = InSeq(teamQ[m]) \cup {Fresh} /\ Unique(teamQ'[m])
        /\ \A n \in AllMaps \ {m} : teamQ'[n] = teamQ[n]
    <2>1. Fresh \notin InSeq(teamQ[m]) /\ Unique(teamQ[m])
      BY FreshPost DEF Waiting, PlacesInv, OnePlace
    <2>2. teamQ'[m] = Append(teamQ[m], Fresh) /\ teamQ[m] \in Seq(Nat)
      BY DEF PostTypes
    <2>3. InSeq(teamQ'[m]) = InSeq(teamQ[m]) \cup {Fresh} /\ Unique(teamQ'[m])
      BY <2>1, <2>2, FreshPost, QueueFacts
    <2> QED BY <2>3 DEF PostTypes
  <1>2. OffPosts' = OffPosts
    BY DEF OffPosts
  <1>3. /\ \A n \in AllMaps : Fresh \notin InSeq(teamQ[n])
        /\ Fresh \notin InSeq(OffPosts) /\ Fresh \notin InSeq(afterQ)
    BY FreshPost DEF Waiting
  <1>4. OnePlace'
    <2> USE DEF PlacesInv, OnePlace
    <2>1. ASSUME NEW n \in AllMaps
          PROVE  /\ Unique(teamQ'[n])
                 /\ InSeq(teamQ'[n]) \cap (InSeq(afterQ) \cup InSeq(OffPosts)) = {}
      BY <1>1, <1>3
    <2>2. ASSUME NEW n \in AllMaps, NEW o \in AllMaps \ {n}
          PROVE  InSeq(teamQ'[n]) \cap InSeq(teamQ'[o]) = {}
      <3>1. InSeq(teamQ[n]) \cap InSeq(teamQ[o]) = {}
        OBVIOUS
      <3>2. CASE n = m
        BY <1>1, <1>3, <3>1, <3>2
      <3>3. CASE o = m
        BY <1>1, <1>3, <3>1, <3>3
      <3>4. CASE n # m /\ o # m
        BY <1>1, <3>1, <3>4
      <3> QED BY <3>2, <3>3, <3>4
    <2> QED BY <1>2, <2>1, <2>2
  <1>5. Waiting' = Waiting \cup {Fresh}
    <2>1. ASSUME NEW p
          PROVE  (\E n \in AllMaps : p \in InSeq(teamQ'[n]))
                   <=> (\E n \in AllMaps : p \in InSeq(teamQ[n])) \/ p = Fresh
      <3>1. CASE p = Fresh
        BY <1>1, <3>1
      <3>2. CASE p # Fresh
        <4>1. \A n \in AllMaps : p \in InSeq(teamQ'[n]) <=> p \in InSeq(teamQ[n])
          BY <1>1, <3>2
        <4> QED BY <3>2, <4>1
      <3> QED BY <3>1, <3>2
    <2>2. ASSUME NEW p
          PROVE  p \in Waiting' <=> p \in Waiting \cup {Fresh}
      BY <1>2, <2>1 DEF Waiting
    <2> QED BY <2>2 DEF Waiting
  <1> QED BY <1>4, <1>5, FreshPost DEF PlacesInv

LEMMA QueuedOffMap ==
  ASSUME PostTypes, PlacesInv, NEW m \in AllMaps, fate' = Queued,
         offQ' = Append(offQ, <<Fresh, m>>), UNCHANGED <<afterQ, teamQ>>
  PROVE  PlacesInv'
  <1>1. Fresh \notin InSeq(OffPosts) /\ Unique(OffPosts)
    BY FreshPost DEF Waiting, PlacesInv, OnePlace
  <1>2. /\ DOMAIN OffPosts = 1..Len(offQ) /\ Len(offQ) \in Nat
        /\ DOMAIN OffPosts' = 1..Len(offQ) + 1
        /\ \A i \in 1..Len(offQ) : OffPosts'[i] = OffPosts[i]
        /\ OffPosts'[Len(offQ) + 1] = Fresh
    BY DEF PostTypes, OffPosts
  <1>3. InSeq(OffPosts') = InSeq(OffPosts) \cup {Fresh}
    <2>1. \A i \in 1..Len(offQ) + 1 : i \in 1..Len(offQ) \/ i = Len(offQ) + 1
      BY <1>2
    <2>2. InSeq(OffPosts') \subseteq InSeq(OffPosts) \cup {Fresh}
      BY <1>2, <2>1 DEF InSeq
    <2>3. /\ Len(offQ) + 1 \in 1..Len(offQ) + 1
          /\ \A i \in 1..Len(offQ) : i \in 1..Len(offQ) + 1
      BY <1>2
    <2>4. InSeq(OffPosts) \cup {Fresh} \subseteq InSeq(OffPosts')
      BY <1>2, <2>3 DEF InSeq
    <2> QED BY <2>2, <2>4
  <1>4. Unique(OffPosts')
    <2> SUFFICES ASSUME NEW i \in DOMAIN OffPosts', NEW j \in DOMAIN OffPosts',
                        OffPosts'[i] = OffPosts'[j]
                 PROVE  i = j
      BY DEF Unique
    <2>1. \A k \in 1..Len(offQ) : OffPosts'[k] # Fresh
      BY <1>1, <1>2 DEF InSeq
    <2> QED BY <1>1, <1>2, <2>1 DEF Unique
  <1>5. /\ \A n \in AllMaps : Fresh \notin InSeq(teamQ[n])
        /\ Fresh \notin InSeq(afterQ)
    BY FreshPost DEF Waiting
  <1>6. OnePlace'
    BY <1>3, <1>4, <1>5 DEF PlacesInv, OnePlace
  <1>7. Waiting' = Waiting \cup {Fresh}
    BY <1>3 DEF Waiting
  <1> QED BY <1>6, <1>7, FreshPost DEF PlacesInv

-----------------------------------------------------------------------------
LEMMA PostPlaces ==
  ASSUME Inv, PlacesInv, NEW t \in Threads, Post(t)
  PROVE  PlacesInv'
  <1> PostTypes
    BY FourParts DEF Inv
  <1>1. CASE PostAfterPhase
    BY <1>1, PostSettledAtOnce, QueuedAfterPhase DEF PostAfterPhase
  <1>2. ASSUME NEW m \in AllMaps, PostTeamBuff(t, m)
        PROVE  PlacesInv'
    BY <1>2, PostSettledAtOnce, QueuedForMap DEF PostTeamBuff
  <1>3. ASSUME NEW m \in AllMaps, NEW c \in AllMaps, PostAuraUpdate(t, m, c)
        PROVE  PlacesInv'
    BY <1>3, PostSettledAtOnce, QueuedOffMap DEF PostAuraUpdate
  <1>4. Scopes(t) \subseteq AllMaps
    BY ScopesAreMaps DEF Inv
  <1> QED BY <1>1, <1>2, <1>3, <1>4 DEF Post

\* The buffs that wait for some maps are taken: each is settled.
LEMMA BuffsTaken ==
  ASSUME PostTypes, PlacesInv, NEW ms \in SUBSET AllMaps, UNCHANGED <<afterQ, offQ>>,
         \A m \in AllMaps : teamQ'[m] = IF m \in ms THEN <<>> ELSE teamQ[m],
         DOMAIN fate' = DOMAIN fate,
         \A p \in DOMAIN fate : IF \E m \in ms : p \in InSeq(teamQ[m])
                                THEN fate'[p] # "queued" ELSE fate'[p] = fate[p]
  PROVE  PlacesInv'
  <1>1. OffPosts' = OffPosts
    BY DEF OffPosts
  <1>2. ASSUME NEW p
        PROVE  p \in Waiting' <=> p \in Waiting /\ ~\E m \in ms : p \in InSeq(teamQ[m])
    <2>1. \A m \in ms : InSeq(teamQ'[m]) = {}
      BY EmptyQueue
    <2>2. \A m \in AllMaps \ ms : InSeq(teamQ'[m]) = InSeq(teamQ[m])
      OBVIOUS
    <2>3. CASE p \in InSeq(afterQ) \cup InSeq(OffPosts)
      BY <1>1, <2>3 DEF Waiting, PlacesInv, OnePlace
    <2>4. CASE p \notin InSeq(afterQ) \cup InSeq(OffPosts)
      <3>1. p \in Waiting <=> \E m \in AllMaps : p \in InSeq(teamQ[m])
        BY <2>4 DEF Waiting
      <3>2. p \in Waiting' <=> \E m \in AllMaps \ ms : p \in InSeq(teamQ[m])
        <4>1. (\E m \in AllMaps : p \in InSeq(teamQ'[m])) <=> \E m \in AllMaps \ ms : p \in InSeq(teamQ[m])
        BY <2>1, <2>2
      <4>2. p \in Waiting' <=> \E m \in AllMaps : p \in InSeq(teamQ'[m])
        BY <1>1, <2>4 DEF Waiting
      <4> QED BY <4>1, <4>2
      <3>3. ASSUME NEW m \in AllMaps \ ms, p \in InSeq(teamQ[m])
            PROVE  ~\E n \in ms : p \in InSeq(teamQ[n])
        BY <3>3 DEF PlacesInv, OnePlace
      <3> QED BY <3>1, <3>2, <3>3
    <2> QED BY <2>3, <2>4
  <1>3. \A p \in DOMAIN fate : /\ p \in Waiting' => fate'[p] = fate[p]
                               /\ p \notin Waiting' => fate'[p] # "queued"
    BY <1>2 DEF PlacesInv, Pending
  <1> QED BY <1>3, QueuesEmptied

LEMMA PlacesStep ==
  ASSUME Inv, PlacesInv, Next
  PROVE  PlacesInv'
  <1> PostTypes
    BY FourParts DEF Inv
  <1>1. ASSUME NEW t \in Threads, Post(t)
        PROVE  PlacesInv'
    BY <1>1, PostPlaces
  <1>2. ASSUME NEW m \in AllMaps, ApplyTeamBuffs(m)
        PROVE  PlacesInv'
    <2>1. /\ \A n \in AllMaps : teamQ'[n] = IF n \in {m} THEN <<>> ELSE teamQ[n]
          /\ DOMAIN fate' = DOMAIN fate
          /\ \A p \in DOMAIN fate : IF \E n \in {m} : p \in InSeq(teamQ[n])
                                    THEN fate'[p] # "queued" ELSE fate'[p] = fate[p]
      BY <1>2 DEF ApplyTeamBuffs, Settled, PostTypes
    <2> QED BY <1>2, <2>1, BuffsTaken DEF ApplyTeamBuffs
  <1>3. ASSUME NEW m \in AllMaps, TakenNotApplied(m)
        PROVE  PlacesInv'
    <2>1. /\ \A n \in AllMaps : teamQ'[n] = IF n \in {m} THEN <<>> ELSE teamQ[n]
          /\ DOMAIN fate' = DOMAIN fate
          /\ \A p \in DOMAIN fate : IF \E n \in {m} : p \in InSeq(teamQ[n])
                                    THEN fate'[p] # "queued" ELSE fate'[p] = fate[p]
      BY <1>3 DEF TakenNotApplied, PostTypes
    <2> QED BY <1>3, <2>1, BuffsTaken DEF TakenNotApplied
  <1>4. ASSUME NEW ms \in SUBSET AllMaps, UNCHANGED <<afterQ, offQ>>,
               teamQ' = [m \in AllMaps |-> IF m \in ms THEN <<>> ELSE teamQ[m]],
               fate' = Settled(UNION {InSeq(teamQ[m]) : m \in ms}, "lost")
        PROVE  PlacesInv'
    <2>1. /\ DOMAIN fate' = DOMAIN fate
          /\ \A p \in DOMAIN fate : IF \E n \in ms : p \in InSeq(teamQ[n])
                                    THEN fate'[p] # "queued" ELSE fate'[p] = fate[p]
      BY <1>4 DEF Settled
    <2>2. \A m \in AllMaps : teamQ'[m] = IF m \in ms THEN <<>> ELSE teamQ[m]
      BY <1>4
    <2> QED BY <1>4, <2>1, <2>2, BuffsTaken
  <1>5. ASSUME NEW ms \in SUBSET (loaded \cap Instances), Drop(ms)
        PROVE  PlacesInv'
    <2>1. ms \in SUBSET AllMaps
      BY MapFacts
    <2> QED BY <1>4, <1>5, <2>1 DEF Drop
  <1>6. CASE UnloadAll
    <2>1. teamQ' = [m \in AllMaps |-> IF m \in AllMaps THEN <<>> ELSE teamQ[m]]
      BY <1>6 DEF UnloadAll
    <2> QED BY <1>4, <1>6, <2>1 DEF UnloadAll
  <1>7. CASE ApplyAfterMapPhasePosts
    <2>1. ~active
      BY <1>7 DEF Inv, PhaseInv, ApplyAfterMapPhasePosts, WorldGo, Go, OutsideAt
    <2>2. /\ afterQ' = <<>> /\ UNCHANGED <<teamQ, offQ>>
          /\ fate' = Settled(InSeq(afterQ), "done")
      BY <1>7, <2>1 DEF ApplyAfterMapPhasePosts
    <2>3. ASSUME NEW p
          PROVE  p \in Waiting' <=> p \in Waiting /\ p \notin InSeq(afterQ)
      <3>1. OffPosts' = OffPosts /\ InSeq(afterQ') = {}
        BY <2>2, EmptyQueue DEF OffPosts
      <3> QED BY <2>2, <3>1 DEF Waiting, PlacesInv, OnePlace
    <2>4. /\ DOMAIN fate' = DOMAIN fate
          /\ \A p \in DOMAIN fate : /\ p \in Waiting' => fate'[p] = fate[p]
                                    /\ p \notin Waiting' => fate'[p] # "queued"
      BY <2>2, <2>3 DEF Settled, PlacesInv, Pending
    <2> QED BY <2>2, <2>4, QueuesEmptied
  <1>8. CASE ApplyOffMapAuraUpdates
    <2>1. /\ offQ' = <<>> /\ UNCHANGED <<teamQ, afterQ>>
          /\ DOMAIN fate' = DOMAIN fate
      BY <1>8 DEF ApplyOffMapAuraUpdates
    <2>2. ASSUME NEW p
          PROVE  p \in InSeq(OffPosts) <=> \E m \in AllMaps : <<p, m>> \in InSeq(offQ)
      <3>1. \A i \in DOMAIN offQ : /\ offQ[i] \in Nat \X AllMaps
                                   /\ offQ[i] = <<offQ[i][1], offQ[i][2]>>
                                   /\ offQ[i][2] \in AllMaps
        BY DEF PostTypes
      <3>2. ASSUME p \in InSeq(OffPosts)
            PROVE  \E m \in AllMaps : <<p, m>> \in InSeq(offQ)
        <4>1. PICK i \in DOMAIN offQ : p = offQ[i][1]
          BY <3>2 DEF InSeq, OffPosts
        <4> QED BY <3>1, <4>1 DEF InSeq
      <3>3. ASSUME NEW m \in AllMaps, <<p, m>> \in InSeq(offQ)
            PROVE  p \in InSeq(OffPosts)
        <4>1. PICK i \in DOMAIN offQ : <<p, m>> = offQ[i]
          BY <3>3 DEF InSeq
        <4>2. offQ[i][1] = p
          BY <4>1
        <4> QED BY <4>2 DEF InSeq, OffPosts
      <3> QED BY <3>2, <3>3
    <2>3. \A p \in DOMAIN fate : IF p \in InSeq(OffPosts) THEN fate'[p] # "queued"
                                 ELSE fate'[p] = fate[p]
      <3>1. ASSUME NEW p \in DOMAIN fate, p \in InSeq(OffPosts)
            PROVE  fate'[p] # "queued"
        BY <1>8, <2>2, <3>1 DEF ApplyOffMapAuraUpdates
      <3>2. ASSUME NEW p \in DOMAIN fate, p \notin InSeq(OffPosts)
            PROVE  fate'[p] = fate[p]
        <4>1. ~\E m \in AllMaps : <<p, m>> \in InSeq(offQ)
          BY <2>2, <3>2
        <4>2. loaded \cup Decks \subseteq AllMaps
          BY MapFacts DEF Inv, TypeOK
        <4> QED BY <1>8, <4>1, <4>2 DEF ApplyOffMapAuraUpdates
      <3> QED BY <3>1, <3>2
    <2>4. ASSUME NEW p
          PROVE  p \in Waiting' <=> p \in Waiting /\ p \notin InSeq(OffPosts)
      <3>1. InSeq(OffPosts)' = {}
        BY <2>1 DEF OffPosts, InSeq
      <3> QED BY <2>1, <3>1 DEF Waiting, PlacesInv, OnePlace
    <2>5. \A p \in DOMAIN fate : /\ p \in Waiting' => fate'[p] = fate[p]
                                 /\ p \notin Waiting' => fate'[p] # "queued"
      BY <2>3, <2>4 DEF PlacesInv, Pending
    <2> QED BY <2>1, <2>5, QueuesEmptied
  <1>9. ASSUME UNCHANGED postVars
        PROVE  PlacesInv'
    BY <1>9 DEF postVars, PlacesInv, OnePlace, Waiting, Pending, OffPosts
  <1>10. ASSUME NEW t \in Threads, Enter(t) \/ EnterDeck(t)
         PROVE  PlacesInv'
    <2>1. Enter(t) => job[t] \in AllMaps
      BY MapFacts DEF Inv, JobInv, TypeOK, Enter, Go, HasMap
    <2>2. EnterDeck(t) => deck[t] \in AllMaps
      BY MapFacts DEF Inv, DeckInv, EnterDeck, Go
    <2> QED BY <1>2, <1>10, <2>1, <2>2 DEF Enter, EnterDeck
  <1>11. ASSUME NEW w \in Workers, Throw(w)
         PROVE  PlacesInv'
    <2>1. CASE UNCHANGED postVars
      BY <1>9, <2>1
    <2>2. CASE at[w] = "begin" /\ TakenNotApplied(job[w])
      <3>1. job[w] \in AllMaps
        BY <2>2, MapFacts DEF Inv, JobInv, TypeOK, HasMap
      <3> QED BY <1>3, <2>2, <3>1
    <2>3. CASE at[w] = "aboard" /\ TakenNotApplied(deck[w])
      <3>1. deck[w] \in AllMaps
        BY <2>3, MapFacts DEF Inv, DeckInv
      <3> QED BY <1>3, <2>3, <3>1
    <2> QED BY <1>11, <2>1, <2>2, <2>3 DEF Throw
  <1>12. ASSUME NEW t \in Threads, \/ SpuriousWake(t) \/ LeaveDeck(t) \/ Leave(t)
                                   \/ \E d \in Decks : Sail(t, d)
         PROVE  UNCHANGED postVars
    BY <1>12 DEF SpuriousWake, LeaveDeck, Leave, Sail
  <1>13. ASSUME NEW w \in Workers, Look(w) \/ GiveBack(w) \/ Tell(w)
         PROVE  UNCHANGED postVars
    BY <1>13 DEF Look, GiveBack, Tell
  <1>14. ASSUME NEW m \in Maps, CreateMap(m) \/ RunInline(m) \/ Schedule(m)
         PROVE  UNCHANGED postVars
    BY <1>14 DEF CreateMap, RunInline, Schedule
  <1>15. ASSUME \/ BeginTick \/ WakeOne \/ AllScheduled \/ Wait \/ EndPhase \/ AllCrossed
                \/ Stop \/ Rouse \/ Join \/ \E d \in Decks : CompleteCrossing(d)
         PROVE  UNCHANGED postVars
    BY <1>15 DEF BeginTick, WakeOne, Wakeable, Parked, AllScheduled, Wait, EndPhase, AllCrossed,
                 Stop, Rouse, Join, CompleteCrossing
  <1> QED BY <1>1, <1>5, <1>6, <1>7, <1>8, <1>9, <1>10, <1>11, <1>12, <1>13, <1>14, <1>15, MapFacts
          DEF Next, WorldOn, WorkerStep, UpdateStep, Unload

\* Out of the phase nothing is queued for its end, so what was applied there
\* stays applied until the next tick.
LEMMA AppliedStep ==
  ASSUME Inv, AppliedInv, Next
  PROVE  AppliedInv'
  <1> USE DEF AppliedInv
  <1>0. /\ at[World] \in {"offMap", "tick"} => ~active
        /\ at \in [Threads -> WorkerAt \cup WorldAt]
    BY DEF Inv, TypeOK, PhaseInv, OutsideAt
  <1>1. ASSUME NEW t \in Threads, Post(t)
        PROVE  AppliedInv'
    <2>1. ~active => UNCHANGED <<afterQ, offQ>>
      BY <1>1 DEF Post, PostAfterPhase, PostTeamBuff, PostAuraUpdate, OwnsUnit, Owns
    <2> QED BY <1>0, <1>1, <2>1 DEF Post
  <1>2. ASSUME UNCHANGED <<afterQ, offQ>>,
               \/ at'[World] \notin {"offMap", "tick"}
               \/ at'[World] = at[World]
        PROVE  AppliedInv'
    BY <1>2
  <1>3. CASE ApplyAfterMapPhasePosts
    <2>1. ~active
      BY <1>3 DEF Inv, PhaseInv, ApplyAfterMapPhasePosts, WorldGo, Go, OutsideAt
    <2> QED BY <1>0, <1>3, <2>1, MapFacts DEF ApplyAfterMapPhasePosts, WorldGo, Go
  <1>4. CASE ApplyOffMapAuraUpdates
    BY <1>4 DEF ApplyOffMapAuraUpdates, WorldGo, Go
  <1>5. ASSUME NEW t \in Threads, SpuriousWake(t) \/ UpdateStep(t)
        PROVE  AppliedInv'
    <2>1. UNCHANGED <<afterQ, offQ>>
      BY <1>5 DEF SpuriousWake, UpdateStep, Enter, EnterDeck, LeaveDeck, Leave, Sail,
                  ApplyTeamBuffs, postVars
    <2>2. /\ \A u \in Threads \ {t} : at'[u] = at[u]
          /\ at'[t] \in {"wait", "look", "update", "aboard", "deck", "loop", "owe"}
      BY <1>0, <1>5 DEF SpuriousWake, UpdateStep, Enter, EnterDeck, LeaveDeck, Leave, Sail, Go
    <2> QED BY <1>2, <2>1, <2>2, MapFacts
  <1>6. ASSUME NEW w \in Workers, Look(w) \/ GiveBack(w) \/ Tell(w) \/ Throw(w)
        PROVE  AppliedInv'
    <2>1. UNCHANGED <<afterQ, offQ>>
      BY <1>6 DEF Look, GiveBack, Tell, Throw, TakenNotApplied, postVars
    <2>2. at'[World] = at[World] \/ at'[World] = "wait"
      BY <1>0, <1>6, MapFacts DEF Look, GiveBack, Tell, WakeWorld, Throw, Catch, Go
    <2> QED BY <1>2, <2>1, <2>2
  <1>7. ASSUME \/ \E m \in Maps : CreateMap(m) \/ Schedule(m) \/ RunInline(m)
               \/ BeginTick \/ UnloadAll \/ WakeOne \/ AllScheduled \/ Wait \/ EndPhase
               \/ \E d \in Decks : CompleteCrossing(d)
               \/ AllCrossed \/ Unload \/ Stop \/ Rouse \/ Join
        PROVE  AppliedInv'
    <2>1. UNCHANGED <<afterQ, offQ>>
      BY <1>7 DEF CreateMap, Schedule, RunInline, BeginTick, UnloadAll, WakeOne, Wakeable, Parked,
                  AllScheduled, Wait, EndPhase, CompleteCrossing, AllCrossed, Unload, Drop, Stop,
                  Rouse, Join, postVars
    <2>2. ASSUME NEW m \in Maps, CreateMap(m) \/ Schedule(m) \/ RunInline(m)
          PROVE  at'[World] = at[World] \/ at'[World] \notin {"offMap", "tick"}
      BY <1>0, <2>2, MapFacts DEF CreateMap, Schedule, RunInline, WorldGo, Go
    <2>3. ASSUME \/ BeginTick \/ UnloadAll \/ AllScheduled \/ Wait \/ EndPhase \/ AllCrossed
                 \/ Unload \/ Stop \/ Join \/ \E d \in Decks : CompleteCrossing(d)
          PROVE  at'[World] = at[World] \/ at'[World] \notin {"offMap", "tick"}
      BY <1>0, <2>3, MapFacts DEF BeginTick, UnloadAll, AllScheduled, Wait, EndPhase, AllCrossed,
                                  Unload, Stop, Join, CompleteCrossing, WorldGo, Go
    <2>4. ASSUME WakeOne \/ Rouse
          PROVE  at'[World] \notin {"offMap", "tick"}
      BY <1>0, <2>4, MapFacts DEF WakeOne, Wakeable, Parked, Rouse
    <2> QED BY <1>2, <1>7, <2>1, <2>2, <2>3, <2>4
  <1> QED BY <1>1, <1>3, <1>4, <1>5, <1>6, <1>7, MapFacts DEF Next, WorldOn, WorkerStep

\* Every post is in one place until it is applied or given up, and none that
\* the world thread applies waits for another tick.
THEOREM PostsAppliedOnce == Spec => []PostsSettled
  <1>1. Init => PlacesInv /\ AppliedInv
    BY InitPlaces
  <1>2. Inv /\ PlacesInv /\ AppliedInv /\ [Next]_vars => (PlacesInv /\ AppliedInv)'
    <2>1. ASSUME PlacesInv, AppliedInv, UNCHANGED vars
          PROVE  (PlacesInv /\ AppliedInv)'
      BY <2>1 DEF vars, postVars, PlacesInv, AppliedInv, OnePlace, Waiting, Pending, OffPosts
    <2> QED BY <2>1, PlacesStep, AppliedStep
  <1>3. PlacesInv /\ AppliedInv => PostsSettled
    BY DEF PlacesInv, AppliedInv, PostsSettled, Pending
  <1> QED BY <1>1, <1>2, <1>3, Invariance, PTL DEF Spec
-----------------------------------------------------------------------------
\* Nobody sleeps over work.  Whoever is at "look" comes to the queue before
\* it sleeps.  A worker asleep when the others are roused would never be
\* joined: by then they have been told to stop.
Looking == {w \in Workers : at[w] = "look"}
Waking  == IF at[World] = "wake" THEN 1 ELSE 0

StopInv == /\ at[World] \in {"rouse", "join"} => stop
           /\ at[World] = "down" /\ Workers # {} => stop

SleepInv == NobodySleepsOverWork /\ StopInv

LEMMA LookingFinite == IsFiniteSet(Looking) /\ Cardinality(Looking) \in Nat
  BY MapTickAssumption, FS_Subset, FS_CardinalityType DEF Looking

\* The queue does not grow, nobody who was to look at it is gone, and nobody
\* falls asleep.
LEMMA SleepKept ==
  ASSUME TypeOK, NobodySleepsOverWork, UNCHANGED <<tasks, pending>>,
         \A w \in Workers : /\ at'[w] = "parked" => at[w] = "parked"
                            /\ at[w] = "look" => at'[w] = "look",
         at[World] = "wake" => at'[World] = "wake",
         at'[World] = "parked" /\ pending = 0 => \E w \in Workers : at'[w] = "tell",
         at'[World] \in {"join", "down"} => at[World] \in {"join", "down"} \/ Parked' = {}
  PROVE  NobodySleepsOverWork'
  <1>1. Parked' \subseteq Parked
    BY DEF Parked
  <1>2. IsFiniteSet(Looking') /\ Looking \subseteq Looking'
    BY MapTickAssumption, FS_Subset DEF Looking
  <1>3. /\ Cardinality(Looking) \in Nat /\ Cardinality(Looking') \in Nat
        /\ Cardinality(Looking) <= Cardinality(Looking')
    BY <1>2, LookingFinite, FS_Subset, FS_CardinalityType
  <1>4. Waking \in Nat /\ Waking' \in Nat /\ Waking <= Waking' /\ Len(tasks) \in Nat
    BY DEF Waking, TypeOK
  <1>5. Parked # {} => Len(tasks) <= Cardinality(Looking) + Waking
    BY DEF NobodySleepsOverWork, Looking, Waking
  <1>6. Parked' # {} => Len(tasks') <= Cardinality(Looking') + Waking'
    BY <1>1, <1>3, <1>4, <1>5
  <1>7. at'[World] \in {"join", "down"} => Parked' = {}
    BY <1>1 DEF NobodySleepsOverWork
  <1> QED BY <1>6, <1>7 DEF NobodySleepsOverWork, Looking, Waking

\* One thread moves on, and neither sleeps after it nor was to look, wake or
\* tell before it.
LEMMA OneMoves ==
  ASSUME TypeOK, NobodySleepsOverWork, UNCHANGED <<tasks, pending>>,
         NEW t \in Threads, NEW x, at' = [at EXCEPT ![t] = x],
         at[t] \notin {"look", "tell", "wake"}, x \notin {"parked", "join", "down"}
  PROVE  NobodySleepsOverWork'
  <1>1. /\ \A u \in Threads : at'[u] = IF u = t THEN x ELSE at[u]
        /\ Workers \subseteq Threads /\ World \in Threads
    BY MapFacts DEF TypeOK
  <1>2. at'[World] = "parked" /\ pending = 0 => \E w \in Workers : at'[w] = "tell"
    BY <1>1 DEF NobodySleepsOverWork
  <1> HIDE DEF NobodySleepsOverWork
  <1> QED BY <1>1, <1>2, SleepKept

LEMMA NobodyMoves ==
  ASSUME TypeOK, NobodySleepsOverWork, UNCHANGED <<tasks, pending, at>>
  PROVE  NobodySleepsOverWork'
  BY DEF NobodySleepsOverWork, Parked

LEMMA UpdateSleeps ==
  ASSUME TypeOK, NobodySleepsOverWork, NEW t \in Threads,
         \/ UpdateStep(t)
         \/ t \in Workers /\ Throw(t)
         \/ SpuriousWake(t)
  PROVE  NobodySleepsOverWork'
  <1>1. UNCHANGED <<tasks, pending>>
    BY DEF UpdateStep, Enter, Sail, EnterDeck, LeaveDeck, Leave, Throw, SpuriousWake, poolVars
  <1>2. /\ at[t] \in HasMap \cup {"parked"}
        /\ \E x \in {"update", "aboard", "deck", "loop", "owe", "wait", "look"} :
              at' = [at EXCEPT ![t] = x]
    BY DEF UpdateStep, Enter, Sail, EnterDeck, LeaveDeck, Leave, Throw, Catch, SpuriousWake, Go,
           HasMap, UpdateAt
  <1> QED BY <1>1, <1>2, OneMoves DEF HasMap, UpdateAt

\* A worker takes the first update, which is one less to be taken, or finds
\* none: then it may sleep.
LEMMA LookSleeps ==
  ASSUME TypeOK, SleepInv, NEW w \in Workers, Look(w)
  PROVE  NobodySleepsOverWork'
  <1> USE MapFacts
  <1>1. /\ at[w] = "look" /\ at' = [at EXCEPT ![w] = at'[w]]
        /\ at'[w] = (IF tasks # <<>> THEN "begin" ELSE IF stop THEN "gone" ELSE "parked")
        /\ tasks' = IF tasks # <<>> THEN Tail(tasks) ELSE tasks
        /\ pending' = pending
    BY DEF Look, Go, TypeOK, poolVars
  <1>2. /\ \A u \in Threads \ {w} : at'[u] = at[u]
        /\ at'[World] = at[World]
    BY <1>1 DEF TypeOK
  <1>3. at'[World] = "parked" /\ pending' = 0 => \E u \in Workers : at'[u] = "tell"
    BY <1>1, <1>2 DEF SleepInv, NobodySleepsOverWork
  <1>4. CASE tasks # <<>>
    <2>1. Parked' = Parked /\ Looking' = Looking \ {w} /\ w \in Looking
      BY <1>1, <1>2, <1>4 DEF Parked, Looking
    <2>2. Cardinality(Looking') = Cardinality(Looking) - 1 /\ Cardinality(Looking) \in Nat
      BY <2>1, LookingFinite, FS_RemoveElement
    <2>3. Len(tasks') = Len(tasks) - 1 /\ Len(tasks) \in Nat /\ Waking \in Nat /\ Waking' = Waking
      BY <1>1, <1>2, <1>4 DEF TypeOK, Waking
    <2>4. Parked # {} => Len(tasks) <= Cardinality(Looking) + Waking
      BY DEF SleepInv, NobodySleepsOverWork, Looking, Waking
    <2>5. Parked' # {} => Len(tasks') <= Cardinality(Looking') + Waking'
      BY <2>1, <2>2, <2>3, <2>4
    <2>6. at'[World] \in {"join", "down"} => Parked' = {}
      BY <1>2, <2>1 DEF SleepInv, NobodySleepsOverWork
    <2> QED BY <1>3, <2>5, <2>6 DEF NobodySleepsOverWork, Looking, Waking
  <1>5. CASE tasks = <<>>
    <2>1. Len(tasks') = 0
      BY <1>1, <1>5
    <2>2. IsFiniteSet(Looking') /\ Cardinality(Looking') \in Nat /\ Waking' \in Nat
      BY MapTickAssumption, FS_Subset, FS_CardinalityType DEF Looking, Waking
    <2>3. Parked' # {} => Len(tasks') <= Cardinality(Looking') + Waking'
      BY <2>1, <2>2
    <2>4. ASSUME at'[World] \in {"join", "down"}
          PROVE  Parked' = {}
      <3>1. stop /\ Parked = {}
        BY <1>2, <2>4 DEF SleepInv, StopInv, NobodySleepsOverWork
      <3>2. \A u \in Workers : at'[u] # "parked"
        BY <1>1, <1>2, <1>5, <3>1 DEF Parked
      <3> QED BY <3>2 DEF Parked
    <2> QED BY <1>3, <2>3, <2>4 DEF NobodySleepsOverWork, Looking, Waking
  <1> QED BY <1>4, <1>5

\* An update is given back, and the world thread told.
LEMMA GiveBackSleeps ==
  ASSUME TypeOK, NobodySleepsOverWork, NEW w \in Workers, GiveBack(w)
  PROVE  NobodySleepsOverWork'
  <1>1. /\ at[w] = "owe" /\ at'[w] = "tell" /\ tasks' = tasks
        /\ \A u \in Threads \ {w} : at'[u] = at[u]
        /\ at'[World] = at[World]
    BY MapFacts DEF GiveBack, Go, TypeOK
  <1>2. Parked' = Parked /\ Looking' = Looking
    BY <1>1, MapFacts DEF Parked, Looking
  <1>3. Waking' = Waking
    BY <1>1 DEF Waking
  <1>4. Parked' # {} => Len(tasks') <= Cardinality(Looking') + Waking'
    BY <1>1, <1>2, <1>3 DEF NobodySleepsOverWork, Looking, Waking
  <1> QED BY <1>1, <1>2, <1>4 DEF NobodySleepsOverWork, Looking, Waking

LEMMA TellSleeps ==
  ASSUME TypeOK, NobodySleepsOverWork, NEW w \in Workers, Tell(w)
  PROVE  NobodySleepsOverWork'
  <1>1. /\ UNCHANGED <<tasks, pending>> /\ at'[w] = "look"
        /\ \A u \in Workers \ {w} : at'[u] = at[u]
        /\ at'[World] = IF at[World] = "parked" THEN "wait" ELSE at[World]
    BY MapFacts DEF Tell, WakeWorld, TypeOK, poolVars
  <1> QED BY <1>1, SleepKept

\* An update more, and a worker to be woken for it.
LEMMA ScheduleSleeps ==
  ASSUME TypeOK, NobodySleepsOverWork, NEW m \in Maps, Schedule(m)
  PROVE  NobodySleepsOverWork'
  <1>1. /\ at[World] = "loop" /\ at'[World] = "wake"
        /\ \A w \in Workers : at'[w] = at[w]
    BY MapFacts DEF Schedule, WorldGo, Go, TypeOK
  <1>2. Len(tasks') <= Len(tasks) + 1 /\ Len(tasks) \in Nat /\ Len(tasks') \in Nat
    BY DEF Schedule, TypeOK
  <1>3. Parked' = Parked /\ Looking' = Looking /\ Waking = 0 /\ Waking' = 1
    BY <1>1 DEF Parked, Looking, Waking
  <1>4. Parked # {} => Len(tasks) <= Cardinality(Looking) + Waking
    BY DEF NobodySleepsOverWork, Looking, Waking
  <1>5. Parked' # {} => Len(tasks') <= Cardinality(Looking') + Waking'
    BY <1>2, <1>3, <1>4, LookingFinite
  <1> QED BY <1>1, <1>5 DEF NobodySleepsOverWork, Looking, Waking

LEMMA WakeSleeps ==
  ASSUME TypeOK, NobodySleepsOverWork, WakeOne
  PROVE  NobodySleepsOverWork'
  <1> USE MapFacts
  <1>1. /\ at[World] = "wake" /\ UNCHANGED <<tasks, pending>>
        /\ at \in [Threads -> WorkerAt \cup WorldAt]
    BY DEF WakeOne, poolVars, TypeOK
  <1>2. ASSUME NEW w \in Parked, at' = [at EXCEPT ![World] = "loop", ![w] = "look"]
        PROVE  NobodySleepsOverWork'
    <2>1. /\ w \in Workers /\ at[w] = "parked" /\ at'[w] = "look" /\ at'[World] = "loop"
          /\ \A u \in Workers \ {w} : at'[u] = at[u]
      BY <1>1, <1>2 DEF Parked
    <2>2. Looking' = Looking \cup {w} /\ w \notin Looking
      BY <2>1 DEF Looking
    <2>3. Cardinality(Looking') = Cardinality(Looking) + 1
      BY <2>2, LookingFinite, FS_AddElement
    <2>4. Waking = 1 /\ Waking' = 0 /\ Parked # {} /\ Len(tasks) \in Nat
      BY <1>1, <2>1 DEF Waking, TypeOK
    <2>5. Len(tasks) <= Cardinality(Looking) + Waking
      BY <2>4 DEF NobodySleepsOverWork, Looking, Waking
    <2>6. Len(tasks') <= Cardinality(Looking') + Waking'
      BY <1>1, <2>3, <2>4, <2>5, LookingFinite
    <2> QED BY <2>1, <2>6 DEF NobodySleepsOverWork, Looking, Waking
  <1>3. ASSUME Parked = {}, at' = [at EXCEPT ![World] = "loop"]
        PROVE  NobodySleepsOverWork'
    <2>1. at'[World] = "loop" /\ \A u \in Workers : at'[u] = at[u]
      BY <1>1, <1>3
    <2>2. Parked' = {}
      BY <1>3, <2>1 DEF Parked
    <2> QED BY <2>1, <2>2 DEF NobodySleepsOverWork
  <1> QED BY <1>2, <1>3 DEF WakeOne, Wakeable

\* The end: everybody is woken, and whoever comes to the queue after that
\* finds the flag.
LEMMA EndSleeps ==
  ASSUME TypeOK, SleepInv, Rouse \/ Join \/ UnloadAll
  PROVE  NobodySleepsOverWork'
  <1> USE MapFacts
  <1>1. UNCHANGED <<tasks, pending>> /\ at \in [Threads -> WorkerAt \cup WorldAt]
    BY DEF Rouse, Join, UnloadAll, TypeOK, poolVars
  <1>2. CASE Rouse
    <2>1. /\ at'[World] = "join"
          /\ \A w \in Workers : at'[w] = IF at[w] = "parked" THEN "look" ELSE at[w]
      BY <1>1, <1>2 DEF Rouse
    <2>2. Parked' = {}
      BY <2>1 DEF Parked
    <2> QED BY <2>1, <2>2 DEF NobodySleepsOverWork
  <1>3. CASE Join
    <2>1. at'[World] = "down" /\ \A w \in Workers : at'[w] = at[w] /\ at[w] = "gone"
      BY <1>1, <1>3 DEF Join, WorldGo, Go
    <2>2. Parked' = {}
      BY <2>1 DEF Parked
    <2> QED BY <2>1, <2>2 DEF NobodySleepsOverWork
  <1>4. CASE UnloadAll /\ Workers = {}
    <2>1. Parked' = {} /\ at'[World] = "down"
      BY <1>1, <1>4 DEF Parked, UnloadAll, WorldGo, Go
    <2> QED BY <2>1 DEF NobodySleepsOverWork
  <1>5. CASE UnloadAll /\ Workers # {}
    <2>1. at[World] = "tick" /\ at' = [at EXCEPT ![World] = "wait"]
      BY <1>5 DEF UnloadAll, WorldGo, Go
    <2> QED BY <1>1, <2>1, OneMoves DEF SleepInv
  <1> QED BY <1>2, <1>3, <1>4, <1>5

\* The world thread sleeps at the barrier while something is pending.
LEMMA WaitSleeps ==
  ASSUME TypeOK, NobodySleepsOverWork, Wait
  PROVE  NobodySleepsOverWork'
  <1>1. /\ UNCHANGED <<tasks, pending>> /\ at[World] = "wait"
        /\ \A w \in Workers : at'[w] = at[w]
        /\ at'[World] \in {"parked", "end", "stop"}
        /\ at'[World] = "parked" => pending # 0
    BY MapFacts DEF Wait, Passed, WorldGo, Go, TypeOK, poolVars
  <1> QED BY <1>1, SleepKept

LEMMA SleepStep ==
  ASSUME TypeOK, SleepInv, Next
  PROVE  NobodySleepsOverWork'
  <1> USE MapFacts
  <1>0. NobodySleepsOverWork /\ at \in [Threads -> WorkerAt \cup WorldAt]
    BY DEF SleepInv, TypeOK
  <1>1. ASSUME \/ \E t \in Threads : Post(t)
               \/ \E m \in Maps : CreateMap(m)
               \/ \E d \in Decks : CompleteCrossing(d)
        PROVE  NobodySleepsOverWork'
    BY <1>0, <1>1, NobodyMoves DEF Post, CreateMap, CompleteCrossing, poolVars
  <1>2. ASSUME \/ BeginTick \/ (\E m \in Maps : RunInline(m)) \/ AllScheduled \/ EndPhase
               \/ AllCrossed \/ Unload \/ ApplyAfterMapPhasePosts \/ ApplyOffMapAuraUpdates
               \/ Stop
        PROVE  NobodySleepsOverWork'
    <2>1. UNCHANGED <<tasks, pending>>
      BY <1>2 DEF BeginTick, RunInline, AllScheduled, EndPhase, AllCrossed, Unload, poolVars,
                  ApplyAfterMapPhasePosts, ApplyOffMapAuraUpdates, Stop
    <2>2. /\ at[World] \in {"tick", "loop", "end", "cross", "unload", "posts", "offMap", "stop"}
          /\ \E x \in {"loop", "begin", "wait", "end", "cross", "unload", "posts", "offMap",
                       "tick", "rouse"} : at' = [at EXCEPT ![World] = x]
      BY <1>2 DEF BeginTick, RunInline, AllScheduled, EndPhase, AllCrossed, Unload, WorldGo, Go,
                  ApplyAfterMapPhasePosts, ApplyOffMapAuraUpdates, Stop
    <2> QED BY <1>0, <2>1, <2>2, OneMoves
  <1>3. ASSUME NEW t \in Threads, UpdateStep(t) \/ SpuriousWake(t)
        PROVE  NobodySleepsOverWork'
    BY <1>0, <1>3, UpdateSleeps
  <1>4. ASSUME NEW w \in Workers, Throw(w)
        PROVE  NobodySleepsOverWork'
    BY <1>0, <1>4, UpdateSleeps
  <1>5. ASSUME NEW w \in Workers, Look(w) \/ GiveBack(w) \/ Tell(w)
        PROVE  NobodySleepsOverWork'
    BY <1>0, <1>5, LookSleeps, GiveBackSleeps, TellSleeps
  <1>6. CASE WakeOne \/ Wait \/ \E m \in Maps : Schedule(m)
    BY <1>0, <1>6, WakeSleeps, WaitSleeps, ScheduleSleeps
  <1>7. CASE Rouse \/ Join \/ UnloadAll
    BY <1>7, EndSleeps
  <1> QED BY <1>1, <1>2, <1>3, <1>4, <1>5, <1>6, <1>7 DEF Next, WorldOn, WorkerStep

LEMMA StopStep ==
  ASSUME TypeOK, StopInv, Next
  PROVE  StopInv'
  <1> USE MapFacts
  <1>0. at \in [Threads -> WorkerAt \cup WorldAt]
    BY DEF TypeOK
  <1>1. ASSUME UNCHANGED stop, \/ at'[World] = at[World]
                               \/ at'[World] \notin {"rouse", "join", "down"}
        PROVE  StopInv'
    BY <1>1 DEF StopInv
  <1>2. ASSUME NEW t \in Threads, Post(t) \/ SpuriousWake(t) \/ UpdateStep(t)
        PROVE  StopInv'
    <2>1. UNCHANGED stop
      BY <1>2 DEF Post, SpuriousWake, UpdateStep, Enter, Sail, EnterDeck, LeaveDeck, Leave, poolVars
    <2>2. at'[World] = at[World] \/ at'[World] \notin {"rouse", "join", "down"}
      BY <1>0, <1>2 DEF Post, SpuriousWake, UpdateStep, Enter, Sail, EnterDeck, LeaveDeck, Leave, Go
    <2> QED BY <1>1, <2>1, <2>2
  <1>3. ASSUME NEW w \in Workers, Look(w) \/ GiveBack(w) \/ Tell(w) \/ Throw(w)
        PROVE  StopInv'
    <2>1. UNCHANGED stop
      BY <1>3 DEF Look, GiveBack, Tell, Throw, poolVars
    <2>2. at'[World] = at[World] \/ at'[World] = "wait"
      BY <1>0, <1>3 DEF Look, GiveBack, Tell, WakeWorld, Throw, Catch, Go
    <2> QED BY <1>1, <2>1, <2>2
  <1>4. ASSUME NEW m \in Maps, CreateMap(m) \/ Schedule(m) \/ RunInline(m)
        PROVE  StopInv'
    BY <1>0, <1>1, <1>4 DEF CreateMap, Schedule, RunInline, WorldGo, Go, poolVars
  <1>5. ASSUME \/ BeginTick \/ AllScheduled \/ Wait \/ EndPhase \/ AllCrossed
               \/ Unload \/ ApplyAfterMapPhasePosts \/ ApplyOffMapAuraUpdates
               \/ \E d \in Decks : CompleteCrossing(d)
        PROVE  StopInv'
    <2>1. UNCHANGED stop
      BY <1>5 DEF BeginTick, AllScheduled, Wait, EndPhase, AllCrossed, Unload, CompleteCrossing,
                  ApplyAfterMapPhasePosts, ApplyOffMapAuraUpdates, poolVars
    <2>2. at'[World] = at[World] \/ at'[World] \notin {"rouse", "join", "down"}
      BY <1>0, <1>5 DEF BeginTick, AllScheduled, Wait, EndPhase, AllCrossed, Unload, WorldGo, Go,
                        ApplyAfterMapPhasePosts, ApplyOffMapAuraUpdates, CompleteCrossing
    <2> QED BY <1>1, <2>1, <2>2
  <1>6. CASE WakeOne
    <2>1. at'[World] = "loop" /\ UNCHANGED stop
      BY <1>0, <1>6 DEF WakeOne, Wakeable, Parked, poolVars
    <2> QED BY <1>1, <2>1
  <1>7. CASE UnloadAll
    <2>1. /\ at'[World] = (IF Workers = {} THEN "down" ELSE "wait") /\ UNCHANGED stop
      BY <1>0, <1>7 DEF UnloadAll, WorldGo, Go, poolVars
    <2> QED BY <2>1 DEF StopInv
  <1>8. CASE Stop
    BY <1>8 DEF Stop, StopInv
  <1>9. CASE Rouse \/ Join
    <2>1. at[World] \in {"rouse", "join"} /\ UNCHANGED stop
      BY <1>9 DEF Rouse, Join, WorldGo, Go, poolVars
    <2> QED BY <2>1 DEF StopInv
  <1> QED BY <1>2, <1>3, <1>4, <1>5, <1>6, <1>7, <1>8, <1>9 DEF Next, WorldOn, WorkerStep

LEMMA InitSleep == Init => SleepInv
  <1> SUFFICES ASSUME Init PROVE SleepInv
    OBVIOUS
  <1>1. at[World] = "tick" /\ (\A w \in Workers : at[w] = "look") /\ tasks = <<>>
    BY MapFacts DEF Init
  <1>2. Parked = {}
    BY <1>1 DEF Parked
  <1> QED BY <1>1, <1>2 DEF SleepInv, NobodySleepsOverWork, StopInv

\* No wake-up is lost, for any number of workers: whoever sleeps while there
\* is work for it is about to be woken.  TickEnds rests on it.
THEOREM NobodySleeps == Spec => []NobodySleepsOverWork
  <1>1. Inv /\ SleepInv /\ [Next]_vars => SleepInv'
    <2> SUFFICES ASSUME Inv, SleepInv, [Next]_vars
                 PROVE  SleepInv'
      OBVIOUS
    <2>1. CASE Next
      <3>1. TypeOK /\ StopInv
        BY DEF Inv, SleepInv
      <3> QED BY <2>1, <3>1, SleepStep, StopStep DEF SleepInv
    <2>2. CASE UNCHANGED vars
      BY <2>2 DEF vars, poolVars, SleepInv, NobodySleepsOverWork, StopInv, Parked
    <2> QED BY <2>1, <2>2
  <1>2. SleepInv => NobodySleepsOverWork
    BY DEF SleepInv
  <1> QED BY <1>1, <1>2, InitSleep, Invariance, PTL DEF Spec
=============================================================================
