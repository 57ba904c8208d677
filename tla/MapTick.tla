------------------------------ MODULE MapTick -------------------------------
(***************************************************************************)
(* One tick of the world's maps after another: MapManager::Update hands    *)
(* every map to MapUpdater's workers and waits at the barrier, MapPhase    *)
(* says which thread owns which map meanwhile, and what a map's update may *)
(* not do to another map is posted and applied later, by the owner or past *)
(* the barrier.                                                            *)
(*                                                                         *)
(* One step is one critical section of MapUpdater::m_mutex, or one stretch *)
(* of a map's update that touches nothing another thread can reach.        *)
(* notify_one() and notify_all() are steps of their own: the code calls    *)
(* them after it has let the mutex go.                                     *)
(***************************************************************************)
EXTENDS Naturals, Sequences, FiniteSets

CONSTANTS Workers,     \* the threads of MapUpdater; none: no pool
          World,       \* the world thread
          Shores,      \* world maps; a vessel sails one of them
          Instances,   \* dungeons, battlegrounds: unloaded when empty
          Decks,       \* the maps of vessels
          None,
          MaxTicks, MaxPosts

ASSUME MapTickAssumption ==
  /\ IsFiniteSet(Workers) /\ World \notin Workers
  /\ Shores \cap Instances = {} /\ Decks \cap (Shores \cup Instances) = {}
  /\ None \notin Shores \cup Instances \cup Decks
  /\ MaxTicks \in Nat /\ MaxPosts \in Nat

VARIABLES
  loaded,    \* MapManager::i_maps, without the decks
  todo,      \* maps the loop of MapManager::Update has not reached
  tasks,     \* MapUpdater::m_tasks
  pending,   \* MapUpdater::m_pending
  stop,      \* MapUpdater::m_stop
  active,    \* MapPhase's s_active
  pooled,    \* this tick goes to the workers
  at,        \* where each thread is
  job,       \* the map a thread updates or is about to
  deck,      \* the deck whose update runs nested in it
  seen,      \* vessels the map's update has been through
  sails,     \* the map a vessel is on
  crossing,  \* the map it is bound for: m_crossing, m_crossingTo
  afterQ,    \* World::m_afterMapPhase
  teamQ,     \* Map::m_teamBuffs of every map
  offQ,      \* OffMapAuraUpdates: <<post, map of its target>>
  ticks,     \* ticks begun
  due, runs, \* history: the maps of this tick, and how often each was entered
  fate       \* history: what became of each post made

poolVars  == <<tasks, pending, stop>>
mapVars   == <<loaded, sails, crossing>>
phaseVars == <<todo, active, pooled, ticks, due>>
scopeVars == <<job, deck, seen, runs>>
postVars  == <<afterQ, teamQ, offQ, fate>>
vars == <<poolVars, mapVars, phaseVars, scopeVars, postVars, at>>

Threads == Workers \cup {World}
Maps    == Shores \cup Instances
AllMaps == Maps \cup Decks

UpdateAt == {"update", "aboard", "deck"}     \* inside Map::Update
WorkerAt == {"look", "parked", "begin", "owe", "tell", "gone"} \cup UpdateAt
OutsideAt == {"tick", "cross", "unload", "posts", "offMap"}   \* no phase
WorldAt  == {"loop", "wake", "begin", "wait", "parked", "end", "stop", "rouse",
             "join", "down"} \cup UpdateAt \cup OutsideAt

TypeOK ==
  /\ loaded \subseteq Maps /\ todo \subseteq Maps /\ due \subseteq Maps
  /\ tasks \in Seq(Maps) /\ pending \in Nat /\ ticks \in Nat
  /\ stop \in BOOLEAN /\ active \in BOOLEAN /\ pooled \in BOOLEAN
  /\ at \in [Threads -> WorkerAt \cup WorldAt]
  /\ \A w \in Workers : at[w] \in WorkerAt
  /\ at[World] \in WorldAt
  /\ job \in [Threads -> Maps \cup {None}]
  /\ deck \in [Threads -> Decks \cup {None}]
  /\ seen \in [Threads -> SUBSET Decks]
  /\ sails \in [Decks -> Shores] /\ crossing \in [Decks -> Shores \cup {None}]
  /\ runs \in [Maps -> Nat]
  /\ afterQ \in Seq(Nat) /\ teamQ \in [AllMaps -> Seq(Nat)]
  /\ offQ \in Seq(Nat \X AllMaps)
  /\ fate \in Seq({"queued", "done", "lost"})

Init ==
  /\ loaded = Shores /\ todo = {} /\ due = {} /\ ticks = 0
  /\ tasks = <<>> /\ pending = 0 /\ stop = FALSE
  /\ active = FALSE /\ pooled = FALSE
  /\ at = [t \in Threads |-> IF t = World THEN "tick" ELSE "look"]
  /\ job = [t \in Threads |-> None] /\ deck = [t \in Threads |-> None]
  /\ seen = [t \in Threads |-> {}] /\ runs = [m \in Maps |-> 0]
  /\ sails \in [Decks -> Shores] /\ crossing = [d \in Decks |-> None]
  /\ afterQ = <<>> /\ teamQ = [m \in AllMaps |-> <<>>] /\ offQ = <<>>
  /\ fate = <<>>

-----------------------------------------------------------------------------
(* MapPhase: who owns what.                                                *)

\* The maps whose Map::Update encloses what t does: its stack of Scopes.
Scopes(t) == CASE at[t] \in {"update", "aboard"} -> {job[t]}
               [] at[t] = "deck" -> {job[t], deck[t]}
               [] OTHER -> {}

Owns(t, m)     == ~active \/ m \in Scopes(t)
OwnsUnit(t, m) == Owns(t, m) \/ (m \in Decks /\ Owns(t, sails[m]))

\* Threads that touch units: inside a map's update, or the world thread
\* outside the phase.
Running(t) == at[t] \in UpdateAt \cup OutsideAt

Go(t, from, to) == at[t] = from /\ at' = [at EXCEPT ![t] = to]
-----------------------------------------------------------------------------
(* The three kinds of posts, each made by whoever runs a map or by the     *)
(* world thread between phases.                                            *)

Queued == Append(fate, "queued")
Done   == Append(fate, "done")
Lost   == Append(fate, "lost")
Fresh  == Len(fate) + 1

Settled(ps, f) == [p \in DOMAIN fate |-> IF p \in ps THEN f ELSE fate[p]]
InSeq(s)       == {s[i] : i \in DOMAIN s}

\* World::ZoneUnderAttack, World::DefenseMessage, SetGraveYardLinkTeam.
PostAfterPhase ==
  /\ afterQ' = IF active THEN Append(afterQ, Fresh) ELSE afterQ
  /\ fate' = IF active THEN Queued ELSE Done
  /\ UNCHANGED <<teamQ, offQ>>

\* OutdoorPvP::BuffTeam, for a player on map m.
PostTeamBuff(t, m) ==
  LET found   == m \in loaded \cup Decks
      waiting == active /\ found /\ ~Owns(t, m)
  IN /\ teamQ' = IF waiting THEN [teamQ EXCEPT ![m] = Append(@, Fresh)] ELSE teamQ
     /\ fate' = IF waiting THEN Queued ELSE IF active /\ ~found THEN Lost ELSE Done
     /\ UNCHANGED <<afterQ, offQ>>

\* PostOffMapAuraUpdate: a holder on a unit of map m, cast by a player on c.
PostAuraUpdate(t, m, c) ==
  /\ OwnsUnit(t, m)
  /\ offQ' = IF OwnsUnit(t, c) THEN offQ ELSE Append(offQ, <<Fresh, m>>)
  /\ fate' = IF OwnsUnit(t, c) THEN Done ELSE Queued
  /\ UNCHANGED <<afterQ, teamQ>>

Post(t) ==
  /\ at[t] \in {"update", "deck", "tick"}
  /\ Len(fate) < MaxPosts
  /\ \/ PostAfterPhase
     \/ \E m \in AllMaps : PostTeamBuff(t, m)
     \/ \E m \in Scopes(t), c \in AllMaps : PostAuraUpdate(t, m, c)
  /\ UNCHANGED <<poolVars, mapVars, phaseVars, scopeVars, at>>
-----------------------------------------------------------------------------
(* Map::Update, on a worker or, in a tick that is not pooled, on the world *)
(* thread.                                                                 *)

\* The scope, then ApplyTeamBuffs().
ApplyTeamBuffs(m) ==
  /\ fate' = Settled(InSeq(teamQ[m]), "done")
  /\ teamQ' = [teamQ EXCEPT ![m] = <<>>]
  /\ UNCHANGED <<afterQ, offQ>>

Enter(t) ==
  /\ Go(t, "begin", "update")
  /\ runs' = [runs EXCEPT ![job[t]] = @ + 1]
  /\ seen' = [seen EXCEPT ![t] = {}]
  /\ ApplyTeamBuffs(job[t])
  /\ UNCHANGED <<poolVars, mapVars, phaseVars, job, deck>>

\* The last act of the update: a vessel sailing this map.  Its route may
\* decide to cross; then the deck's own update runs, nested.
Aboard(t, d) == sails[d] = job[t]

BoundAtOnce(d, to) ==       \* mutant: the crossing is not left to the barrier
  IF to = None THEN UNCHANGED mapVars
  ELSE /\ sails' = [sails EXCEPT ![d] = to]
       /\ UNCHANGED <<loaded, crossing>>

Bound(d, to) == crossing' = [crossing EXCEPT ![d] = to] /\ UNCHANGED <<loaded, sails>>

Sail(t, d) ==
  /\ Go(t, "update", "aboard")
  /\ d \notin seen[t] /\ Aboard(t, d) /\ crossing[d] = None
  /\ \E to \in (Shores \ {job[t]}) \cup {None} : Bound(d, to)
  /\ deck' = [deck EXCEPT ![t] = d]
  /\ seen' = [seen EXCEPT ![t] = @ \cup {d}]
  /\ UNCHANGED <<poolVars, phaseVars, postVars, job, runs>>

EnterDeck(t) ==
  /\ Go(t, "aboard", "deck")
  /\ ApplyTeamBuffs(deck[t])
  /\ UNCHANGED <<poolVars, mapVars, phaseVars, scopeVars>>

LeaveDeck(t) ==
  /\ Go(t, "deck", "update")
  /\ deck' = [deck EXCEPT ![t] = None]
  /\ UNCHANGED <<poolVars, mapVars, phaseVars, postVars, job, seen, runs>>

Leave(t) ==
  /\ Go(t, "update", IF t = World THEN "loop" ELSE "owe")
  /\ \A d \in Decks : Aboard(t, d) => d \in seen[t]
  /\ job' = [job EXCEPT ![t] = None]
  /\ UNCHANGED <<poolVars, mapVars, phaseVars, postVars, deck, seen, runs>>

UpdateStep(t) == \/ Enter(t) \/ (\E d \in Decks : Sail(t, d)) \/ EnterDeck(t)
                 \/ LeaveDeck(t) \/ Leave(t)
-----------------------------------------------------------------------------
(* MapUpdater::workerLoop.                                                 *)

\* The mutex is taken: a task, the end, or the condition variable.
Look(w) ==
  \/ /\ tasks # <<>>
     /\ Go(w, "look", "begin")
     /\ job' = [job EXCEPT ![w] = Head(tasks)]
     /\ tasks' = Tail(tasks)
     /\ UNCHANGED <<pending, stop, mapVars, phaseVars, postVars, deck, seen, runs>>
  \/ /\ tasks = <<>>
     /\ Go(w, "look", IF stop THEN "gone" ELSE "parked")
     /\ UNCHANGED <<poolVars, mapVars, phaseVars, scopeVars, postVars>>

\* An exception leaves Map::Update from anywhere; team buffs taken and not
\* yet applied go with it.
CatchForgets(w) == Go(w, at[w], "look")    \* mutant: the count is not given back
Catch(w)        == Go(w, at[w], "owe")

TakenNotApplied(m) ==
  \E n \in 0..Len(teamQ[m]) - 1 :
    /\ fate' = [p \in DOMAIN fate |->
                  IF p \notin InSeq(teamQ[m]) THEN fate[p]
                  ELSE IF p \in InSeq(SubSeq(teamQ[m], 1, n)) THEN "done" ELSE "lost"]
    /\ teamQ' = [teamQ EXCEPT ![m] = <<>>]
    /\ UNCHANGED <<afterQ, offQ>>

Throw(w) ==
  /\ at[w] \in {"begin"} \cup UpdateAt
  /\ Catch(w)
  /\ runs' = IF at[w] = "begin" THEN [runs EXCEPT ![job[w]] = @ + 1] ELSE runs
  /\ \/ at[w] \in {"update", "deck"} /\ UNCHANGED postVars
     \/ at[w] = "begin" /\ TakenNotApplied(job[w])
     \/ at[w] = "aboard" /\ TakenNotApplied(deck[w])
  /\ job' = [job EXCEPT ![w] = None] /\ deck' = [deck EXCEPT ![w] = None]
  /\ UNCHANGED <<poolVars, mapVars, phaseVars, seen>>

\* --m_pending under the mutex, then notify_all() without it.
GiveBack(w) ==
  /\ Go(w, "owe", "tell")
  /\ pending' = pending - 1
  /\ UNCHANGED <<tasks, stop, mapVars, phaseVars, scopeVars, postVars>>

WakeWorld(w) == at' = [at EXCEPT ![w] = "look",
                                 ![World] = IF @ = "parked" THEN "wait" ELSE @]

Tell(w) ==
  /\ at[w] = "tell"
  /\ WakeWorld(w)
  /\ UNCHANGED <<poolVars, mapVars, phaseVars, scopeVars, postVars>>

WorkerStep(w) == Look(w) \/ GiveBack(w) \/ Tell(w) \/ UpdateStep(w)

\* A condition variable may return by itself.
SpuriousWake(t) ==
  /\ Go(t, "parked", IF t = World THEN "wait" ELSE "look")
  /\ UNCHANGED <<poolVars, mapVars, phaseVars, scopeVars, postVars>>
-----------------------------------------------------------------------------
(* World::Update and MapManager::Update.                                   *)

WorldGo(from, to) == Go(World, from, to)

\* A session enters a map that is not loaded.
CreateMap(m) ==
  /\ at[World] = "tick" /\ m \in Maps \ loaded
  /\ loaded' = loaded \cup {m}
  /\ UNCHANGED <<sails, crossing, poolVars, phaseVars, scopeVars, postVars, at>>

BeginTick ==
  /\ WorldGo("tick", "loop")
  /\ ticks < MaxTicks
  /\ active' = TRUE /\ todo' = loaded /\ due' = loaded
  /\ runs' = [m \in Maps |-> 0]
  /\ \E p \in IF Workers = {} THEN {FALSE} ELSE BOOLEAN : pooled' = p
  /\ ticks' = ticks + 1
  /\ UNCHANGED <<poolVars, mapVars, postVars, job, deck, seen>>

Schedule(m) ==
  /\ pooled /\ m \in todo
  /\ WorldGo("loop", "wake")
  /\ todo' = todo \ {m}
  /\ tasks' = IF stop THEN tasks ELSE Append(tasks, m)
  /\ pending' = IF stop THEN pending ELSE pending + 1
  /\ UNCHANGED <<stop, mapVars, active, pooled, ticks, due, scopeVars, postVars>>

\* notify_one(): some worker in the condition variable, if there is one.
Parked      == {w \in Workers : at[w] = "parked"}
WokenFirst  == IF Len(tasks) > 1 THEN {} ELSE Parked   \* mutant: for an empty queue only
Wakeable    == Parked

WakeOne ==
  /\ at[World] = "wake"
  /\ \/ \E w \in Wakeable : at' = [at EXCEPT ![World] = "loop", ![w] = "look"]
     \/ Wakeable = {} /\ at' = [at EXCEPT ![World] = "loop"]
  /\ UNCHANGED <<poolVars, mapVars, phaseVars, scopeVars, postVars>>

RunInline(m) ==
  /\ ~pooled /\ m \in todo
  /\ WorldGo("loop", "begin")
  /\ todo' = todo \ {m}
  /\ job' = [job EXCEPT ![World] = m]
  /\ UNCHANGED <<poolVars, mapVars, active, pooled, ticks, due, deck, seen, runs, postVars>>

AllScheduled ==
  /\ todo = {}
  /\ WorldGo("loop", IF pooled THEN "wait" ELSE "end")
  /\ UNCHANGED <<poolVars, mapVars, phaseVars, scopeVars, postVars>>

\* MapUpdater::wait(), in the tick and in deactivate().
PassedEarly == tasks = <<>>    \* mutant: waits for the queue only
Passed      == pending = 0

Wait ==
  /\ WorldGo("wait", IF ~Passed THEN "parked" ELSE IF active THEN "end" ELSE "stop")
  /\ UNCHANGED <<poolVars, mapVars, phaseVars, scopeVars, postVars>>

EndPhaseMissing ==    \* mutant: MapPhase::End() is not called
  /\ WorldGo("end", "cross")
  /\ UNCHANGED <<poolVars, mapVars, phaseVars, scopeVars, postVars>>

EndPhase ==
  /\ WorldGo("end", "cross")
  /\ active' = FALSE
  /\ UNCHANGED <<todo, pooled, ticks, due, poolVars, mapVars, scopeVars, postVars>>

\* Transport::CompleteCrossing, for each vessel.
CompleteCrossing(d) ==
  /\ at[World] = "cross" /\ crossing[d] # None
  /\ loaded' = loaded \cup {crossing[d]}
  /\ sails' = [sails EXCEPT ![d] = crossing[d]]
  /\ crossing' = [crossing EXCEPT ![d] = None]
  /\ UNCHANGED <<poolVars, phaseVars, scopeVars, postVars, at>>

AllCrossed ==
  /\ \A d \in Decks : crossing[d] = None
  /\ WorldGo("cross", "unload")
  /\ UNCHANGED <<poolVars, mapVars, phaseVars, scopeVars, postVars>>

\* Maps whose unload timer has run out are deleted, their posts with them.
Drop(ms) ==
  /\ loaded' = loaded \ ms
  /\ teamQ' = [m \in AllMaps |-> IF m \in ms THEN <<>> ELSE teamQ[m]]
  /\ fate' = Settled(UNION {InSeq(teamQ[m]) : m \in ms}, "lost")
  /\ UNCHANGED <<afterQ, offQ, sails, crossing>>

Unload ==
  /\ WorldGo("unload", "posts")
  /\ \E ms \in SUBSET (loaded \cap Instances) : Drop(ms)
  /\ UNCHANGED <<poolVars, phaseVars, scopeVars>>

\* Each post is applied by the call that made it, which posts again while
\* the phase is on.
ApplyAfterMapPhasePosts ==
  /\ WorldGo("posts", "offMap")
  /\ fate' = IF active THEN fate ELSE Settled(InSeq(afterQ), "done")
  /\ afterQ' = IF active THEN afterQ ELSE <<>>
  /\ UNCHANGED <<teamQ, offQ, poolVars, mapVars, phaseVars, scopeVars>>

ApplyOffMapAuraUpdates ==
  /\ WorldGo("offMap", "tick")
  /\ fate' = [p \in DOMAIN fate |->
                IF \E m \in loaded \cup Decks : <<p, m>> \in InSeq(offQ) THEN "done"
                ELSE IF \E m \in AllMaps : <<p, m>> \in InSeq(offQ) THEN "lost"
                ELSE fate[p]]
  /\ offQ' = <<>>
  /\ UNCHANGED <<afterQ, teamQ, poolVars, mapVars, phaseVars, scopeVars>>

\* MapManager::UnloadAll: the maps go first, then the workers.
UnloadAll ==
  /\ WorldGo("tick", IF Workers = {} THEN "down" ELSE "wait")
  /\ loaded' = {} /\ UNCHANGED sails
  /\ crossing' = [d \in Decks |-> None]
  /\ teamQ' = [m \in AllMaps |-> <<>>]
  /\ fate' = Settled(UNION {InSeq(teamQ[m]) : m \in AllMaps}, "lost")
  /\ UNCHANGED <<afterQ, offQ, poolVars, phaseVars, scopeVars>>

\* deactivate() after wait(): the flag, notify_all(), join().
Stop ==
  /\ WorldGo("stop", "rouse")
  /\ stop' = TRUE
  /\ UNCHANGED <<tasks, pending, mapVars, phaseVars, scopeVars, postVars>>

Rouse ==
  /\ at[World] = "rouse"
  /\ at' = [t \in Threads |-> IF t = World THEN "join"
                              ELSE IF at[t] = "parked" THEN "look" ELSE at[t]]
  /\ UNCHANGED <<poolVars, mapVars, phaseVars, scopeVars, postVars>>

Join ==
  /\ \A w \in Workers : at[w] = "gone"
  /\ WorldGo("join", "down")
  /\ UNCHANGED <<poolVars, mapVars, phaseVars, scopeVars, postVars>>

\* What the world thread goes on with by itself once a tick, or the
\* shutdown, has begun.
WorldOn == \/ \E m \in Maps : Schedule(m) \/ RunInline(m)
           \/ WakeOne \/ AllScheduled \/ Wait \/ EndPhase
           \/ (\E d \in Decks : CompleteCrossing(d)) \/ AllCrossed \/ Unload
           \/ ApplyAfterMapPhasePosts \/ ApplyOffMapAuraUpdates
           \/ Stop \/ Rouse \/ Join \/ UpdateStep(World)

Next == \/ \E t \in Threads : Post(t) \/ SpuriousWake(t)
        \/ \E w \in Workers : WorkerStep(w) \/ Throw(w)
        \/ (\E m \in Maps : CreateMap(m)) \/ BeginTick \/ UnloadAll
        \/ WorldOn

Spec == Init /\ [][Next]_vars

FairSpec == /\ Spec
            /\ WF_vars(WorldOn)
            /\ \A w \in Workers : WF_vars(WorkerStep(w))
-----------------------------------------------------------------------------
(* What must hold.                                                         *)

\* No unit belongs to two threads at once: not to two workers, and outside
\* the phase, when the world thread owns everything, no worker is inside a
\* map (MapPhase.h: "the phases never overlap").  A unit on a deck is owned
\* through the deck or through the map its vessel sails, and what a thread
\* owns it changes at once instead of posting.
OneOwner ==
  \A t, u \in Threads : t # u /\ Running(t) /\ Running(u)
     => \A m \in AllMaps : ~(OwnsUnit(t, m) /\ OwnsUnit(u, m))

\* The barrier is what it says (MapUpdater.h: wait() blocks "until every
\* scheduled update has finished").  A map that is queued, as a plain pointer,
\* or being updated is not deleted meanwhile; at the end of the phase every
\* map of the tick was updated, once, unless its own exception ended its
\* update.
NoDeletedMap ==
  /\ \A m \in InSeq(tasks) : m \in loaded
  /\ \A t \in Threads : at[t] \in {"begin"} \cup UpdateAt => job[t] \in loaded

EachMapOnce ==
  /\ NoDeletedMap
  /\ \A m \in Maps : runs[m] <= 1
  /\ at[World] \in {"end", "cross"} => \A m \in due : runs[m] = 1

\* A post waits in one queue, at one place.
Unique(s) == \A i, j \in DOMAIN s : s[i] = s[j] => i = j
OffPosts  == [i \in DOMAIN offQ |-> offQ[i][1]]

OnePlace ==
  /\ Unique(afterQ) /\ Unique(OffPosts) /\ \A m \in AllMaps : Unique(teamQ[m])
  /\ InSeq(afterQ) \cap InSeq(OffPosts) = {}
  /\ \A m \in AllMaps :
       /\ InSeq(teamQ[m]) \cap (InSeq(afterQ) \cup InSeq(OffPosts)) = {}
       /\ \A n \in AllMaps \ {m} : InSeq(teamQ[m]) \cap InSeq(teamQ[n]) = {}

Waiting == InSeq(afterQ) \cup InSeq(OffPosts) \cup UNION {InSeq(teamQ[m]) : m \in AllMaps}

\* A post is applied once: it waits in one queue at one place until it is,
\* and what waits for the end of the phase never waits for the next tick
\* (World.cpp applies both queues right after the maps).
PostsSettled ==
  /\ OnePlace
  /\ Waiting = {p \in DOMAIN fate : fate[p] = "queued"}
  /\ at[World] = "tick" => afterQ = <<>> /\ offQ = <<>>

\* Whoever sleeps in a condition variable while there is something for it to
\* do is about to be woken: the world thread, when the last update was given
\* back; a worker, when more updates are queued than awake workers come to
\* look for one; all of them, before they are joined.  The notifications are
\* made without the mutex, and each may meet nobody.
NobodySleepsOverWork ==
  /\ at[World] = "parked" /\ pending = 0 => \E w \in Workers : at[w] = "tell"
  /\ Parked # {} =>
       Len(tasks) <= Cardinality({w \in Workers : at[w] = "look"})
                       + (IF at[World] = "wake" THEN 1 ELSE 0)
  /\ at[World] \in {"join", "down"} => Parked = {}

\* The barrier opens and the shutdown ends: whatever the workers run, throw
\* or miss, a tick begun is over some day, and so is deactivate().
TickEnds == /\ at[World] = "loop" ~> at[World] = "tick"
            /\ at[World] = "wait" ~> at[World] \in {"tick", "down"}
=============================================================================
