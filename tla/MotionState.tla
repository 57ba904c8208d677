---------------------------- MODULE MotionState -----------------------------
(***************************************************************************)
(* The change pipeline of one unit: Motion::State with its PendingChanges, *)
(* the session that sends what they emit, and the client that answers.     *)
(* The server decides a change (desired), sends it with a counter to the   *)
(* client that moves the unit, and takes it as done (confirmed) when the   *)
(* client echoes the counter.  Control of the unit changes hands and the   *)
(* unit leaves the world and comes back meanwhile.                         *)
(*                                                                         *)
(* All of it runs on the thread that owns the unit, one call at a time.    *)
(* The two directions of the connection are queues.  A flag is on or off   *)
(* and a speed has two values, so both are Booleans.  Forms the client has *)
(* no packet for (collision height and swim-to-fly of a server-driven      *)
(* unit) and events that are no state (knock-backs, teleports) are left    *)
(* out.                                                                    *)
(***************************************************************************)
EXTENDS Naturals, Sequences, FiniteSets

CONSTANTS Flags,       \* Root, CanFly, Hover...: acknowledged, no value echoed
          Speeds,      \* acknowledged with the value echoed
          Rates,       \* turn and pitch rate: no acknowledgement exists
          Gaits,       \* Gait, Swim: changed on a server-driven unit only
          None, MaxOps, MaxFaults

ASSUME MotionAssumption ==
  /\ IsFiniteSet(Flags) /\ IsFiniteSet(Speeds)
  /\ Flags \cap Speeds = {} /\ Flags \cap Rates = {} /\ Speeds \cap Rates = {}
  /\ (Flags \cup Speeds \cup Rates) \cap Gaits = {}
  /\ None \notin Nat /\ MaxOps \in Nat /\ MaxFaults \in Nat

VARIABLES
  mode,       \* State::m_mode; a client that moves the unit is its mover session
  inWorld,    \* IsInWorld()
  desired, confirmed,   \* the two Kinematics
  pending,    \* PendingChanges::m_pending
  tombstones, \* PendingChanges::m_tombstones, oldest first
  next,       \* PendingChanges::m_next
  toClient,   \* packets on their way to the client
  acks,       \* acknowledgements on their way back
  client,     \* the client's own idea of the unit
  ops,        \* decisions of the server so far
  faults,     \* answers so far no well-behaved client gives
  wrong,      \* the client was found to echo wrong speeds, and may go on
  unheard,    \* history: counters whose acknowledgement was thrown away
  unsaid      \* history: flags whose clearing was retired by an epoch

kernelVars  == <<mode, desired, confirmed, pending, tombstones, next>>
historyVars == <<faults, unheard, unsaid>>
vars == <<kernelVars, inWorld, toClient, acks, client, wrong, ops, historyVars>>

Acked     == Flags \cup Speeds
OnClients == Acked \cup Rates            \* what a client-driven unit may change
Types     == OnClients \cup Gaits

Entry == [type : Acked, counter : Nat, value : BOOLEAN, resends : Nat]
Grave == [type : Acked, counter : Nat]

TypeOK ==
  /\ mode \in {"server", "client"} /\ inWorld \in BOOLEAN
  /\ desired \in [Types -> BOOLEAN] /\ confirmed \in [Types -> BOOLEAN]
  /\ pending \subseteq Entry /\ tombstones \in Seq(Grave) /\ next \in Nat
  /\ toClient \in Seq([type : Types, value : BOOLEAN, counter : {None}]
                        \cup [type : Acked, value : BOOLEAN, counter : Nat]
                        \cup [create : [OnClients -> BOOLEAN]])
  /\ acks \in Seq([type : Acked, counter : Nat, value : BOOLEAN])
  /\ client \in [OnClients -> BOOLEAN]
  /\ wrong \in BOOLEAN
  /\ ops \in Nat /\ faults \in Nat /\ unheard \subseteq Nat /\ unsaid \subseteq Flags

\* A player before its login: Player's constructor makes it client-driven.
Init ==
  /\ mode = "client" /\ inWorld = FALSE
  /\ desired = [t \in Types |-> FALSE] /\ confirmed = [t \in Types |-> FALSE]
  /\ pending = {} /\ tombstones = <<>> /\ next = 0
  /\ toClient = <<>> /\ acks = <<>> /\ client = [t \in OnClients |-> FALSE]
  /\ wrong = FALSE /\ ops = 0 /\ faults = 0 /\ unheard = {} /\ unsaid = {}

InSeq(s) == {s[i] : i \in DOMAIN s}
Decision == ops < MaxOps /\ ops' = ops + 1
-----------------------------------------------------------------------------
(* PendingChanges.                                                         *)

PendingOf(t) == {e \in pending : e.type = t}

\* Retire() of some entries, in some order.
Retired(es) ==
  {[i \in 1..Cardinality(es) |-> [type |-> o[i].type, counter |-> o[i].counter]] :
     o \in {f \in [1..Cardinality(es) -> es] : \A i, j \in DOMAIN f : f[i] = f[j] => i = j}}

Retire(es) == \E r \in Retired(es) : tombstones' = tombstones \o r

\* Open(): the new entry takes the place of one of its type.
OldKept(t) == pending                      \* mutant: the old entry stays
OldGone(t) == pending \ PendingOf(t)

Open(t, v) ==
  /\ Retire(PendingOf(t))
  /\ pending' = OldGone(t)
       \cup {[type |-> t, counter |-> next, value |-> v, resends |-> 0]}
  /\ next' = next + 1

\* ExpireTombstones(): those whose time has come.
Expired(s) == {SubSeq(s, n, Len(s)) : n \in 1..Len(s) + 1}

AnswersType(e, a) == e.type = a.type       \* mutant: the counter is not compared
Answers(e, a)     == e.type = a.type /\ e.counter = a.counter

\* Whether the value echoed is the one sent; flags echo none.
Agrees(e, a) == a.type \in Speeds => e.value = a.value

\* ConsumeTombstone(): the first that fits.
ConsumeTombstone(a, s) ==
  LET fits == {i \in DOMAIN s : Answers(s[i], a)} IN
  IF fits = {} THEN s
  ELSE LET i == CHOOSE i \in fits : \A j \in fits : i <= j
       IN SubSeq(s, 1, i - 1) \o SubSeq(s, i + 1, Len(s))
-----------------------------------------------------------------------------
(* State: every call with what Unit::SendEmissions does to its emissions.  *)

Packet(t, v, n) == [type |-> t, value |-> v, counter |-> n]
Emit(ps) == toClient' = IF inWorld THEN toClient \o ps ELSE toClient

\* Apply(), for each of a unit's setters: a changed aura, speed, stand...
ApplyServer(t, v) ==
  /\ mode = "server"
  /\ desired' = [desired EXCEPT ![t] = v]
  /\ confirmed' = desired'
  /\ Emit(<<Packet(t, v, None)>>)
  /\ UNCHANGED <<pending, tombstones, next, unsaid>>

ApplyAcked(t, v) ==
  /\ mode = "client" /\ t \in Acked
  /\ desired' = [desired EXCEPT ![t] = v]
  /\ Open(t, v)
  /\ Emit(<<Packet(t, v, next)>>)
  /\ unsaid' = unsaid \ {t}
  /\ UNCHANGED confirmed

ApplyRate(t, v) ==
  /\ mode = "client" /\ t \in Rates
  /\ desired' = [desired EXCEPT ![t] = v]
  /\ confirmed' = [confirmed EXCEPT ![t] = v]
  /\ next' = next + 1
  /\ Emit(<<Packet(t, v, None)>>)
  /\ UNCHANGED <<pending, tombstones, unsaid>>

Apply(t, v) ==
  /\ Decision
  /\ ApplyServer(t, v) \/ ApplyAcked(t, v) \/ ApplyRate(t, v)
  /\ UNCHANGED <<mode, inWorld, acks, client, wrong, faults, unheard>>

\* Adopt(): a gait the spline has already told everyone.
Adopt(t, v) ==
  /\ Decision
  /\ mode = "server" /\ t \in Gaits
  /\ desired' = [desired EXCEPT ![t] = v]
  /\ confirmed' = desired'
  /\ UNCHANGED <<mode, pending, tombstones, next, inWorld, toClient, acks,
                 client, wrong, historyVars>>

\* SetMode() in RevokeMover() and GrantMover(); the root either of them may
\* then refresh is one more Apply().
Revoke ==
  /\ Decision
  /\ mode = "client" /\ mode' = "server"
  /\ Retire(pending) /\ pending' = {}
  /\ confirmed' = desired
  /\ unsaid' = {}
  /\ UNCHANGED <<desired, next, inWorld, toClient, acks, client, wrong, faults,
                 unheard>>

Grant ==
  /\ Decision
  /\ mode = "server" /\ mode' = "client"
  /\ Retire(pending) /\ pending' = {}
  /\ UNCHANGED <<desired, confirmed, next, inWorld, toClient, acks, client,
                 wrong, historyVars>>

Tick ==
  /\ tombstones' \in Expired(tombstones)
  /\ UNCHANGED <<mode, desired, confirmed, pending, next, inWorld, toClient,
                 acks, client, wrong, ops, historyVars>>
-----------------------------------------------------------------------------
(* Out of the world and back: Player::StartMovementEpoch.                  *)

LeaveWorld ==
  /\ Decision
  /\ inWorld /\ inWorld' = FALSE
  /\ UNCHANGED <<kernelVars, toClient, acks, client, wrong, historyVars>>

\* What the client starts from: no flags, the speeds of the unit.
Created == [t \in OnClients |-> IF t \in Speeds \cup Rates THEN desired[t] ELSE FALSE]

\* Snapshot(): every speed that is acknowledged, every flag that is set.
SnapshotSpeeds == Speeds     \* mutant: the flags are forgotten
Snapshot       == Speeds \cup {t \in Flags : desired[t]}

Orders == LET n == Cardinality(Snapshot) IN
          {o \in [1..n -> Snapshot] : \A i, j \in 1..n : o[i] = o[j] => i = j}

\* NewEpoch(), then Apply() of the snapshot.
EnterWorld ==
  /\ ~inWorld /\ inWorld' = TRUE
  /\ Decision
  /\ Retire(pending)
  /\ \E o \in Orders :
       LET fresh(i)  == IF mode = "client" THEN next + i - 1 ELSE None
           create    == <<[create |-> Created]>>
           reissue   == [i \in DOMAIN o |-> Packet(o[i], desired[o[i]], fresh(i))]
       IN /\ toClient' = toClient \o create \o reissue
          /\ IF mode = "client"
             THEN /\ pending' = {[type |-> o[i], counter |-> fresh(i),
                                  value |-> desired[o[i]], resends |-> 0] : i \in DOMAIN o}
                  /\ next' = next + Len(o)
                  /\ UNCHANGED confirmed
             ELSE /\ pending' = {} /\ confirmed' = desired
                  /\ UNCHANGED next
  /\ unsaid' = unsaid \cup {t \in Flags : ~desired[t] /\ PendingOf(t) # {}}
  /\ UNCHANGED <<mode, desired, acks, client, wrong, faults, unheard>>
-----------------------------------------------------------------------------
(* The client.                                                             *)

\* It applies what it is told and answers with what it applied; to be wrong
\* about speeds is a fault.
Answer(p, v) ==
  /\ v # p.value => p.type \in Speeds /\ (wrong \/ faults < MaxFaults)
  /\ acks' = Append(acks, [type |-> p.type, counter |-> p.counter, value |-> v])
  /\ wrong' = (wrong \/ v # p.value)
  /\ faults' = IF wrong' = wrong THEN faults ELSE faults + 1

ClientTakes ==
  /\ toClient # <<>> /\ toClient' = Tail(toClient)
  /\ LET p == Head(toClient) IN
     \/ /\ "create" \in DOMAIN p
        /\ client' = p.create
        /\ UNCHANGED <<acks, wrong, faults>>
     \/ /\ "type" \in DOMAIN p
        /\ client' = IF p.type \in Gaits THEN client ELSE [client EXCEPT ![p.type] = p.value]
        /\ IF p.counter = None THEN UNCHANGED <<acks, wrong, faults>>
           ELSE \E v \in BOOLEAN : Answer(p, v)
  /\ UNCHANGED <<kernelVars, inWorld, ops, unheard, unsaid>>

\* An acknowledgement of anything: doubled, early, late or made up.
Stray ==
  /\ faults < MaxFaults /\ faults' = faults + 1
  /\ \E t \in Acked, n \in 0..next, v \in BOOLEAN :
       /\ t \in Flags => v
       /\ acks' = Append(acks, [type |-> t, counter |-> n, value |-> v])
  /\ UNCHANGED <<kernelVars, inWorld, toClient, client, wrong, ops, unheard, unsaid>>
-----------------------------------------------------------------------------
(* HandleMovementAck and State::Ack.                                       *)

Matched(e) ==
  /\ pending' = pending \ {e}
  /\ confirmed' = [confirmed EXCEPT ![e.type] = e.value]
  /\ UNCHANGED <<next, toClient>>

MaxMismatchResends == 1      \* kMaxMismatchResends
ResendsNever(e) == FALSE     \* mutant: a wrong value is not sent again
Resends(e)      == e.resends < MaxMismatchResends

\* mutant: a wrong value ends the matter
MismatchedDrops(e) == pending' = pending \ {e} /\ UNCHANGED <<confirmed, next, toClient>>
\* Reopen() under a fresh counter, sent once more.
Mismatched(e) ==
  /\ pending' = (pending \ {e})
                  \cup {[e EXCEPT !.counter = next, !.resends = @ + 1]}
  /\ next' = next + 1
  /\ IF Resends(e) THEN Emit(<<Packet(e.type, e.value, next)>>)
     ELSE UNCHANGED toClient
  /\ UNCHANGED confirmed

Ack(a) ==
  \E swept \in Expired(tombstones) :
    LET es == {e \in pending : Answers(e, a)} IN
    \/ \E e \in es :
         /\ IF Agrees(e, a) THEN Matched(e) ELSE Mismatched(e)
         /\ tombstones' = swept
    \/ /\ es = {}
       /\ tombstones' = IF a.counter < next THEN ConsumeTombstone(a, swept) ELSE swept
       /\ UNCHANGED <<pending, confirmed, next, toClient>>

\* A unit the session does not move takes none; a status that does not
\* verify is thrown away with its acknowledgement.
HandleMovementAck ==
  /\ acks # <<>> /\ acks' = Tail(acks)
  /\ LET a == Head(acks) IN
     \/ /\ mode = "client"
        /\ Ack(a)
        /\ UNCHANGED <<faults, unheard>>
     \/ /\ mode = "server"
        /\ UNCHANGED <<pending, confirmed, tombstones, next, toClient, faults, unheard>>
     \/ /\ mode = "client" /\ faults < MaxFaults
        /\ faults' = faults + 1
        /\ unheard' = unheard \cup {a.counter}
        /\ UNCHANGED <<pending, confirmed, tombstones, next, toClient>>
  /\ UNCHANGED <<mode, desired, inWorld, client, wrong, ops, unsaid>>

Next == \/ \E t \in Types, v \in BOOLEAN : Apply(t, v) \/ Adopt(t, v)
        \/ Revoke \/ Grant \/ Tick \/ LeaveWorld \/ EnterWorld
        \/ ClientTakes \/ Stray \/ HandleMovementAck

Spec == Init /\ [][Next]_vars

FairSpec == Spec /\ WF_vars(ClientTakes) /\ WF_vars(HandleMovementAck)
-----------------------------------------------------------------------------
(* What must hold.                                                         *)

\* One change of a type is outstanding, and it is the latest decided; a
\* counter names one change ever: those outstanding and those remembered are
\* distinct and were issued.  So no answer can be taken for another's.
CountersApart ==
  /\ \A e, f \in pending : e.type = f.type \/ e.counter = f.counter => e = f
  /\ \A e \in pending : e.counter < next /\ e.value = desired[e.type]
  /\ \A g \in InSeq(tombstones) : g.counter < next /\ \A e \in pending : e.counter # g.counter
  /\ \A i, j \in DOMAIN tombstones : tombstones[i].counter = tombstones[j].counter => i = j

\* What is confirmed becomes what is desired and nothing else: a late, doubled
\* or made-up answer, and one to a change superseded or of an epoch gone by,
\* never brings an old value back.
OnlyTheLatest ==
  [][\A t \in Types : confirmed'[t] # confirmed[t] => confirmed'[t] = desired'[t]]_vars

\* And while every answer is one the client gave to a packet, a change counts
\* as confirmed only when the client has made it: its answer to an earlier
\* change of the type does not do.
Strayed == faults > (IF wrong THEN 1 ELSE 0) + Cardinality(unheard)
OnlyWhatWasDone ==
  /\ OnlyTheLatest
  /\ [][\A t \in Acked :
          mode = "client" /\ mode' = "client" /\ ~Strayed
            => confirmed'[t] = confirmed[t] \/ confirmed'[t] = client[t]]_vars

\* When everything sent has arrived, the client of a unit in the world agrees
\* with the server: whatever was decided while it was away, under the other
\* mode, or while an answer was wrong.
ClientCatchesUp ==
  inWorld /\ toClient = <<>> => \A t \in OnClients : client[t] = desired[t]

\* A change is confirmed some day, unless the client's answer to it was thrown
\* away or wrong twice, or an epoch retired the clearing of a flag.
Excused(t) ==
  \/ t \in unsaid
  \/ \E e \in PendingOf(t) : e.resends > MaxMismatchResends \/ e.counter \in unheard
Negotiated ==
  \A t \in Acked : <>[](inWorld => confirmed[t] = desired[t] \/ Excused(t))

\* Nothing decided is forgotten: the client catches up, and until a change is
\* confirmed it is on its way, as a packet the client will take or as an
\* answer the session will.
OnItsWay(e) ==
  \/ \E i \in DOMAIN toClient : "type" \in DOMAIN toClient[i] /\ Answers(e, toClient[i])
  \/ \E k \in DOMAIN acks : Answers(e, acks[k])
Outstanding ==
  inWorld => \A t \in Acked :
    confirmed[t] = desired[t] \/ Excused(t) \/ \E e \in PendingOf(t) : OnItsWay(e)
NothingForgotten == ClientCatchesUp /\ Outstanding
=============================================================================
