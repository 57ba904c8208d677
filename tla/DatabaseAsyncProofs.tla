------------------------ MODULE DatabaseAsyncProofs ------------------------
(***************************************************************************)
(* For any number of threads, operations and statements, whatever command  *)
(* fails and whoever else executes directly on the connection:             *)
(*   - transactions are all or nothing, and a reported write is durable    *)
(*     (the invariant Inv: what the server holds at each step of an        *)
(*     operation, which one executor at a time carries out);               *)
(*   - no write is overtaken, and a shutdown discards nothing (OInv, on    *)
(*     top of Inv: who may have work in each phase, and the order of the   *)
(*     queue together with what waits outside it).                         *)
(***************************************************************************)
EXTENDS DatabaseAsync, FiniteSetTheorems, TLAPS

Held  == {"begin", "run", "rollback", "commit", "finish"}
Known == 1..Len(issued)
Runnable == {n \in Known : issued[n].kind # "none"}
Slots == {t \in Threads : slot[t] # NoTrans}

\* Every open transaction has a number left for it.
Bounded == Len(issued) + Cardinality(Slots) <= MaxOps

\* Whatever is queued, executed, applied or promised was issued; a statement
\* outside a transaction is an operation of one statement.
References ==
  /\ \A i \in 1..Len(queue) : queue[i] \in Runnable
  /\ \A e \in Executors : job[e] # Idle => job[e].op \in Runnable
  /\ open \subseteq (Known \X (1..MaxLen)) /\ durable \subseteq (Known \X (1..MaxLen))
  /\ promised \subseteq Known
  /\ \A n \in Known : issued[n].kind \in {"write", "direct"} => issued[n].len = 1

\* One executor at a time is past the lock, and between two executors the
\* server has no transaction open.
Exclusive ==
  /\ \A e \in Executors : job[e].step \in Held => holder = e
  /\ inTrans => holder # Nobody
  /\ ~inTrans => open = {}

\* What the server holds at each step of the operation that e executes
Stage(e) ==
  /\ At(e, "lock") \/ At(e, "begin") => job[e].k = 1
  /\ At(e, "begin") => IsTransaction(e) /\ Op(e).len # 0 /\ ~inTrans
  /\ At(e, "run") /\ IsTransaction(e) =>
        /\ job[e].k \in 1..Op(e).len
        /\ inTrans /\ open = {job[e].op} \X (1..job[e].k - 1)
  /\ At(e, "run") /\ ~IsTransaction(e) => job[e].k = 1 /\ ~inTrans
  /\ At(e, "commit") => IsTransaction(e) /\ inTrans /\ open = Statements(job[e].op)
  /\ At(e, "rollback") => ~job[e].ok
  /\ At(e, "finish") =>
        /\ ~inTrans
        /\ job[e].ok /\ Op(e).kind \in {"direct", "checked"}
              => Statements(job[e].op) \subseteq durable

Stages == \A e \in Executors : Stage(e)

Inv == /\ TypeOK /\ Bounded /\ References /\ Exclusive /\ Stages
       /\ TransactionsWhole /\ ReportedDurable
-----------------------------------------------------------------------------
(* The start.                                                              *)

LEMMA ThreadsFinite == IsFiniteSet(Threads)
  BY DatabaseAssumption, FS_AddElement DEF Threads

LEMMA InitInv == Init => Inv
  <1> SUFFICES ASSUME Init PROVE Inv
    OBVIOUS
  <1> USE DEF Init
  <1>1. TypeOK
    <2>1. slot \in [Threads -> NoTrans..MaxLen]
      BY DatabaseAssumption DEF NoTrans
    <2>2. job \in [Executors -> Job \cup {Idle}]
      OBVIOUS
    <2>3. parked \in [Threads -> Ops \cup {0}]
      OBVIOUS
    <2>4. /\ queue \in Seq(Ops) /\ results \in Seq(Ops)
          /\ issued \in Seq([kind : Kinds, len : 0..MaxLen]) /\ Len(issued) <= MaxOps
      BY DatabaseAssumption
    <2> QED BY <2>1, <2>2, <2>3, <2>4 DEF TypeOK
  <1>2. Bounded
    <2>1. Slots = {}
      BY DEF Slots
    <2> QED BY <2>1, FS_EmptySet, DatabaseAssumption DEF Bounded
  <1>3. References
    BY DEF References, Known, Runnable
  <1>4. Exclusive
    BY DEF Exclusive, Held, Idle
  <1>5. Stages
    BY DEF Stages, Stage, At, Idle
  <1>6. TransactionsWhole /\ ReportedDurable
    BY DEF TransactionsWhole, ReportedDurable, Statements
  <1> QED BY <1>1, <1>2, <1>3, <1>4, <1>5, <1>6 DEF Inv
-----------------------------------------------------------------------------
(* Issuing an operation.                                                   *)

\* What the calls of the database have in common
Accept(t, kind, len) ==
  /\ job[t] = Idle
  /\ Issue(kind, len)
  /\ \/ kind # "none" /\ Delay
     \/ kind # "none" /\ RunHere(t)
     \/ UNCHANGED <<queue, job>>
  /\ UNCHANGED <<life, delay, results, holder, server, ran, told>>

\* An operation's number, kind and length never change.
LEMMA Prefix ==
  ASSUME TypeOK, NEW kind \in Kinds, NEW len \in 0..MaxLen, Issue(kind, len)
  PROVE  /\ issued' \in Seq([kind : Kinds, len : 0..MaxLen])
         /\ Len(issued') = Len(issued) + 1 /\ Len(issued) \in Nat
         /\ Known' = Known \cup {NewOp} /\ NewOp \notin Known
         /\ \A n \in Known : issued'[n] = issued[n]
         /\ issued'[NewOp] = [kind |-> kind, len |-> len]
         /\ \A n \in Known : Statements(n)' = Statements(n)
         /\ Runnable \subseteq Runnable' /\ (kind # "none" => NewOp \in Runnable')
         /\ DOMAIN issued = Known /\ (DOMAIN issued)' = Known'
  <1>1. issued \in Seq([kind : Kinds, len : 0..MaxLen])
    BY DEF TypeOK
  <1>2. [kind |-> kind, len |-> len] \in [kind : Kinds, len : 0..MaxLen]
    OBVIOUS
  <1>3. issued' = Append(issued, [kind |-> kind, len |-> len])
    BY DEF Issue
  <1>4. /\ issued' \in Seq([kind : Kinds, len : 0..MaxLen])
        /\ Len(issued') = Len(issued) + 1 /\ Len(issued) \in Nat
        /\ \A n \in Known : issued'[n] = issued[n]
        /\ issued'[NewOp] = [kind |-> kind, len |-> len]
        /\ DOMAIN issued = Known /\ (DOMAIN issued)' = Known'
    BY <1>1, <1>2, <1>3 DEF Known, NewOp
  <1>5. Known' = Known \cup {NewOp} /\ NewOp \notin Known
    BY <1>4 DEF Known, NewOp
  <1>6. \A n \in Known : Statements(n)' = Statements(n)
    BY <1>4 DEF Statements
  <1>7. Runnable \subseteq Runnable' /\ (kind # "none" => NewOp \in Runnable')
    BY <1>4, <1>5 DEF Runnable
  <1> QED BY <1>4, <1>5, <1>6, <1>7

\* The job of an executor that did nothing, while the server did nothing
LEMMA StageKept ==
  ASSUME NEW e \in Executors, Stage(e), job'[e] = job[e],
         job[e] # Idle => /\ issued'[job[e].op] = issued[job[e].op]
                          /\ Statements(job[e].op)' = Statements(job[e].op),
         UNCHANGED server
  PROVE  Stage(e)'
  <1>1. CASE job[e] = Idle
    BY <1>1 DEF Stage, At, Idle
  <1>2. CASE job[e] # Idle
    BY <1>2 DEF Stage, At, Op, IsTransaction, server
  <1> QED BY <1>1, <1>2

LEMMA AcceptInv ==
  ASSUME Inv, NEW t \in Threads, NEW kind \in Kinds, NEW len \in 0..MaxLen,
         kind \in {"write", "direct"} => len = 1,
         Accept(t, kind, len),
         slot' \in [Threads -> NoTrans..MaxLen],
         parked' \in [Threads -> Ops \cup {0}],
         Bounded', NewOp \in Ops
  PROVE  Inv'
  <1> USE DEF Inv
  <1>1. /\ issued' \in Seq([kind : Kinds, len : 0..MaxLen])
        /\ Len(issued') = Len(issued) + 1 /\ Len(issued) \in Nat
        /\ Known' = Known \cup {NewOp} /\ NewOp \notin Known
        /\ \A n \in Known : issued'[n] = issued[n]
        /\ issued'[NewOp] = [kind |-> kind, len |-> len]
        /\ \A n \in Known : Statements(n)' = Statements(n)
        /\ Runnable \subseteq Runnable' /\ (kind # "none" => NewOp \in Runnable')
        /\ Runnable \subseteq Known
        /\ DOMAIN issued = Known /\ (DOMAIN issued)' = Known'
    BY Prefix DEF Accept, Runnable
  <1>2. t \in Executors
    BY DEF Executors
  <1>3. /\ \/ job' = job
           \/ /\ kind # "none"
              /\ job' = [job EXCEPT ![t] = [op |-> NewOp, step |-> "lock", k |-> 1, ok |-> TRUE]]
        /\ job[t] = Idle
        /\ queue' = queue \/ (kind # "none" /\ queue' = Append(queue, NewOp))
    BY DEF Accept, Delay, RunHere
  <1>4. UNCHANGED <<life, delay, results, holder, server, ran, told>>
    BY DEF Accept
  <1>5. TypeOK'
    <2>1. job' \in [Executors -> Job \cup {Idle}]
      <3>1. [op |-> NewOp, step |-> "lock", k |-> 1, ok |-> TRUE] \in Job
        BY DatabaseAssumption DEF Job, Steps
      <3> QED BY <3>1, <1>3 DEF TypeOK
    <2>2. queue' \in Seq(Ops)
      <3>1. queue \in Seq(Ops)
        BY DEF TypeOK
      <3> QED BY <3>1, <1>3
    <2>3. Len(issued') <= MaxOps
      BY <1>1, DatabaseAssumption DEF NewOp, Ops
    <2> QED BY <1>1, <1>4, <2>1, <2>2, <2>3 DEF TypeOK, life, delay, server, told
  <1>6. References'
    <2>1. \A i \in 1..Len(queue)' : queue'[i] \in Runnable'
      <3>1. queue \in Seq(Ops) /\ \A i \in 1..Len(queue) : queue[i] \in Runnable
        BY DEF TypeOK, References
      <3>2. CASE queue' = queue
        BY <3>1, <3>2, <1>1
      <3>3. CASE kind # "none" /\ queue' = Append(queue, NewOp)
        BY <3>1, <3>3, <1>1
      <3> QED BY <3>2, <3>3, <1>3
    <2>2. \A e \in Executors : job'[e] # Idle => job'[e].op \in Runnable'
      BY <1>1, <1>2, <1>3 DEF References, TypeOK
    <2>3. /\ open' \subseteq (Known' \X (1..MaxLen)) /\ durable' \subseteq (Known' \X (1..MaxLen))
          /\ promised' \subseteq Known'
      BY <1>1, <1>4 DEF References, server, told
    <2>4. \A n \in Known' : issued'[n].kind \in {"write", "direct"} => issued'[n].len = 1
      BY <1>1 DEF References
    <2> QED BY <2>1, <2>2, <2>3, <2>4 DEF References
  <1>7. Exclusive'
    <2>1. ASSUME NEW e \in Executors, job'[e].step \in Held PROVE holder' = e
      <3>1. job'[e] = job[e]
        BY <2>1, <1>2, <1>3 DEF Held, TypeOK
      <3> QED BY <2>1, <3>1, <1>4 DEF Exclusive
    <2> QED BY <2>1, <1>4 DEF Exclusive, Held, server
  <1>8. ASSUME NEW e \in Executors PROVE Stage(e)'
    <2>1. CASE job'[e] = job[e]
      <3>1. job[e] # Idle => job[e].op \in Known
        BY DEF References, Runnable
      <3> QED BY <2>1, <3>1, <1>1, <1>4, StageKept DEF Stages
    <2>2. CASE job'[e] # job[e]
      <3>1. job'[e] = [op |-> NewOp, step |-> "lock", k |-> 1, ok |-> TRUE]
        BY <2>2, <1>2, <1>3 DEF TypeOK
      <3> QED BY <3>1 DEF Stage, At
    <2> QED BY <2>1, <2>2
  <1>9. TransactionsWhole'
    <2>1. ASSUME NEW n \in Known
          PROVE  (Statements(n) \subseteq durable \/ Statements(n) \cap durable = {})'
      BY <1>1, <1>4 DEF TransactionsWhole, server
    <2>2. ASSUME NEW n \in Known', n \notin Known
          PROVE  (Statements(n) \cap durable = {})'
      BY <2>2, <1>4 DEF References, Statements, server
    <2> QED BY <1>1, <2>1, <2>2 DEF TransactionsWhole, Statements
  <1>10. ReportedDurable'
    BY <1>1, <1>4 DEF ReportedDurable, References, server, told
  <1> QED BY <1>5, <1>6, <1>7, <1>8, <1>9, <1>10 DEF Stages

\* What TypeOK and the bound say of the transactions under way
LEMMA SlotFacts ==
  ASSUME TypeOK
  PROVE  /\ IsFiniteSet(Slots) /\ Cardinality(Slots) \in Nat
         /\ Len(issued) \in Nat /\ MaxOps \in Nat
         /\ slot \in [Threads -> NoTrans..MaxLen]
  <1>1. IsFiniteSet(Slots)
    BY ThreadsFinite, FS_Subset DEF Slots
  <1> QED BY <1>1, FS_CardinalityType, DatabaseAssumption DEF TypeOK

\* CommitTransaction, CommitTransactionChecked, RollbackTransaction: the
\* number that was kept for the transaction is used.
LEMMA SlotReleased ==
  ASSUME TypeOK, Bounded, NEW t \in Threads, slot[t] # NoTrans,
         slot' = [slot EXCEPT ![t] = NoTrans], Len(issued') = Len(issued) + 1
  PROVE  Bounded' /\ NewOp \in Ops /\ slot' \in [Threads -> NoTrans..MaxLen]
  <1>1. Slots' = Slots \ {t} /\ t \in Slots
    BY DEF Slots, TypeOK
  <1>2. Cardinality(Slots') = Cardinality(Slots) - 1
    BY <1>1, SlotFacts, FS_RemoveElement
  <1>3. Bounded' /\ NewOp \in Ops
    BY <1>2, SlotFacts, FS_RemoveElement, FS_CardinalityType, <1>1 DEF Bounded, NewOp, Ops
  <1> QED BY <1>3, SlotFacts, DatabaseAssumption DEF NoTrans

\* Execute, DirectExecute, AsyncQuery, BeginTransaction: there is room.
LEMMA RoomLeft ==
  ASSUME TypeOK, Room
  PROVE  NewOp \in Ops /\ Len(issued) + Cardinality(Slots) < MaxOps
  BY SlotFacts DEF Room, Slots, NewOp, Ops

LEMMA SlotKept ==
  ASSUME TypeOK, Room, slot' = slot, Len(issued') = Len(issued) + 1
  PROVE  Bounded' /\ NewOp \in Ops /\ slot' \in [Threads -> NoTrans..MaxLen]
  <1>1. Slots' = Slots
    BY DEF Slots
  <1> QED BY <1>1, RoomLeft, SlotFacts DEF Bounded

LEMMA SlotTaken ==
  ASSUME TypeOK, NEW t \in Threads, slot[t] = NoTrans, Room,
         slot' = [slot EXCEPT ![t] = 0], issued' = issued
  PROVE  Bounded' /\ slot' \in [Threads -> NoTrans..MaxLen]
  <1>1. Slots' = Slots \cup {t} /\ t \notin Slots
    BY SlotFacts DEF Slots, NoTrans
  <1>2. Cardinality(Slots') = Cardinality(Slots) + 1
    BY <1>1, SlotFacts, FS_AddElement
  <1> QED BY <1>2, RoomLeft, SlotFacts, DatabaseAssumption DEF Bounded, NoTrans

\* Where an operation is issued, Len(issued) is one more.
LEMMA Longer ==
  ASSUME TypeOK, NEW kind \in Kinds, NEW len \in 0..MaxLen, Issue(kind, len)
  PROVE  Len(issued') = Len(issued) + 1
  BY Prefix

\* A step of an executor, or any other, that issues nothing and leaves the
\* operations, the executors and the server alone
LEMMA QuietInv ==
  ASSUME Inv, TypeOK', Bounded',
         UNCHANGED <<queue, job, holder, server, issued, promised>>
  PROVE  Inv'
  <1> USE DEF Inv
  <1>1. \A n : Statements(n)' = Statements(n)
    BY DEF Statements
  <1>2. References' /\ Exclusive'
    BY DEF References, Exclusive, Known, Runnable, server
  <1>3. ASSUME NEW e \in Executors PROVE Stage(e)'
    BY <1>1, StageKept DEF Stages
  <1>4. TransactionsWhole' /\ ReportedDurable'
    BY <1>1 DEF TransactionsWhole, ReportedDurable, server
  <1> QED BY <1>2, <1>3, <1>4 DEF Stages

LEMMA CallerInv ==
  ASSUME Inv, NEW t \in Threads, Caller(t)
  PROVE  Inv'
  <1> USE DEF Inv
  <1>0. /\ slot \in [Threads -> NoTrans..MaxLen] /\ parked \in [Threads -> Ops \cup {0}]
        /\ job[t] = Idle
    BY DEF TypeOK, Caller, BeginTransaction, ExecuteInTransaction, Execute, DirectExecute,
           CommitTransaction, CommitTransactionChecked, RollbackTransaction, AsyncQuery,
           Acting
  <1>1. CASE BeginTransaction(t)
    <2>1. Bounded' /\ slot' \in [Threads -> NoTrans..MaxLen]
      BY <1>1, SlotTaken DEF BeginTransaction
    <2>2. TypeOK'
      BY <1>1, <2>1 DEF BeginTransaction, TypeOK, issuing, life, delay, server, told
    <2> QED BY <1>1, <2>1, <2>2, QuietInv DEF BeginTransaction, issuing, told
  <1>2. CASE ExecuteInTransaction(t)
    <2>1. slot' \in [Threads -> NoTrans..MaxLen] /\ Slots' = Slots
      BY <1>2, <1>0, DatabaseAssumption DEF ExecuteInTransaction, Slots, NoTrans
    <2>2. TypeOK'
      BY <1>2, <2>1 DEF ExecuteInTransaction, TypeOK, issuing, life, delay, server, told
    <2>3. Bounded'
      BY <1>2, <2>1 DEF ExecuteInTransaction, Bounded
    <2> QED BY <1>2, <2>2, <2>3, QuietInv DEF ExecuteInTransaction, issuing, told
  <1>3. CASE Execute(t)
    <2>1. Accept(t, "write", 1) /\ Room /\ slot' = slot /\ parked' = parked
      BY <1>3, <1>0 DEF Execute, Accept, issuing
    <2>2. "write" \in Kinds /\ 1 \in 0..MaxLen
      BY DatabaseAssumption DEF Kinds
    <2> QED BY <1>0, <2>1, <2>2, Longer, SlotKept, AcceptInv DEF Accept
  <1>4. CASE DirectExecute(t)
    <2>1. Accept(t, "direct", 1) /\ Room /\ slot' = slot /\ parked' = parked
      BY <1>4, <1>0 DEF DirectExecute, Accept, issuing
    <2>2. "direct" \in Kinds /\ 1 \in 0..MaxLen
      BY DatabaseAssumption DEF Kinds
    <2> QED BY <1>0, <2>1, <2>2, Longer, SlotKept, AcceptInv DEF Accept
  <1>5. CASE CommitTransaction(t)
    <2>1. /\ Accept(t, "transaction", slot[t]) /\ parked' = parked
          /\ slot[t] # NoTrans /\ slot' = [slot EXCEPT ![t] = NoTrans]
      BY <1>5, <1>0 DEF CommitTransaction, Accept, issuing
    <2>2. "transaction" \in Kinds /\ slot[t] \in 0..MaxLen
      BY <1>0, <2>1, DatabaseAssumption DEF Kinds, NoTrans
    <2>3. Bounded' /\ NewOp \in Ops /\ slot' \in [Threads -> NoTrans..MaxLen]
      BY <2>1, <2>2, Longer, SlotReleased DEF Accept
    <2> QED BY <1>0, <2>1, <2>2, <2>3, AcceptInv
  <1>6. CASE CommitTransactionChecked(t)
    <2>1. /\ Accept(t, "checked", slot[t])
          /\ parked' = parked \/ parked' = [parked EXCEPT ![t] = NewOp]
          /\ slot[t] # NoTrans /\ slot' = [slot EXCEPT ![t] = NoTrans]
      BY <1>6, <1>0 DEF CommitTransactionChecked, Accept, issuing
    <2>2. "checked" \in Kinds /\ slot[t] \in 0..MaxLen
      BY <1>0, <2>1, DatabaseAssumption DEF Kinds, NoTrans
    <2>3. Bounded' /\ NewOp \in Ops /\ slot' \in [Threads -> NoTrans..MaxLen]
      BY <2>1, <2>2, Longer, SlotReleased DEF Accept
    <2>4. parked' \in [Threads -> Ops \cup {0}]
      BY <1>0, <2>1, <2>3
    <2> QED BY <2>1, <2>2, <2>3, <2>4, AcceptInv
  <1>7. CASE RollbackTransaction(t)
    <2>1. /\ Accept(t, "none", 0) /\ parked' = parked
          /\ slot[t] # NoTrans /\ slot' = [slot EXCEPT ![t] = NoTrans]
      BY <1>7, <1>0 DEF RollbackTransaction, Accept, issuing
    <2>2. "none" \in Kinds /\ 0 \in 0..MaxLen
      BY DatabaseAssumption DEF Kinds
    <2>3. Bounded' /\ NewOp \in Ops /\ slot' \in [Threads -> NoTrans..MaxLen]
      BY <2>1, <2>2, Longer, SlotReleased DEF Accept
    <2> QED BY <1>0, <2>1, <2>2, <2>3, AcceptInv
  <1>8. CASE AsyncQuery(t)
    <2>1. Accept(t, "query", 0) /\ Room /\ slot' = slot /\ parked' = parked
      BY <1>8, <1>0 DEF AsyncQuery, Accept, issuing
    <2>2. "query" \in Kinds /\ 0 \in 0..MaxLen
      BY DatabaseAssumption DEF Kinds
    <2> QED BY <1>0, <2>1, <2>2, Longer, SlotKept, AcceptInv DEF Accept
  <1> QED BY <1>1, <1>2, <1>3, <1>4, <1>5, <1>6, <1>7, <1>8 DEF Caller
-----------------------------------------------------------------------------
(* Executing an operation.                                                 *)

\* What is known of an executor that is not idle
LEMMA JobFacts ==
  ASSUME Inv, NEW e \in Executors, job[e].step \in Steps
  PROVE  /\ job[e] \in Job /\ job[e] # Idle /\ job[e].op \in Known /\ job[e].op \in Ops
         /\ Op(e) \in [kind : Kinds, len : 0..MaxLen]
         /\ Op(e).kind \in {"write", "direct"} => Op(e).len = 1
         /\ Op(e).kind # "none"
         /\ DOMAIN issued = Known /\ Len(issued) \in Nat
         /\ Statements(job[e].op) = {job[e].op} \X (1..Op(e).len)
         /\ Statements(job[e].op) \subseteq (Known \X (1..MaxLen))
         /\ Stage(e)
  <1> USE DEF Inv
  <1>1. job[e] \in Job /\ job[e] # Idle
    BY DEF TypeOK, Idle, Steps
  <1>2. job[e].op \in Known /\ job[e].op \in Ops
    BY <1>1 DEF References, Job, Runnable
  <1>3. /\ Op(e) \in [kind : Kinds, len : 0..MaxLen]
        /\ DOMAIN issued = Known /\ Len(issued) \in Nat
    <2>1. issued \in Seq([kind : Kinds, len : 0..MaxLen])
      BY DEF TypeOK
    <2>2. DOMAIN issued = Known /\ Len(issued) \in Nat
      BY <2>1 DEF Known
    <2>3. issued[job[e].op] \in [kind : Kinds, len : 0..MaxLen]
      <3>1. \A S : issued \in Seq(S) => \A i \in 1..Len(issued) : issued[i] \in S
        OBVIOUS
      <3> QED BY <3>1, <2>1, <1>2 DEF Known
    <2> QED BY <2>2, <2>3 DEF Op
  <1>4. Op(e).kind \in {"write", "direct"} => Op(e).len = 1
    BY <1>2 DEF References, Op
  <1>7. Op(e).kind # "none"
    BY <1>1 DEF References, Op, Runnable
  <1>5. Statements(job[e].op) = {job[e].op} \X (1..Op(e).len)
    BY DEF Statements, Op
  <1>6. Statements(job[e].op) \subseteq (Known \X (1..MaxLen))
    BY <1>2, <1>3, <1>5, DatabaseAssumption
  <1> QED BY <1>1, <1>2, <1>3, <1>4, <1>5, <1>6, <1>7 DEF Stages

\* Nobody else is past the lock.
LEMMA OthersWait ==
  ASSUME Inv, NEW e \in Executors, job[e].step \in Held \/ holder = Nobody,
         NEW f \in Executors, f # e
  PROVE  job[f].step \notin Held
  BY DatabaseAssumption DEF Inv, Exclusive

\* A step of the executor e in terms of what it may do to the rest
LEMMA StepInv ==
  ASSUME Inv, NEW e \in Executors, job[e].step \in Held \/ holder = Nobody,
         UNCHANGED <<queue, slot, issued>>,
         \A f \in Executors : f # e => job'[f] = job[f],
         job'[e] # Idle => job'[e].op = job[e].op,
         job[e] # Idle,
         job'[e].step \in Held => holder' = e,
         inTrans' => holder' # Nobody,
         ~inTrans' => open' = {},
         open' \subseteq (Known \X (1..MaxLen)), durable' \subseteq (Known \X (1..MaxLen)),
         promised' \subseteq Known,
         TypeOK', Stage(e)', TransactionsWhole', ReportedDurable'
  PROVE  Inv'
  <1>1. \A f \in Executors : f # e => job[f].step \notin Held
    BY OthersWait
  <1>2. Bounded'
    BY DEF Inv, Bounded, Slots
  <1>3. References'
    BY DEF Inv, References, Known, Runnable
  <1>4. Exclusive'
    BY <1>1 DEF Inv, Exclusive
  <1>5. ASSUME NEW f \in Executors, f # e PROVE Stage(f)'
    BY <1>1, <1>5 DEF Inv, Stages, Stage, At, Held
  <1> QED BY <1>2, <1>3, <1>4, <1>5 DEF Inv, Stages

\* The same where the server is not asked anything
LEMMA SameServer ==
  ASSUME Inv, issued' = issued, UNCHANGED <<durable, promised>>
  PROVE  TransactionsWhole' /\ ReportedDurable'
  BY DEF Inv, TransactionsWhole, ReportedDurable, Statements

\* Durable statements stay, and they are added operation by operation.
LEMMA Added ==
  ASSUME Inv, NEW e \in Executors, job[e].step \in Steps,
         issued' = issued, promised' = promised,
         durable' = durable \cup Statements(job[e].op)
  PROVE  /\ TransactionsWhole' /\ ReportedDurable'
         /\ durable' \subseteq (Known \X (1..MaxLen))
  <1>1. \A n : Statements(n)' = Statements(n)
    BY DEF Statements
  <1>2. ASSUME NEW n \in DOMAIN issued
        PROVE  Statements(n) \subseteq durable' \/ Statements(n) \cap durable' = {}
    <2>1. CASE n = job[e].op
      BY <2>1
    <2>2. CASE n # job[e].op
      <3>1. Statements(n) \cap Statements(job[e].op) = {}
        BY <2>2 DEF Statements
      <3> QED BY <3>1 DEF Inv, TransactionsWhole
    <2> QED BY <2>1, <2>2
  <1>3. TransactionsWhole'
    BY <1>1, <1>2 DEF TransactionsWhole
  <1>4. ReportedDurable'
    BY <1>1 DEF Inv, ReportedDurable
  <1> QED BY <1>3, <1>4, JobFacts DEF Inv, References

\* The types after a step of an executor
LEMMA JobType ==
  ASSUME TypeOK, NEW e \in Executors, UNCHANGED <<issuer, answered>>,
         results' \in Seq(Ops), ran' \subseteq Ops, promised' \subseteq Ops,
         job' \in [Executors -> Job \cup {Idle}], holder' \in Executors \cup {Nobody},
         inTrans' \in BOOLEAN, open' \subseteq (Known \X (1..MaxLen)),
         durable' \subseteq (Known \X (1..MaxLen))
  PROVE  TypeOK'
  <1>1. Known \subseteq Ops
    BY DatabaseAssumption DEF TypeOK, Known, Ops
  <1> QED BY <1>1 DEF TypeOK, issuer, life, delay

LEMMA GotoFacts ==
  ASSUME Inv, NEW e \in Executors, job[e].step \in Steps, NEW step \in Steps, Goto(e, step)
  PROVE  /\ job' \in [Executors -> Job \cup {Idle}]
         /\ \A f \in Executors : f # e => job'[f] = job[f]
         /\ job'[e].op = job[e].op /\ job'[e].step = step /\ job'[e].k = job[e].k
         /\ job'[e].ok = job[e].ok
  <1>1. job \in [Executors -> Job \cup {Idle}] /\ job[e] \in Job
    BY JobFacts DEF Inv, TypeOK
  <1>2. [job[e] EXCEPT !.step = step] \in Job
    BY <1>1 DEF Job
  <1> QED BY <1>1, <1>2 DEF Goto, Job

LEMMA FailFacts ==
  ASSUME Inv, NEW e \in Executors, job[e].step \in Steps, NEW step \in Steps, Fail(e, step)
  PROVE  /\ job' \in [Executors -> Job \cup {Idle}]
         /\ \A f \in Executors : f # e => job'[f] = job[f]
         /\ job'[e].op = job[e].op /\ job'[e].step = step /\ job'[e].ok = FALSE
  <1>1. job \in [Executors -> Job \cup {Idle}] /\ job[e] \in Job
    BY JobFacts DEF Inv, TypeOK
  <1>2. [job[e] EXCEPT !.step = step, !.ok = FALSE] \in Job
    BY <1>1 DEF Job
  <1> QED BY <1>1, <1>2 DEF Fail, Job

LEMMA TakeConnectionInv ==
  ASSUME Inv, NEW e \in Executors, TakeConnection(e)
  PROVE  Inv'
  <1> USE DEF TakeConnection
  <1>0. job[e].step \in Steps /\ job[e].step = "lock" /\ holder = Nobody
    BY DEF At, Steps
  <1>1. /\ job[e] \in Job /\ job[e] # Idle /\ job[e].op \in Known /\ job[e].op \in Ops
        /\ Op(e) \in [kind : Kinds, len : 0..MaxLen]
        /\ Op(e).kind \in {"write", "direct"} => Op(e).len = 1
        /\ Statements(job[e].op) = {job[e].op} \X (1..Op(e).len)
        /\ Stage(e)
    BY <1>0, JobFacts
  <1>2. ~inTrans /\ open = {}
    BY <1>0 DEF Inv, Exclusive
  <1>3. PICK step \in {"run", "begin", "finish"} :
          /\ Goto(e, step)
          /\ step = (IF ~IsTransaction(e) THEN "run" ELSE IF Op(e).len = 0 THEN "finish" ELSE "begin")
    OBVIOUS
  <1>4. /\ job' \in [Executors -> Job \cup {Idle}]
        /\ \A f \in Executors : f # e => job'[f] = job[f]
        /\ job'[e].op = job[e].op /\ job'[e].step = step /\ job'[e].k = job[e].k
    BY <1>0, <1>3, GotoFacts DEF Goto, Steps
  <1>5. Op(e)' = Op(e) /\ IsTransaction(e)' = IsTransaction(e)
        /\ Statements(job[e].op)' = Statements(job[e].op)
    BY <1>4 DEF Op, IsTransaction, Statements, issuer
  <1>6. Stage(e)'
    <2>1. job[e].k = 1
      BY <1>0, <1>1 DEF Stage, At
    <2>2. CASE step = "run"
      BY <2>1, <2>2, <1>2, <1>3, <1>4, <1>5 DEF Stage, At, server
    <2>3. CASE step = "begin"
      BY <2>1, <2>3, <1>2, <1>3, <1>4, <1>5 DEF Stage, At, server
    <2>4. CASE step = "finish"
      <3>1. Statements(job[e].op) = {}
        BY <2>4, <1>1, <1>3
      <3>2. (Statements(job[e].op) \subseteq durable)' /\ ~inTrans'
        BY <3>1, <1>2, <1>5 DEF server
      <3> QED BY <2>4, <3>2, <1>4, <1>5 DEF Stage, At
    <2> QED BY <2>2, <2>3, <2>4
  <1>7. TypeOK'
    BY <1>1, <1>4, JobType DEF Inv, TypeOK, References, server, told
  <1>8. TransactionsWhole' /\ ReportedDurable'
    BY SameServer DEF issuer, server, told
  <1> QED
    BY <1>0, <1>1, <1>2, <1>4, <1>6, <1>7, <1>8, StepInv, DatabaseAssumption
    DEF issuer, server, told, Inv, References

LEMMA BeginInv ==
  ASSUME Inv, NEW e \in Executors, Begin(e) \/ BeginFails(e)
  PROVE  Inv'
  <1> USE DEF Begin, BeginFails
  <1>0. job[e].step = "begin" /\ job[e].step \in Steps /\ job[e].step \in Held
    BY DEF At, Steps, Held
  <1>1. /\ job[e] # Idle /\ job[e].op \in Known
        /\ Op(e) \in [kind : Kinds, len : 0..MaxLen] /\ Stage(e)
    BY <1>0, JobFacts
  <1>2. /\ ~inTrans /\ open = {} /\ holder = e
        /\ IsTransaction(e) /\ Op(e).len # 0 /\ job[e].k = 1
    BY <1>0, <1>1 DEF Inv, Exclusive, Stage, At
  <1>3. UNCHANGED <<issuer, results, holder, ran, told, durable>> /\ open' = {}
    BY <1>2 DEF server
  <1>4. CASE Begin(e)
    <2>1. /\ job' \in [Executors -> Job \cup {Idle}]
          /\ \A f \in Executors : f # e => job'[f] = job[f]
          /\ job'[e].op = job[e].op /\ job'[e].step = "run" /\ job'[e].k = job[e].k
      BY <1>0, <1>4, GotoFacts DEF Goto, Steps
    <2>2. Op(e)' = Op(e) /\ IsTransaction(e)'
      BY <2>1, <1>2, <1>3 DEF Op, IsTransaction, issuer
    <2>3. Stage(e)'
      BY <2>1, <2>2, <1>1, <1>2, <1>4 DEF Stage, At
    <2>4. TypeOK'
      BY <2>1, <1>3, <1>4, JobType DEF Inv, TypeOK, References, told
    <2> QED
      BY <1>0, <1>1, <1>2, <1>3, <1>4, <2>1, <2>3, <2>4, SameServer, StepInv, DatabaseAssumption
      DEF issuer, told, Inv, References
  <1>5. CASE BeginFails(e)
    <2>1. /\ job' \in [Executors -> Job \cup {Idle}]
          /\ \A f \in Executors : f # e => job'[f] = job[f]
          /\ job'[e].op = job[e].op /\ job'[e].step = "finish" /\ job'[e].ok = FALSE
      BY <1>0, <1>5, FailFacts DEF Steps
    <2>2. Stage(e)' /\ inTrans' = inTrans
      BY <2>1, <1>2, <1>5 DEF Stage, At, server
    <2>4. TypeOK'
      BY <2>1, <2>2, <1>3, JobType DEF Inv, TypeOK, References, told
    <2> QED
      BY <1>0, <1>1, <1>2, <1>3, <2>1, <2>2, <2>4, SameServer, StepInv, DatabaseAssumption
      DEF issuer, told, Inv, References
  <1> QED BY <1>4, <1>5

LEMMA StatementSucceedsInv ==
  ASSUME Inv, NEW e \in Executors, StatementSucceeds(e)
  PROVE  Inv'
  <1> USE DEF StatementSucceeds
  <1>0. job[e].step = "run" /\ job[e].step \in Steps /\ job[e].step \in Held
    BY DEF At, Steps, Held
  <1>1. /\ job[e] \in Job /\ job[e] # Idle /\ job[e].op \in Known /\ job[e].op \in Ops
        /\ Op(e) \in [kind : Kinds, len : 0..MaxLen]
        /\ Op(e).kind \in {"write", "direct"} => Op(e).len = 1
        /\ Op(e).kind # "none"
        /\ Statements(job[e].op) = {job[e].op} \X (1..Op(e).len)
        /\ Stage(e)
    BY <1>0, JobFacts
  <1>2. holder = e
    BY <1>0 DEF Inv, Exclusive
  <1>3. UNCHANGED <<issuer, results, holder, inTrans, ran, told>>
    OBVIOUS
  <1>4. job \in [Executors -> Job \cup {Idle}] /\ MaxLen \in Nat \ {0}
    BY DatabaseAssumption DEF Inv, TypeOK
  <1>5. CASE IsTransaction(e)
    <2>1. /\ job[e].k \in 1..Op(e).len /\ inTrans
          /\ open = {job[e].op} \X (1..job[e].k - 1)
      BY <1>0, <1>1, <1>5 DEF Stage, At
    <2>2. /\ durable' = durable
          /\ open' = {job[e].op} \X (1..job[e].k)
      BY <2>1
    <2>3. PICK step \in {"commit", "run"} :
            /\ step = (IF job[e].k = Op(e).len THEN "commit" ELSE "run")
            /\ job' = [job EXCEPT ![e].step = step, ![e].k = @ + 1]
      BY <1>5 DEF AfterStatement
    <2>4. job[e].k + 1 \in 1..MaxLen + 1
      BY <2>1, <1>1, <1>4
    <2>5. [job[e] EXCEPT !.step = step, !.k = @ + 1] \in Job
      BY <2>4, <1>1 DEF Job, Steps
    <2>6. /\ job' \in [Executors -> Job \cup {Idle}]
          /\ \A f \in Executors : f # e => job'[f] = job[f]
          /\ job'[e].op = job[e].op /\ job'[e].step = step /\ job'[e].k = job[e].k + 1
      BY <2>3, <2>5, <1>4, <1>1 DEF Job
    <2>7. Op(e)' = Op(e) /\ IsTransaction(e)' /\ inTrans'
          /\ Statements(job[e].op)' = Statements(job[e].op)
      BY <2>1, <2>6, <1>3, <1>5 DEF Op, IsTransaction, Statements, issuer
    <2>8. Stage(e)'
      <3>1. CASE step = "commit"
        <4>1. open' = Statements(job[e].op)
          BY <3>1, <2>2, <2>3, <1>1
        <4> QED BY <3>1, <4>1, <2>6, <2>7 DEF Stage, At
      <3>2. CASE step = "run"
        <4>1. job[e].k + 1 \in 1..Op(e).len /\ (job[e].k + 1) - 1 = job[e].k
          BY <3>2, <2>1, <2>3, <1>1
        <4> QED BY <3>2, <4>1, <2>2, <2>6, <2>7 DEF Stage, At
      <3> QED BY <3>1, <3>2
    <2>9. open' \subseteq (Known \X (1..MaxLen))
      BY <2>1, <2>2, <1>1, <1>4
    <2>10. TypeOK'
      BY <2>2, <2>6, <2>9, <1>3, JobType DEF Inv, TypeOK, References, told
    <2> QED
      BY <1>0, <1>1, <1>2, <1>3, <2>2, <2>6, <2>7, <2>8, <2>9, <2>10, SameServer, StepInv, DatabaseAssumption
      DEF issuer, told, Inv, References
  <1>6. CASE ~IsTransaction(e)
    <2>1. job[e].k = 1 /\ ~inTrans
      BY <1>0, <1>1, <1>6 DEF Stage, At
    <2>2. open' = open /\ durable' = durable \cup {<<job[e].op, 1>>}
      BY <2>1
    <2>3. job' = [job EXCEPT ![e].step = "finish", ![e].k = @ + 1]
      BY <1>6 DEF AfterStatement
    <2>4. [job[e] EXCEPT !.step = "finish", !.k = @ + 1] \in Job
      BY <2>1, <1>1, <1>4 DEF Job, Steps
    <2>5. /\ job' \in [Executors -> Job \cup {Idle}]
          /\ \A f \in Executors : f # e => job'[f] = job[f]
          /\ job'[e].op = job[e].op /\ job'[e].step = "finish"
      BY <2>3, <2>4, <1>4, <1>1 DEF Job
    <2>6. Op(e)' = Op(e) /\ Statements(job[e].op)' = Statements(job[e].op)
      BY <2>5, <1>3 DEF Op, Statements, issuer
    <2>7. Op(e).kind \in {"write", "direct"}
      BY <1>6, <1>1 DEF IsTransaction, Kinds
    <2>8. {<<job[e].op, 1>>} = Statements(job[e].op)
      BY <2>7, <1>1
    <2>9. /\ TransactionsWhole' /\ ReportedDurable'
          /\ durable' \subseteq (Known \X (1..MaxLen))
      BY <2>2, <2>8, <1>0, <1>3, Added DEF issuer, told
    <2>10. Stage(e)'
      BY <2>1, <2>2, <2>5, <2>6, <2>8, <1>3 DEF Stage, At
    <2>11. TypeOK'
      BY <2>2, <2>5, <2>9, <1>3, JobType DEF Inv, TypeOK, References, told
    <2> QED
      BY <1>0, <1>1, <1>2, <1>3, <2>1, <2>2, <2>5, <2>9, <2>10, <2>11, StepInv, DatabaseAssumption
      DEF issuer, told, Inv, Exclusive, References
  <1> QED BY <1>5, <1>6

LEMMA StatementFailsInv ==
  ASSUME Inv, NEW e \in Executors, StatementFails(e)
  PROVE  Inv'
  <1> USE DEF StatementFails
  <1>0. job[e].step = "run" /\ job[e].step \in Steps /\ job[e].step \in Held
    BY DEF At, Steps, Held
  <1>1. job[e] # Idle /\ job[e].op \in Known /\ Stage(e) /\ holder = e
    BY <1>0, JobFacts DEF Inv, Exclusive
  <1>2. PICK step \in {"rollback", "finish"} :
          Fail(e, step) /\ step = (IF IsTransaction(e) THEN "rollback" ELSE "finish")
    BY DEF AfterFailure
  <1>3. /\ job' \in [Executors -> Job \cup {Idle}]
        /\ \A f \in Executors : f # e => job'[f] = job[f]
        /\ job'[e].op = job[e].op /\ job'[e].step = step /\ job'[e].ok = FALSE
    BY <1>0, <1>2, FailFacts DEF Steps
  <1>4. UNCHANGED server /\ (step = "finish" => ~inTrans)
    BY <1>0, <1>1, <1>2 DEF Stage, At
  <1>5. Stage(e)'
    BY <1>2, <1>3, <1>4 DEF Stage, At, server
  <1>6. TypeOK'
    BY <1>3, JobType DEF Inv, TypeOK, References, told, server
  <1> QED
    BY <1>0, <1>1, <1>3, <1>5, <1>6, SameServer, StepInv, DatabaseAssumption
    DEF issuer, told, server, Inv, References, Exclusive

LEMMA QueryInv ==
  ASSUME Inv, NEW e \in Executors, Query(e)
  PROVE  Inv'
  <1> USE DEF Query
  <1>0. job[e].step = "run" /\ job[e].step \in Steps /\ job[e].step \in Held
    BY DEF At, Steps, Held
  <1>1. /\ job[e] # Idle /\ job[e].op \in Known /\ job[e].op \in Ops /\ Stage(e) /\ holder = e
        /\ ~IsTransaction(e)
    BY <1>0, JobFacts DEF Inv, Exclusive, IsTransaction
  <1>2. /\ job' \in [Executors -> Job \cup {Idle}]
        /\ \A f \in Executors : f # e => job'[f] = job[f]
        /\ job'[e].op = job[e].op /\ job'[e].step = "finish"
    BY <1>0, GotoFacts DEF Steps
  <1>3. ~inTrans /\ ~inTrans' /\ UNCHANGED server
    BY <1>0, <1>1 DEF Stage, At, server
  <1>4. (Op(e).kind = "query")'
    BY <1>2 DEF Op, issuer
  <1>5. Stage(e)'
    BY <1>2, <1>3, <1>4 DEF Stage, At
  <1>6. TypeOK'
    <2>1. results' \in Seq(Ops)
      BY <1>1 DEF Inv, TypeOK
    <2> QED BY <2>1, <1>2, JobType DEF Inv, TypeOK, References, told, server
  <1> QED
    BY <1>0, <1>1, <1>2, <1>3, <1>5, <1>6, SameServer, StepInv, DatabaseAssumption
    DEF issuer, told, server, Inv, References, Exclusive

LEMMA RollbackInv ==
  ASSUME Inv, NEW e \in Executors, Rollback(e)
  PROVE  Inv'
  <1> USE DEF Rollback
  <1>0. job[e].step = "rollback" /\ job[e].step \in Steps /\ job[e].step \in Held
    BY DEF At, Steps, Held
  <1>1. job[e] # Idle /\ job[e].op \in Known /\ Stage(e) /\ holder = e
    BY <1>0, JobFacts DEF Inv, Exclusive
  <1>2. /\ job' \in [Executors -> Job \cup {Idle}]
        /\ \A f \in Executors : f # e => job'[f] = job[f]
        /\ job'[e].op = job[e].op /\ job'[e].step = "finish" /\ job'[e].ok = job[e].ok
    BY <1>0, GotoFacts DEF Steps
  <1>3. ~job[e].ok
    BY <1>0, <1>1 DEF Stage, At
  <1>4. Stage(e)'
    BY <1>2, <1>3 DEF Stage, At
  <1>5. TypeOK'
    BY <1>2, JobType DEF Inv, TypeOK, References, told
  <1> QED
    BY <1>0, <1>1, <1>2, <1>4, <1>5, SameServer, StepInv, DatabaseAssumption
    DEF issuer, told, Inv, References

LEMMA CommitInv ==
  ASSUME Inv, NEW e \in Executors, Commit(e) \/ CommitFails(e)
  PROVE  Inv'
  <1>0. job[e].step = "commit" /\ job[e].step \in Steps /\ job[e].step \in Held
    BY DEF At, Steps, Held, Commit, CommitFails
  <1>1. /\ job[e] # Idle /\ job[e].op \in Known /\ Stage(e) /\ holder = e
        /\ open = Statements(job[e].op)
    BY <1>0, JobFacts DEF Inv, Exclusive, Stage, At
  <1>2. /\ UNCHANGED <<issuer, results, holder, ran, told>>
        /\ inTrans' = FALSE /\ open' = {}
        /\ durable' = durable \/ durable' = durable \cup Statements(job[e].op)
    BY <1>1 DEF Commit, CommitFails
  <1>3. /\ job' \in [Executors -> Job \cup {Idle}]
        /\ \A f \in Executors : f # e => job'[f] = job[f]
        /\ job'[e].op = job[e].op /\ job'[e].step = "finish"
        /\ Commit(e) \/ job'[e].ok = FALSE
    BY <1>0, GotoFacts, FailFacts DEF Steps, Commit, CommitFails
  <1>4. Statements(job[e].op)' = Statements(job[e].op)
    BY <1>2, <1>3 DEF Statements, issuer
  <1>5. Stage(e)'
    <2>1. CASE Commit(e)
      <3>1. (Statements(job[e].op) \subseteq durable)'
        BY <2>1, <1>1, <1>4 DEF Commit
      <3> QED BY <3>1, <1>2, <1>3 DEF Stage, At
    <2>2. CASE job'[e].ok = FALSE
      BY <2>2, <1>2, <1>3 DEF Stage, At
    <2> QED BY <2>1, <2>2, <1>3
  <1>6. /\ TransactionsWhole' /\ ReportedDurable'
        /\ durable' \subseteq (Known \X (1..MaxLen))
    BY <1>0, <1>2, Added, SameServer DEF issuer, told, Inv, References
  <1>7. TypeOK'
    BY <1>2, <1>3, <1>6, JobType DEF Inv, TypeOK, told
  <1> QED
    BY <1>0, <1>1, <1>2, <1>3, <1>5, <1>6, <1>7, StepInv, DatabaseAssumption
    DEF issuer, told, Inv, References

LEMMA FinishInv ==
  ASSUME Inv, NEW e \in Executors, Finish(e)
  PROVE  Inv'
  <1> USE DEF Finish
  <1>0. job[e].step = "finish" /\ job[e].step \in Steps /\ job[e].step \in Held
    BY DEF At, Steps, Held
  <1>1. job[e] # Idle /\ job[e].op \in Known /\ job[e].op \in Ops /\ Stage(e) /\ ~inTrans
    BY <1>0, JobFacts DEF Stage, At
  <1>2. /\ job' \in [Executors -> Job \cup {Idle}]
        /\ \A f \in Executors : f # e => job'[f] = job[f]
        /\ job'[e] = Idle
    BY DEF Inv, TypeOK
  <1>3. parked' \in [Threads -> Ops \cup {0}]
    BY DEF Inv, TypeOK
  <1>4. promised' \subseteq Known /\ promised' \subseteq Ops
    BY <1>1 DEF Inv, References, TypeOK
  <1>5. ReportedDurable'
    <2>1. promised' = promised \/ /\ promised' = promised \cup {job[e].op}
                                  /\ Statements(job[e].op) \subseteq durable
      BY <1>0, <1>1 DEF Stage, At
    <2>2. \A n : Statements(n)' = Statements(n)
      BY DEF Statements
    <2> QED BY <2>1, <2>2 DEF ReportedDurable, Inv, server
  <1>6. TransactionsWhole'
    BY DEF TransactionsWhole, Inv, Statements, server
  <1>7. Stage(e)' /\ job'[e].step \notin Held
    BY <1>2 DEF Stage, At, Idle, Held
  <1>8. TypeOK'
    BY <1>2, <1>3, <1>4 DEF Inv, TypeOK, life, delay, server
  <1> QED
    BY <1>0, <1>1, <1>2, <1>4, <1>5, <1>6, <1>7, <1>8, StepInv
    DEF Inv, References, Exclusive, server
-----------------------------------------------------------------------------
(* The delay thread and the world thread.                                  *)

\* Taking an operation from the queue, on the delay thread or in the sweep
LEMMA TakeNextInv ==
  ASSUME Inv, NEW e \in Executors, TakeNext(e)
  PROVE  Inv'
  <1> USE DEF TakeNext
  <1>1. /\ queue \in Seq(Ops) /\ queue # <<>>
        /\ \A i \in 1..Len(queue) : queue[i] \in Runnable
    BY DEF Inv, TypeOK, References
  <1>2. Head(queue) = queue[1] /\ 1 \in 1..Len(queue)
    BY <1>1
  <1>3. /\ Head(queue) \in Ops /\ Head(queue) \in Runnable
        /\ queue' \in Seq(Ops)
        /\ \A i \in 1..Len(queue') : queue'[i] \in Runnable
    BY <1>1, <1>2
  <1>4. [op |-> Head(queue), step |-> "lock", k |-> 1, ok |-> TRUE] \in Job
    BY <1>3, DatabaseAssumption DEF Job, Steps
  <1>5. /\ job' \in [Executors -> Job \cup {Idle}]
        /\ \A f \in Executors : f # e => job'[f] = job[f]
        /\ job'[e] = [op |-> Head(queue), step |-> "lock", k |-> 1, ok |-> TRUE]
    BY <1>4 DEF Inv, TypeOK
  <1>6. TypeOK'
    BY <1>3, <1>5 DEF Inv, TypeOK, life, delay, server, told
  <1>7. Bounded'
    BY DEF Inv, Bounded, Slots
  <1>8. References'
    BY <1>3, <1>5 DEF Inv, References, Known, Runnable, server, told
  <1>9. Exclusive'
    BY <1>5 DEF Inv, Exclusive, Held, server
  <1>10. ASSUME NEW f \in Executors PROVE Stage(f)'
    <2>1. CASE f = e
      BY <2>1, <1>5 DEF Stage, At
    <2>2. CASE f # e
      <3>1. \A n : Statements(n)' = Statements(n)
        BY DEF Statements
      <3> QED BY <2>2, <3>1, <1>5, StageKept DEF Inv, Stages
    <2> QED BY <2>1, <2>2
  <1>11. TransactionsWhole' /\ ReportedDurable'
    BY SameServer DEF server, told
  <1> QED BY <1>6, <1>7, <1>8, <1>9, <1>10, <1>11 DEF Inv, Stages

LEMMA WorkerInv ==
  ASSUME Inv, DelayThread
  PROVE  Inv'
  <1>1. CASE WorkerLoop
    <2>1. TypeOK' /\ Bounded'
      BY <1>1 DEF WorkerLoop, idleStep, Inv, TypeOK, Bounded, Slots, life, server, told
    <2> QED BY <1>1, <2>1, QuietInv DEF WorkerLoop, idleStep, told
  <1>2. CASE WorkerTakes
    BY <1>2, TakeNextInv DEF WorkerTakes, Executors
  <1>3. CASE WorkerDrained
    <2>1. TypeOK' /\ Bounded'
      BY <1>3 DEF WorkerDrained, idleStep, Inv, TypeOK, Bounded, Slots, life, server, told
    <2> QED BY <1>3, <2>1, QuietInv DEF WorkerDrained, idleStep, told
  <1> QED BY <1>1, <1>2, <1>3 DEF DelayThread

LEMMA RunCallbackInv ==
  ASSUME Inv, RunCallback
  PROVE  Inv'
  <1> USE DEF RunCallback
  <1>1. results' \in Seq(Ops) /\ Head(results) \in Ops
    BY DEF Inv, TypeOK
  <1>2. TypeOK'
    BY <1>1 DEF Inv, TypeOK, life, delay, server
  <1>3. Bounded'
    BY DEF Inv, Bounded, Slots
  <1> QED BY <1>2, <1>3, QuietInv

\* The steps of the server's start and shutdown touch the phase only.
LEMMA PhaseInv ==
  ASSUME Inv,
         \/ AllowAsyncTransactions \/ BeginShutdown \/ Halt \/ Join \/ Swept \/ Drained
         \/ \E t \in Callers : CallerEnds(t)
  PROVE  Inv'
  <1>1. /\ phase' \in {"loading", "running", "closing", "halting", "sweeping", "final", "done"}
        /\ async' \in BOOLEAN /\ shutdown' \in BOOLEAN /\ running' \in BOOLEAN
        /\ gone' \subseteq Callers /\ worker' = worker
        /\ UNCHANGED <<slot, queue, results, job, parked, holder, server, issued, ran, told>>
    BY DEF Inv, TypeOK, AllowAsyncTransactions, BeginShutdown, Halt, Join, Swept, Drained,
           CallerEnds, exceptPhase, delay
  <1>2. TypeOK'
    BY <1>1 DEF Inv, TypeOK, server, told
  <1>3. Bounded'
    BY <1>1 DEF Inv, Bounded, Slots
  <1> QED BY <1>1, <1>2, <1>3, QuietInv DEF told
-----------------------------------------------------------------------------
LEMMA ExecutingInv ==
  ASSUME Inv, NEW e \in Executors, Executing(e)
  PROVE  Inv'
  BY TakeConnectionInv, BeginInv, StatementSucceedsInv, StatementFailsInv, QueryInv,
     RollbackInv, CommitInv, FinishInv DEF Executing

LEMMA StutterInv ==
  ASSUME Inv, UNCHANGED vars
  PROVE  Inv'
  <1>1. TypeOK' /\ Bounded'
    BY DEF Inv, TypeOK, Bounded, Slots, vars, life, delay, server, told
  <1> QED BY <1>1, QuietInv DEF vars, told

LEMMA NextInv == Inv /\ [Next]_vars => Inv'
  <1> SUFFICES ASSUME Inv, [Next]_vars PROVE Inv'
    OBVIOUS
  <1>1. ASSUME NEW t \in Threads, Caller(t) PROVE Inv'
    BY <1>1, CallerInv
  <1>2. ASSUME NEW e \in Executors, Executing(e) PROVE Inv'
    BY <1>2, ExecutingInv
  <1>3. CASE DelayThread
    BY <1>3, WorkerInv
  <1>4. CASE RunCallback
    BY <1>4, RunCallbackInv
  <1>5. CASE \/ AllowAsyncTransactions \/ BeginShutdown
             \/ \E t \in Callers : CallerEnds(t)
    BY <1>5, PhaseInv
  <1>6. CASE Stopping
    <2>1. CASE Sweep
      BY <2>1, TakeNextInv DEF Sweep, Executors, Threads
    <2>2. CASE Halt \/ Join \/ Swept \/ Drained
      BY <2>2, PhaseInv
    <2> QED BY <1>6, <2>1, <2>2 DEF Stopping
  <1>7. CASE UNCHANGED vars
    BY <1>7, StutterInv
  <1> QED BY <1>1, <1>2, <1>3, <1>4, <1>5, <1>6, <1>7 DEF Next

\* The inductive invariant holds of every behaviour of the database.
THEOREM Invariance == Spec => []Inv
  BY InitInv, NextInv, PTL DEF Spec

\* The fields of the database keep their types, and the bound on the number
\* of operations is kept although a transaction takes its number at its end.
THEOREM DatabaseTypeCorrect == Spec => []TypeOK
  <1>1. Inv => TypeOK
    BY DEF Inv
  <1> QED BY <1>1, Invariance, PTL

\* SqlTransaction::Execute: a transaction is durable as a whole or not at
\* all, whatever statement fails and whoever else uses the connection.
THEOREM AllOrNothing == Spec => []TransactionsWhole
  <1>1. Inv => TransactionsWhole
    BY DEF Inv
  <1> QED BY <1>1, Invariance, PTL

\* CommitTransactionChecked, DirectExecute: "true" is only said of what is
\* durable.
THEOREM DoneMeansDone == Spec => []ReportedDurable
  <1>1. Inv => ReportedDurable
    BY DEF Inv
  <1> QED BY <1>1, Invariance, PTL

\* SqlConnection::Lock: one executor at a time is past the mutex, and the
\* server has a transaction open only while somebody holds it.
THEOREM OneExecutor == Spec => []Exclusive
  <1>1. Inv => Exclusive
    BY DEF Inv
  <1> QED BY <1>1, Invariance, PTL
-----------------------------------------------------------------------------
(* The order of the writes, and what a shutdown leaves behind.             *)

Writes == {"write", "transaction", "checked"}

Queued(n)  == \E i \in 1..Len(queue) : queue[i] = n
Waiting(n) == Queued(n) \/ \E e \in Executors : At(e, "lock") /\ job[e].op = n

\* Which threads may have work, phase by phase
Phases ==
  /\ async <=> phase # "loading"
  /\ running <=> phase \in {"loading", "running", "closing"}
  /\ shutdown <=> phase \notin {"loading", "running"}
  /\ phase = "loading" => \A t \in Callers : job[t] = Idle
  /\ \A t \in gone : job[t] = Idle
  /\ phase \in {"halting", "sweeping", "final", "done"} => gone = Callers
  /\ worker # "drain" => job[Worker] = Idle
  /\ phase \in {"sweeping", "final", "done"} => worker = "ended"
  /\ phase \in {"final", "done"} => queue = <<>>
  /\ phase \in {"halting", "done"} => job[World] = Idle
  /\ phase = "done" => results = <<>>

\* The queue is in the order of issue, and what was not started is in it or
\* in the hands of a thread that waits for the connection.
Order ==
  /\ \A i, j \in 1..Len(queue) : i < j => queue[i] < queue[j]
  /\ ran \subseteq Known
  /\ \A n \in Runnable : n \notin ran => Waiting(n)

\* Everything but a direct statement waits for the connection behind no
\* earlier write.
Front ==
  \A e \in Executors : At(e, "lock") /\ Op(e).kind # "direct" =>
    \A w \in Known : w < job[e].op /\ issued[w].kind \in Writes => w \in ran

\* While the world is loaded, what is deferred are queries, and the world
\* thread executes what it issued last; afterwards a thread that executes for
\* itself executes a direct statement, or sweeps.
Paths ==
  /\ phase = "loading" =>
       /\ \A i \in 1..Len(queue) : issued[queue[i]].kind = "query"
       /\ job[Worker] # Idle => Op(Worker).kind = "query"
       /\ job[World] # Idle => \A i \in 1..Len(queue) : queue[i] < job[World].op
  /\ phase # "loading" =>
       \A t \in Threads : At(t, "lock") /\ Op(t).kind # "direct" =>
         t = World /\ phase = "sweeping"

\* A query that ran is answered, about to be, or still running; the commit a
\* thread is parked on is queued or executed.
Owed ==
  /\ \A n \in ran : issued[n].kind = "query" =>
       \/ n \in answered
       \/ \E i \in 1..Len(results) : results[i] = n
       \/ \E e \in Executors : At(e, "run") /\ job[e].op = n
  /\ \A t \in Threads : parked[t] # 0 =>
       Queued(parked[t]) \/ \E e \in Executors : job[e] # Idle /\ job[e].op = parked[t]

OInv == Phases /\ Order /\ Front /\ Paths /\ Owed

LEMMA InitOInv == Init => OInv
  <1> SUFFICES ASSUME Init PROVE OInv
    OBVIOUS
  <1> USE DEF Init
  <1>1. Phases /\ Front /\ Paths
    BY DEF Phases, Front, Paths, At, Idle, Executors, Threads
  <1>2. Order /\ Owed
    BY DEF Order, Owed, Known, Runnable
  <1> QED BY <1>1, <1>2 DEF OInv

\* What TypeOK says of the queue, and where an operation added to it goes
LEMMA QueueFacts ==
  ASSUME TypeOK, References
  PROVE  /\ queue \in Seq(Ops) /\ Len(queue) \in Nat
         /\ \A i \in 1..Len(queue) : queue[i] \in Runnable /\ queue[i] \in Known /\ queue[i] \in Nat
         /\ Len(issued) \in Nat /\ Known \subseteq Nat /\ Runnable \subseteq Known
  BY DEF TypeOK, References, Runnable, Known

LEMMA AppendFacts ==
  ASSUME TypeOK, References, NewOp \in Ops, queue' = Append(queue, NewOp)
  PROVE  /\ Len(queue') = Len(queue) + 1
         /\ queue'[Len(queue) + 1] = NewOp
         /\ \A i \in 1..Len(queue) : queue'[i] = queue[i]
         /\ \A n : Queued(n)' <=> Queued(n) \/ n = NewOp
  <1>1. /\ Len(queue') = Len(queue) + 1 /\ Len(queue) \in Nat
        /\ queue'[Len(queue) + 1] = NewOp
        /\ \A i \in 1..Len(queue) : queue'[i] = queue[i]
    BY QueueFacts
  <1>2. 1..Len(queue') = 1..Len(queue) \cup {Len(queue) + 1}
    BY <1>1
  <1> QED BY <1>1, <1>2 DEF Queued

\* Who may issue, and what that leaves to the executors
LEMMA ActingFacts ==
  ASSUME Phases, gone \subseteq Callers, NEW t \in Threads, Acting(t)
  PROVE  /\ t \in Executors /\ job[t] = Idle /\ t \notin gone /\ parked[t] = 0
         /\ phase \in {"loading", "running", "closing", "final"}
         /\ phase = "loading" => t = World
         /\ CanDelayWork \/ ~shutdown => phase \in {"loading", "running", "closing"}
  <1>1. t \in Callers \/ t = World
    BY DEF Threads
  <1>2. t \in Executors /\ job[t] = Idle /\ parked[t] = 0
    BY DEF Acting, Executors
  <1>3. /\ phase \in {"loading", "running", "closing", "final"}
        /\ t = World \/ (phase \in {"running", "closing"} /\ t \notin gone)
    BY <1>1, DatabaseAssumption DEF Acting, Threads
  <1>4. t \notin gone
    BY <1>3, DatabaseAssumption
  <1>5. CanDelayWork \/ ~shutdown => phase \in {"loading", "running", "closing"}
    BY <1>3 DEF Phases, CanDelayWork
  <1> QED BY <1>2, <1>3, <1>4, <1>5

\* Rolling a transaction back
LEMMA NothingIssued ==
  ASSUME Inv, OInv, Issue("none", 0), UNCHANGED <<life, delay, queue, results, job, parked, ran, answered>>
  PROVE  OInv'
  <1>1. /\ Known' = Known \cup {NewOp} /\ NewOp \notin Known
        /\ \A n \in Known : issued'[n] = issued[n]
        /\ issued'[NewOp].kind = "none"
    <2>1. "none" \in Kinds /\ 0 \in 0..MaxLen
      BY DatabaseAssumption DEF Kinds
    <2>2. TypeOK
      BY DEF Inv
    <2>3. issued'[NewOp] = [kind |-> "none", len |-> 0]
      BY <2>1, <2>2, Prefix
    <2>4. issued'[NewOp].kind = "none"
      BY <2>3
    <2> QED BY <2>1, <2>2, <2>4, Prefix
  <1>2. Runnable' = Runnable /\ Runnable \subseteq Known
    BY <1>1 DEF Runnable
  <1>3. \A n : Waiting(n)' <=> Waiting(n)
    BY DEF Waiting, Queued, At
  <1>4. ran \subseteq Known
    BY DEF OInv, Order
  <1>5. \A e \in Executors : job[e] # Idle => job[e].op \in Known /\ Op(e)' = Op(e)
    BY <1>1, <1>2 DEF Inv, References, Op
  <1>6. Phases'
    BY DEF OInv, Phases, life, delay
  <1>7. Order'
    BY <1>1, <1>2, <1>3 DEF OInv, Order
  <1>8. Front'
    BY <1>1, <1>5 DEF OInv, Front, At, Writes, Idle
  <1>9. Paths'
    <2>1. \A i \in 1..Len(queue) : queue[i] \in Known
      BY QueueFacts DEF Inv
    <2>2. World \in Executors /\ Worker \in Executors /\ Threads \subseteq Executors
      BY DEF Executors, Threads
    <2> QED BY <1>1, <1>5, <2>1, <2>2 DEF OInv, Paths, At, Idle, life
  <1>10. Owed'
    BY <1>1, <1>4 DEF OInv, Owed, At, Queued
  <1> QED BY <1>6, <1>7, <1>8, <1>9, <1>10 DEF OInv

\* Handing an operation to the delay thread
LEMMA DelayedOrder ==
  ASSUME Inv, OInv, NEW t \in Threads, Acting(t), NEW kind \in Kinds, NEW len \in 0..MaxLen,
         kind # "none", Issue(kind, len), Delay, NewOp \in Ops,
         phase \in {"loading", "running", "closing"},
         phase = "loading" => kind = "query",
         parked' = parked \/ parked' = [parked EXCEPT ![t] = NewOp],
         UNCHANGED <<life, delay, results, ran, answered>>
  PROVE  OInv'
  <1>1. /\ Known' = Known \cup {NewOp} /\ NewOp \notin Known
        /\ \A n \in Known : issued'[n] = issued[n]
        /\ issued'[NewOp].kind = kind
        /\ Len(issued) \in Nat
    <2>1. TypeOK
      BY DEF Inv
    <2>2. issued'[NewOp] = [kind |-> kind, len |-> len]
      BY <2>1, Prefix
    <2>3. issued'[NewOp].kind = kind
      BY <2>2
    <2> QED BY <2>1, <2>3, Prefix
  <1>2. /\ Len(queue') = Len(queue) + 1 /\ Len(queue) \in Nat
        /\ queue'[Len(queue) + 1] = NewOp
        /\ \A i \in 1..Len(queue) : queue'[i] = queue[i] /\ queue[i] \in Known
        /\ \A n : Queued(n)' <=> Queued(n) \/ n = NewOp
        /\ job' = job
    BY AppendFacts, QueueFacts DEF Inv, Delay
  <1>3. \A n \in Known : n \in Nat /\ n < NewOp
    BY <1>1 DEF Known, NewOp
  <1>4. \A e \in Executors : job[e] # Idle => job[e].op \in Known /\ Op(e)' = Op(e)
    BY <1>1, <1>2 DEF Inv, References, Op, Runnable
  <1>5. job[t] = Idle /\ (phase = "loading" => t = World)
    BY ActingFacts DEF OInv, Inv, TypeOK
  <1>6. Phases'
    BY <1>2 DEF OInv, Phases, life, delay
  <1>7. Order'
    <2>1. \A i, j \in 1..Len(queue') : i < j => queue'[i] < queue'[j]
      BY <1>2, <1>3 DEF OInv, Order
    <2>2. \A n \in Runnable' : n = NewOp \/ n \in Runnable
      BY <1>1 DEF Runnable
    <2>3. \A n : Waiting(n) \/ n = NewOp => Waiting(n)'
      BY <1>2 DEF Waiting, At
    <2> QED BY <2>1, <2>2, <2>3, <1>1 DEF OInv, Order
  <1>8. Front'
    <2>1. ASSUME NEW e \in Executors, (At(e, "lock") /\ Op(e).kind # "direct")',
                 NEW w \in Known', w < job'[e].op, issued'[w].kind \in Writes
          PROVE  w \in ran'
      <3>1. job[e] # Idle /\ job[e].op \in Known /\ Op(e)' = Op(e)
        BY <2>1, <1>2, <1>4 DEF At, Idle
      <3>2. w # NewOp
        BY <2>1, <3>1, <1>1, <1>2, <1>3 DEF NewOp
      <3>3. w \in Known /\ issued'[w] = issued[w]
        BY <2>1, <3>2, <1>1
      <3> QED BY <2>1, <3>1, <3>3, <1>2 DEF OInv, Front, At
    <2> QED BY <2>1 DEF Front
  <1>9. Paths'
    <2>1. World \in Executors /\ Worker \in Executors /\ Threads \subseteq Executors
      BY DEF Executors, Threads
    <2>2. CASE phase = "loading"
      BY <2>1, <2>2, <1>1, <1>2, <1>4, <1>5 DEF OInv, Paths, At, Idle, life
    <2>3. CASE phase # "loading"
      BY <2>1, <2>3, <1>2, <1>4 DEF OInv, Paths, At, Idle, life
    <2> QED BY <2>2, <2>3
  <1>10. Owed'
    <2>1. ran \subseteq Known
      BY DEF OInv, Order
    <2>2. \A u \in Threads : parked'[u] = parked[u] \/ parked'[u] = NewOp
      BY DEF Inv, TypeOK
    <2> QED BY <2>1, <2>2, <1>1, <1>2 DEF OInv, Owed, At
  <1> QED BY <1>6, <1>7, <1>8, <1>9, <1>10 DEF OInv

\* Executing on the calling thread
LEMMA ImmediateOrder ==
  ASSUME Inv, OInv, NEW t \in Threads, Acting(t), NEW kind \in Kinds, NEW len \in 0..MaxLen,
         kind # "none", Issue(kind, len), RunHere(t), NewOp \in Ops,
         kind = "direct" \/ phase = "loading",
         UNCHANGED <<life, delay, results, parked, ran, answered>>
  PROVE  OInv'
  <1>1. /\ Known' = Known \cup {NewOp} /\ NewOp \notin Known
        /\ \A n \in Known : issued'[n] = issued[n]
        /\ issued'[NewOp].kind = kind
        /\ Len(issued) \in Nat
    <2>1. TypeOK
      BY DEF Inv
    <2>2. issued'[NewOp] = [kind |-> kind, len |-> len]
      BY <2>1, Prefix
    <2>3. issued'[NewOp].kind = kind
      BY <2>2
    <2> QED BY <2>1, <2>3, Prefix
  <1>2. /\ job'[t] = [op |-> NewOp, step |-> "lock", k |-> 1, ok |-> TRUE]
        /\ \A e \in Executors : e # t => job'[e] = job[e]
        /\ queue' = queue
        /\ \A i \in 1..Len(queue) : queue[i] \in Known
    BY QueueFacts DEF RunHere, Inv, TypeOK, Executors
  <1>3. \A n \in Known : n \in Nat /\ n < NewOp
    BY <1>1 DEF Known, NewOp
  <1>4. /\ \A e \in Executors : job[e] # Idle => job[e].op \in Known
        /\ \A e \in Executors : e # t /\ job[e] # Idle => Op(e)' = Op(e)
    BY <1>1, <1>2 DEF Inv, References, Op, Runnable
  <1>5. /\ job[t] = Idle /\ (phase = "loading" => t = World) /\ t \notin gone /\ t \in Executors
        /\ phase \in {"loading", "running", "closing", "final"}
    BY ActingFacts DEF OInv, Inv, TypeOK
  <1>6. World \in Executors /\ Worker \in Executors /\ Threads \subseteq Executors /\ t # Worker
        /\ World \notin Callers
    BY DatabaseAssumption DEF Executors, Threads
  <1>7. job'[t] # Idle /\ Op(t)'.kind = kind
    BY <1>1, <1>2 DEF Idle, Op
  <1>8. Phases'
    <2>1. /\ t \notin Callers => t = World
          /\ Worker # t /\ job'[Worker] = job[Worker]
          /\ \A u \in Callers : u \in Executors
      BY <1>2, <1>6 DEF Executors, Threads
    <2>2. UNCHANGED <<phase, async, shutdown, gone, running, worker, results, queue>>
      BY <1>2 DEF life, delay
    <2>3. phase = "loading" => \A u \in Callers : job'[u] = Idle
      BY <2>1, <1>2, <1>5, <1>6 DEF OInv, Phases
    <2>4. \A u \in gone : job'[u] = Idle
      BY <2>1, <1>2, <1>5 DEF OInv, Phases, Inv, TypeOK
    <2> QED BY <2>1, <2>2, <2>3, <2>4, <1>5 DEF OInv, Phases
  <1>9. \A n : Waiting(n) \/ n = NewOp => Waiting(n)'
    <2>1. \A n : Queued(n)' <=> Queued(n)
      BY <1>2 DEF Queued
    <2>2. ASSUME NEW n, NEW e \in Executors, At(e, "lock"), job[e].op = n
          PROVE  At(e, "lock")' /\ job'[e].op = n
      <3>1. e # t
        BY <2>2, <1>5 DEF At, Idle
      <3> QED BY <2>2, <3>1, <1>2 DEF At
    <2>3. At(t, "lock")' /\ job'[t].op = NewOp
      BY <1>2 DEF At
    <2> QED BY <2>1, <2>2, <2>3, <1>5 DEF Waiting
  <1>10. Order'
    <2>1. \A n \in Runnable' : n = NewOp \/ n \in Runnable
      BY <1>1 DEF Runnable
    <2> QED BY <2>1, <1>1, <1>2, <1>9 DEF OInv, Order
  <1>11. Front'
    <2>1. ASSUME NEW e \in Executors, e # t, (At(e, "lock") /\ Op(e).kind # "direct")',
                 NEW w \in Known', w < job'[e].op, issued'[w].kind \in Writes
          PROVE  w \in ran'
      <3>1. job[e] # Idle /\ job'[e] = job[e]
        BY <2>1, <1>2 DEF At, Idle
      <3>2. w \in Known /\ issued'[w] = issued[w]
        <4>1. job[e].op \in Known /\ job[e].op \in Nat /\ job[e].op < NewOp
          BY <2>1, <3>1, <1>3, <1>4
        <4>2. w # NewOp
          BY <2>1, <3>1, <4>1, <1>1 DEF NewOp
        <4> QED BY <2>1, <4>2, <1>1
      <3> QED BY <2>1, <3>1, <3>2, <1>4 DEF OInv, Front, At
    <2>2. ASSUME (At(t, "lock") /\ Op(t).kind # "direct")',
                 NEW w \in Known', w < job'[t].op, issued'[w].kind \in Writes
          PROVE  w \in ran'
      <3>1. phase = "loading" /\ t = World
        BY <2>2, <1>5, <1>7
      <3>2. w \in Known /\ issued'[w] = issued[w]
        BY <2>2, <1>1, <1>2, <1>3, NewOp < NewOp => FALSE DEF NewOp
      <3>3. w \in Runnable
        BY <2>2, <3>2 DEF Runnable, Writes
      <3>4. ~Queued(w)
        BY <2>2, <3>1, <3>2 DEF Queued, OInv, Paths, Writes
      <3>5. ASSUME NEW e \in Executors, At(e, "lock"), job[e].op = w
            PROVE  FALSE
        <4>1. job[e] # Idle
          BY <3>5 DEF At, Idle
        <4>2. e = Worker
          BY <4>1, <3>1, <1>5 DEF OInv, Phases, Executors, Threads
        <4> QED BY <4>1, <4>2, <3>1, <3>2, <3>5, <2>2 DEF OInv, Paths, Op, Writes
      <3> QED BY <3>3, <3>4, <3>5 DEF OInv, Order, Waiting
    <2> QED BY <2>1, <2>2 DEF Front
  <1>12. Paths'
    <2>1. CASE phase = "loading"
      BY <2>1, <1>1, <1>2, <1>3, <1>4, <1>5, <1>6 DEF OInv, Paths, At, Idle, life
    <2>2. CASE phase # "loading"
      BY <2>2, <1>2, <1>4, <1>6, <1>7 DEF OInv, Paths, At, Idle, life
    <2> QED BY <2>1, <2>2
  <1>13. Owed'
    <2>1. ran \subseteq Known
      BY DEF OInv, Order
    <2>2. ASSUME NEW e \in Executors, job[e] # Idle PROVE e # t /\ job'[e] = job[e]
      BY <2>2, <1>2, <1>5
    <2>3. \A e \in Executors : At(e, "run") => At(e, "run")' /\ job'[e] = job[e]
      BY <2>2 DEF At, Idle
    <2> QED BY <2>1, <2>2, <2>3, <1>1, <1>2 DEF OInv, Owed, Queued
  <1> QED BY <1>8, <1>10, <1>11, <1>12, <1>13 DEF OInv

\* A step that leaves the operations and the executors alone
LEMMA QuietOrder ==
  ASSUME OInv, Phases', Paths', UNCHANGED <<queue, job, issued, ran, results, parked, answered>>
  PROVE  OInv'
  <1>1. Order' /\ Front'
    BY DEF OInv, Order, Front, Known, Runnable, Waiting, Queued, At, Op
  <1>2. Owed'
    BY DEF OInv, Owed, Queued, At
  <1> QED BY <1>1, <1>2 DEF OInv

LEMMA CallerOrder ==
  ASSUME Inv, OInv, NEW t \in Threads, Caller(t)
  PROVE  OInv'
  <1>0. /\ Phases /\ TypeOK /\ Bounded /\ gone \subseteq Callers
        /\ slot \in [Threads -> NoTrans..MaxLen]
    BY DEF Inv, OInv, TypeOK
  <1>1. CASE BeginTransaction(t) \/ ExecuteInTransaction(t)
    <2>1. UNCHANGED <<issuing, queue, job, parked, issued>>
      BY <1>1 DEF BeginTransaction, ExecuteInTransaction
    <2>2. Phases' /\ Paths'
      BY <2>1 DEF OInv, Phases, Paths, issuing, life, delay, At, Op
    <2> QED BY <2>1, <2>2, QuietOrder DEF issuing, told
  <1>2. CASE Execute(t)
    <2>1. "write" \in Kinds /\ 1 \in 0..MaxLen /\ NewOp \in Ops
      BY <1>0, <1>2, RoomLeft, DatabaseAssumption DEF Kinds, Execute
    <2>2. Acting(t) /\ phase \in {"loading", "running", "closing"}
      BY <1>0, <1>2, ActingFacts DEF Execute
    <2>3. Issue("write", 1) /\ UNCHANGED <<life, delay, results, parked, ran, answered>>
      BY <1>2 DEF Execute, issuing, told
    <2>4. CASE async
      BY <1>0, <1>2, <2>1, <2>2, <2>3, <2>4, DelayedOrder DEF Execute, Phases
    <2>5. CASE ~async
      BY <1>0, <1>2, <2>1, <2>2, <2>3, <2>5, ImmediateOrder DEF Execute, Phases
    <2> QED BY <2>4, <2>5
  <1>3. CASE DirectExecute(t)
    <2>1. "direct" \in Kinds /\ 1 \in 0..MaxLen /\ NewOp \in Ops
      BY <1>0, <1>3, RoomLeft, DatabaseAssumption DEF Kinds, DirectExecute
    <2>2. Acting(t) /\ Issue("direct", 1) /\ RunHere(t)
          /\ UNCHANGED <<life, delay, results, parked, ran, answered>>
      BY <1>3 DEF DirectExecute, issuing, told
    <2> QED BY <2>1, <2>2, ImmediateOrder
  <1>4. CASE CommitTransaction(t)
    <2>1. /\ Issue("transaction", slot[t]) /\ UNCHANGED <<life, delay, results, parked, ran, answered>>
          /\ slot[t] # NoTrans /\ slot' = [slot EXCEPT ![t] = NoTrans]
      BY <1>4 DEF CommitTransaction, issuing, told
    <2>2. Acting(t) /\ phase \in {"loading", "running", "closing"}
      BY <1>0, <1>4, ActingFacts DEF CommitTransaction
    <2>3. "transaction" \in Kinds /\ slot[t] \in 0..MaxLen
      BY <1>0, <2>1, DatabaseAssumption DEF Kinds, NoTrans
    <2>4. NewOp \in Ops
      BY <1>0, <2>1, <2>3, Longer, SlotReleased
    <2>5. CASE async
      BY <1>0, <1>4, <2>1, <2>2, <2>3, <2>4, <2>5, DelayedOrder DEF CommitTransaction, Phases
    <2>6. CASE ~async
      BY <1>0, <1>4, <2>1, <2>2, <2>3, <2>4, <2>6, ImmediateOrder DEF CommitTransaction, Phases
    <2> QED BY <2>5, <2>6
  <1>5. CASE CommitTransactionChecked(t)
    <2>1. /\ Issue("checked", slot[t]) /\ UNCHANGED <<life, delay, results, ran, answered>>
          /\ slot[t] # NoTrans /\ slot' = [slot EXCEPT ![t] = NoTrans]
      BY <1>5 DEF CommitTransactionChecked, issuing, told
    <2>2. Acting(t) /\ phase \in {"loading", "running", "closing"} /\ running
      BY <1>0, <1>5, ActingFacts DEF CommitTransactionChecked, Phases
    <2>3. "checked" \in Kinds /\ slot[t] \in 0..MaxLen
      BY <1>0, <2>1, DatabaseAssumption DEF Kinds, NoTrans
    <2>4. NewOp \in Ops
      BY <1>0, <2>1, <2>3, Longer, SlotReleased
    <2>5. CASE async
      BY <1>0, <1>5, <2>1, <2>2, <2>3, <2>4, <2>5, DelayedOrder DEF CommitTransactionChecked, Phases
    <2>6. CASE ~async
      BY <1>0, <1>5, <2>1, <2>2, <2>3, <2>4, <2>6, ImmediateOrder DEF CommitTransactionChecked, Phases
    <2> QED BY <2>5, <2>6
  <1>6. CASE RollbackTransaction(t)
    BY <1>6, NothingIssued DEF RollbackTransaction, issuing, told
  <1>7. CASE AsyncQuery(t)
    <2>1. "query" \in Kinds /\ 0 \in 0..MaxLen /\ NewOp \in Ops
      BY <1>0, <1>7, RoomLeft, DatabaseAssumption DEF Kinds, AsyncQuery
    <2>2. Acting(t) /\ phase \in {"loading", "running", "closing"}
      BY <1>0, <1>7, ActingFacts DEF AsyncQuery
    <2>3. /\ Issue("query", 0) /\ Delay
          /\ UNCHANGED <<life, delay, results, parked, ran, answered>>
      BY <1>7 DEF AsyncQuery, issuing, told
    <2> QED BY <2>1, <2>2, <2>3, DelayedOrder
  <1> QED BY <1>1, <1>2, <1>3, <1>4, <1>5, <1>6, <1>7 DEF Caller

\* A step of an operation between its first and its last
LEMMA MidOrder ==
  ASSUME OInv, TypeOK, NEW e \in Executors, job[e].step \in Held, job'[e].step \in Held,
         job'[e].op = job[e].op, At(e, "run") => Op(e).kind # "query",
         \A f \in Executors : f # e => job'[f] = job[f],
         UNCHANGED <<issuer, results, ran, answered>>
  PROVE  OInv'
  <1>1. /\ \A f \in Executors : /\ (At(f, "lock"))' <=> At(f, "lock")
                                /\ At(f, "lock") => Op(f)' = Op(f)
                                /\ job'[f] = Idle <=> job[f] = Idle
                                /\ job'[f].op = job[f].op
                                /\ Op(f)' = Op(f)
                                /\ f = e \/ job'[f] = job[f]
        /\ World \in Executors /\ Worker \in Executors
        /\ Callers \subseteq Executors /\ Threads \subseteq Executors
    BY DEF At, Held, Idle, Op, Executors, Threads, issuer
  <1>2. Phases'
    <2>1. \A f \in Executors : job[f] = Idle => job'[f] = Idle
      BY <1>1
    <2>2. gone \subseteq Executors
      BY <1>1 DEF TypeOK
    <2> QED BY <2>1, <2>2, <1>1 DEF OInv, Phases, issuer, life, delay
  <1>3. Order'
    BY <1>1 DEF OInv, Order, Known, Runnable, Waiting, Queued, issuer
  <1>4. Front'
    BY <1>1 DEF OInv, Front, Known, issuer
  <1>5. Paths'
    BY <1>1 DEF OInv, Paths, issuer, life
  <1>6. Owed'
    <2>1. ASSUME NEW n \in ran, issued[n].kind = "query",
                 NEW f \in Executors, At(f, "run"), job[f].op = n
          PROVE  At(f, "run")'
      <3>1. f # e
        BY <2>1 DEF Op
      <3> QED BY <2>1, <3>1 DEF At
    <2> QED BY <2>1, <1>1 DEF OInv, Owed, Queued, issuer
  <1> QED BY <1>2, <1>3, <1>4, <1>5, <1>6 DEF OInv

LEMMA TakeConnectionOrder ==
  ASSUME Inv, OInv, NEW e \in Executors, TakeConnection(e)
  PROVE  OInv'
  <1> USE DEF TakeConnection
  <1>1. job[e].step = "lock" /\ job[e].step \in Steps
    BY DEF At, Steps
  <1>2. /\ job[e] # Idle /\ job[e].op \in Known /\ gone \subseteq Callers
        /\ World \in Executors /\ Worker \in Executors
        /\ Callers \subseteq Executors /\ Threads \subseteq Executors
    BY <1>1, JobFacts DEF Inv, TypeOK, Executors, Threads
  <1>3. PICK step \in {"run", "begin", "finish"} :
          Goto(e, step) /\ (Op(e).kind = "query" => step = "run")
    BY DEF IsTransaction
  <1>4. /\ \A f \in Executors : f # e => job'[f] = job[f]
        /\ job'[e].op = job[e].op /\ job'[e].step = step
    BY <1>1, <1>3, GotoFacts DEF Steps
  <1>5. \A f \in Executors : /\ At(f, "lock")' <=> At(f, "lock") /\ f # e
                             /\ job'[f] = Idle <=> job[f] = Idle
                             /\ job'[f].op = job[f].op /\ Op(f)' = Op(f)
                             /\ At(f, "run") => At(f, "run")'
    BY <1>1, <1>2, <1>3, <1>4 DEF At, Op, Idle, issuer
  <1>6. Phases'
    <2>1. \A f \in Executors : job[f] = Idle => job'[f] = Idle
      BY <1>5
    <2> QED BY <1>2, <2>1 DEF OInv, Phases, issuer, life, delay
  <1>7. Order'
    <2>1. Known' = Known /\ Runnable' = Runnable
      BY DEF Known, Runnable, issuer
    <2>2. \A n : Waiting(n) /\ n # job[e].op => Waiting(n)'
      BY <1>5 DEF Waiting, Queued, issuer
    <2>3. ran' = ran \cup {job[e].op} /\ queue' = queue
      BY DEF issuer
    <2> QED BY <2>1, <2>2, <2>3, <1>2 DEF OInv, Order
  <1>8. Front'
    BY <1>5 DEF OInv, Front, Known, issuer
  <1>9. Paths'
    BY <1>2, <1>5 DEF OInv, Paths, issuer, life
  <1>10. Owed'
    <2>1. issued' = issued /\ ran' = ran \cup {job[e].op}
          /\ UNCHANGED <<results, answered, parked, queue>>
      BY DEF issuer, told
    <2>2. issued[job[e].op].kind = "query" => At(e, "run")'
      BY <1>3, <1>4 DEF At, Op
    <2>3. \A n \in ran' : issued[n].kind = "query" =>
             \/ n \in answered
             \/ \E i \in 1..Len(results) : results[i] = n
             \/ \E f \in Executors : At(f, "run")' /\ job'[f].op = n
      BY <2>1, <2>2, <1>4, <1>5 DEF OInv, Owed
    <2> QED BY <2>1, <2>3, <1>5 DEF OInv, Owed, Queued
  <1> QED BY <1>6, <1>7, <1>8, <1>9, <1>10 DEF OInv

LEMMA QueryOrder ==
  ASSUME Inv, OInv, NEW e \in Executors, Query(e)
  PROVE  OInv'
  <1> USE DEF Query
  <1>1. job[e].step = "run" /\ job[e].step \in Steps
    BY DEF At, Steps
  <1>2. /\ job[e] # Idle /\ job[e].op \in Known /\ job[e].op \in Ops /\ gone \subseteq Callers
        /\ World \in Executors /\ Worker \in Executors
        /\ Callers \subseteq Executors /\ Threads \subseteq Executors
    BY <1>1, JobFacts DEF Inv, TypeOK, Executors, Threads
  <1>3. /\ \A f \in Executors : f # e => job'[f] = job[f]
        /\ job'[e].op = job[e].op /\ job'[e].step = "finish"
    BY <1>1, GotoFacts DEF Steps
  <1>4. \A f \in Executors : /\ At(f, "lock")' <=> At(f, "lock")
                             /\ job'[f] = Idle <=> job[f] = Idle
                             /\ job'[f].op = job[f].op /\ Op(f)' = Op(f)
                             /\ At(f, "run") /\ f # e => At(f, "run")'
    BY <1>1, <1>2, <1>3 DEF At, Op, Idle, issuer
  <1>5. results \in Seq(Ops) /\ phase # "done"
    <2>1. phase = "done" => Worker # e /\ e # World /\ e \notin Callers
      BY <1>2 DEF OInv, Phases
    <2> QED BY <2>1 DEF Inv, TypeOK, Executors, Threads
  <1>6. /\ Len(results') = Len(results) + 1 /\ Len(results) \in Nat
        /\ results'[Len(results) + 1] = job[e].op
        /\ \A i \in 1..Len(results) : results'[i] = results[i]
    BY <1>2, <1>5
  <1>7. Phases'
    <2>1. \A f \in Executors : job[f] = Idle => job'[f] = Idle
      BY <1>4
    <2> QED BY <1>2, <1>5, <2>1 DEF OInv, Phases, issuer, life, delay
  <1>8. Order'
    BY <1>4 DEF OInv, Order, Known, Runnable, Waiting, Queued, issuer
  <1>9. Front'
    BY <1>4 DEF OInv, Front, Known, issuer
  <1>10. Paths'
    BY <1>2, <1>4 DEF OInv, Paths, issuer, life
  <1>11. Owed'
    <2>1. UNCHANGED <<issued, ran, answered, parked, queue>>
      BY DEF issuer, told
    <2>2. \E i \in 1..Len(results') : results'[i] = job[e].op
      BY <1>6
    <2>3. \A i \in 1..Len(results) : i \in 1..Len(results')
      BY <1>6
    <2>4. \A n \in ran : issued[n].kind = "query" =>
             \/ n \in answered
             \/ \E i \in 1..Len(results') : results'[i] = n
             \/ \E f \in Executors : At(f, "run")' /\ job'[f].op = n
      BY <2>2, <2>3, <1>4, <1>6 DEF OInv, Owed
    <2> QED BY <2>1, <2>4, <1>4 DEF OInv, Owed, Queued
  <1> QED BY <1>7, <1>8, <1>9, <1>10, <1>11 DEF OInv

LEMMA FinishOrder ==
  ASSUME Inv, OInv, NEW e \in Executors, Finish(e)
  PROVE  OInv'
  <1> USE DEF Finish
  <1>1. job[e].step = "finish" /\ job[e].step \in Steps
    BY DEF At, Steps
  <1>2. /\ job[e] # Idle /\ job[e].op \in Known /\ gone \subseteq Callers
        /\ World \in Executors /\ Worker \in Executors
        /\ Callers \subseteq Executors /\ Threads \subseteq Executors
    BY <1>1, JobFacts DEF Inv, TypeOK, Executors, Threads
  <1>3. (\A f \in Executors : f # e => job'[f] = job[f]) /\ job'[e] = Idle
    BY DEF Inv, TypeOK
  <1>4. \A f \in Executors : /\ At(f, "lock")' <=> At(f, "lock")
                             /\ At(f, "lock") => f # e
                             /\ At(f, "run")' <=> At(f, "run")
                             /\ At(f, "run") => f # e
                             /\ job[f] = Idle => job'[f] = Idle
    BY <1>1, <1>3 DEF At, Idle
  <1>5. \A f \in Executors : f # e => job'[f].op = job[f].op /\ Op(f)' = Op(f)
    BY <1>3 DEF Op
  <1>6. Phases'
    BY <1>2, <1>4 DEF OInv, Phases, life, delay
  <1>7. Order'
    BY <1>4, <1>5 DEF OInv, Order, Known, Runnable, Waiting, Queued
  <1>8. Front'
    BY <1>4, <1>5 DEF OInv, Front, Known
  <1>9. Paths'
    <2>1. World # e => job'[World] = job[World] /\ Op(World)' = Op(World)
      BY <1>2, <1>3, <1>5
    <2>2. Worker # e => job'[Worker] = job[Worker] /\ Op(Worker)' = Op(Worker)
      BY <1>2, <1>3, <1>5
    <2> QED BY <1>2, <1>3, <1>4, <1>5, <2>1, <2>2 DEF OInv, Paths, life
  <1>10. Owed'
    <2>1. \A n \in ran : issued[n].kind = "query" =>
             \/ n \in answered
             \/ \E i \in 1..Len(results) : results[i] = n
             \/ \E f \in Executors : At(f, "run")' /\ job'[f].op = n
      BY <1>4, <1>5 DEF OInv, Owed
    <2>2. ASSUME NEW t \in Threads, parked'[t] # 0
          PROVE  (Queued(parked[t]) \/ \E f \in Executors : job[f] # Idle /\ job[f].op = parked[t])'
      <3>1. parked'[t] = parked[t] /\ parked[t] # job[e].op
        BY <2>2
      <3> QED BY <3>1, <2>2, <1>3 DEF OInv, Owed, Queued
    <2> QED BY <2>1, <2>2 DEF Owed
  <1> QED BY <1>6, <1>7, <1>8, <1>9, <1>10 DEF OInv

\* Taking the first operation of the queue, when no other thread waits with
\* an earlier write
LEMMA TakeNextOrder ==
  ASSUME Inv, OInv, NEW e \in Executors, TakeNext(e),
         \/ e = Worker /\ worker = "drain"
         \/ e = World /\ phase = "sweeping",
         \A f \in Executors :
            At(f, "lock") /\ Op(f).kind \in Writes => job[f].op >= Head(queue)
  PROVE  OInv'
  <1> USE DEF TakeNext
  <1>1. /\ queue \in Seq(Ops) /\ queue # <<>> /\ Len(queue) \in Nat
        /\ \A i \in 1..Len(queue) : queue[i] \in Known /\ queue[i] \in Nat
        /\ Known \subseteq Nat /\ Runnable \subseteq Known
    BY QueueFacts DEF Inv
  <1>2. /\ Head(queue) = queue[1] /\ 1 \in 1..Len(queue) /\ Len(queue') = Len(queue) - 1
        /\ \A i \in 1..Len(queue') : i + 1 \in 1..Len(queue) /\ queue'[i] = queue[i + 1]
    BY <1>1
  <1>3. \A i \in 1..Len(queue) : i = 1 \/ (i - 1 \in 1..Len(queue') /\ queue'[i - 1] = queue[i])
    BY <1>1, <1>2
  <1>4. /\ \A f \in Executors : f # e => job'[f] = job[f]
        /\ job'[e] = [op |-> Head(queue), step |-> "lock", k |-> 1, ok |-> TRUE]
    BY DEF Inv, TypeOK
  <1>5. /\ job'[e].op = queue[1] /\ At(e, "lock")' /\ job'[e] # Idle
        /\ Op(e)' = issued[queue[1]]
    BY <1>2, <1>4 DEF At, Idle, Op
  <1>6. \A f \in Executors : /\ job[f] # Idle => f # e
                             /\ At(f, "lock") => f # e
                             /\ At(f, "run") => f # e
    BY DEF At, Idle
  <1>7. /\ World \in Executors /\ Worker \in Executors /\ World # Worker /\ World \notin Callers
        /\ Callers \subseteq Executors /\ Threads \subseteq Executors /\ Worker \notin Threads
        /\ gone \subseteq Callers
    BY DatabaseAssumption DEF Executors, Threads, Inv, TypeOK
  <1>8. \A n : Queued(n) => n = queue[1] \/ Queued(n)'
    BY <1>3 DEF Queued
  <1>9. \A f \in Executors : f # e => At(f, "lock")' = At(f, "lock") /\ Op(f)' = Op(f)
    BY <1>4 DEF At, Op
  <1>10. Phases'
    <2>1. e \notin gone
      BY <1>7 DEF Threads
    <2>2. phase = "loading" => e \notin Callers
      BY <1>7 DEF Threads
    <2> QED BY <1>1, <1>4, <1>7, <2>1, <2>2 DEF OInv, Phases, life, delay
  <1>11. Order'
    <2>1. \A i, j \in 1..Len(queue') : i < j => queue'[i] < queue'[j]
      BY <1>1, <1>2 DEF OInv, Order
    <2>2. \A n : Waiting(n) => Waiting(n)'
      BY <1>4, <1>5, <1>6, <1>8, <1>9 DEF Waiting
    <2>3. Known' = Known /\ Runnable' = Runnable
      BY DEF Known, Runnable
    <2> QED BY <2>1, <2>2, <2>3 DEF OInv, Order
  <1>12. Front'
    <2>1. ASSUME NEW w \in Known, w < queue[1], issued[w].kind \in Writes, w \notin ran
          PROVE  FALSE
      <3>1. Waiting(w)
        BY <2>1 DEF OInv, Order, Runnable, Writes
      <3>2. ~Queued(w)
        BY <2>1, <1>1, <1>2 DEF Queued, OInv, Order
      <3>3. ASSUME NEW f \in Executors, At(f, "lock"), job[f].op = w PROVE FALSE
        BY <3>3, <2>1, <1>1, <1>2 DEF Op
      <3> QED BY <3>1, <3>2, <3>3 DEF Waiting
    <2> QED BY <2>1, <1>4, <1>5, <1>9 DEF OInv, Front, Known
  <1>13. Paths'
    <2>1. CASE phase = "loading"
      <3>1. e = Worker
        BY <2>1
      <3>2. job[World] # Idle => \A i \in 1..Len(queue') : queue'[i] < job[World].op
        BY <2>1, <1>2 DEF OInv, Paths
      <3> QED BY <2>1, <3>1, <3>2, <1>2, <1>4, <1>5, <1>7 DEF OInv, Paths, life
    <2>2. CASE phase # "loading"
      BY <2>2, <1>7, <1>9 DEF OInv, Paths, life
    <2> QED BY <2>1, <2>2
  <1>14. Owed'
    <2>1. \A n \in ran : issued[n].kind = "query" =>
             \/ n \in answered
             \/ \E i \in 1..Len(results) : results[i] = n
             \/ \E f \in Executors : At(f, "run")' /\ job'[f].op = n
      BY <1>4, <1>6 DEF OInv, Owed, At
    <2>2. ASSUME NEW t \in Threads, parked[t] # 0
          PROVE  (Queued(parked[t]) \/ \E f \in Executors : job[f] # Idle /\ job[f].op = parked[t])'
      BY <2>2, <1>4, <1>5, <1>6, <1>8 DEF OInv, Owed
    <2> QED BY <2>1, <2>2 DEF Owed, told
  <1> QED BY <1>10, <1>11, <1>12, <1>13, <1>14 DEF OInv

LEMMA WorkerTakesOrder ==
  ASSUME Inv, OInv, WorkerTakes
  PROVE  OInv'
  <1>1. queue # <<>> /\ worker = "drain" /\ job[Worker] = Idle /\ TakeNext(Worker)
    BY DEF WorkerTakes, TakeNext
  <1>2. Head(queue) = queue[1] /\ 1 \in 1..Len(queue) /\ queue[1] \in Nat
    BY <1>1, QueueFacts DEF Inv
  <1>3. ASSUME NEW f \in Executors, At(f, "lock"), Op(f).kind \in Writes
        PROVE  job[f].op >= Head(queue)
    <2>1. job[f] # Idle /\ f # Worker /\ f \in Threads /\ Op(f).kind # "direct"
      BY <1>1, <1>3 DEF At, Idle, Executors, Writes
    <2>2. phase = "loading"
      BY <2>1, <1>1, <1>3 DEF OInv, Paths, Phases
    <2>3. f = World
      BY <2>1, <2>2 DEF OInv, Phases, Threads
    <2>4. job[f].op \in Nat
      BY <2>1, QueueFacts DEF Inv, References
    <2> QED BY <1>2, <2>1, <2>2, <2>3, <2>4 DEF OInv, Paths
  <1> QED BY <1>1, <1>3, TakeNextOrder DEF Executors

LEMMA SweepOrder ==
  ASSUME Inv, OInv, Sweep
  PROVE  OInv'
  <1>1. phase = "sweeping" /\ job[World] = Idle /\ job[Worker] = Idle /\ TakeNext(World)
    BY DEF Sweep, TakeNext, OInv, Phases
  <1>2. ASSUME NEW f \in Executors, At(f, "lock"), Op(f).kind \in Writes
        PROVE  FALSE
    <2>1. f \in Threads /\ f # World /\ Op(f).kind # "direct"
      BY <1>1, <1>2 DEF At, Idle, Executors, Writes
    <2> QED BY <2>1, <1>1, <1>2 DEF OInv, Paths
  <1> QED BY <1>1, <1>2, TakeNextOrder DEF Executors, Threads

LEMMA RunCallbackOrder ==
  ASSUME Inv, OInv, RunCallback
  PROVE  OInv'
  <1> USE DEF RunCallback
  <1>1. results \in Seq(Ops) /\ results # <<>> /\ Len(results) \in Nat
    BY DEF Inv, TypeOK
  <1>2. /\ Head(results) = results[1]
        /\ \A i \in 1..Len(results) :
             i = 1 \/ (i - 1 \in 1..Len(results') /\ results'[i - 1] = results[i])
    BY <1>1
  <1>3. Phases'
    BY <1>1 DEF OInv, Phases, life, delay
  <1>4. Order' /\ Front' /\ Paths'
    BY DEF OInv, Order, Front, Paths, Known, Runnable, Waiting, Queued, At, Op, life
  <1>5. Owed'
    <2>1. \A n \in ran : issued[n].kind = "query" =>
             \/ n \in answered'
             \/ \E i \in 1..Len(results') : results'[i] = n
             \/ \E f \in Executors : At(f, "run") /\ job[f].op = n
      BY <1>2 DEF OInv, Owed
    <2> QED BY <2>1 DEF OInv, Owed, Queued, At
  <1> QED BY <1>3, <1>4, <1>5 DEF OInv

\* The life of the process: loading, running, stopping
LEMMA PhaseOrder ==
  ASSUME Inv, OInv,
         \/ WorkerLoop \/ WorkerDrained
         \/ AllowAsyncTransactions \/ BeginShutdown \/ Halt \/ Join \/ Swept \/ Drained
         \/ \E t \in Callers : CallerEnds(t)
  PROVE  OInv'
  <1>1. UNCHANGED <<queue, job, issued, ran, results, parked, answered>>
    BY DEF WorkerLoop, WorkerDrained, AllowAsyncTransactions, BeginShutdown, Halt, Join,
           Swept, Drained, CallerEnds, exceptPhase, idleStep, told
  <1>2. \A f \in Executors : At(f, "lock")' = At(f, "lock") /\ Op(f)' = Op(f)
    BY <1>1 DEF At, Op
  <1>3. World \in Executors /\ Worker \in Executors /\ Threads \subseteq Executors
    BY DEF Executors, Threads
  <1>4. \A t \in Threads : t = World \/ t \in Callers
    BY DEF Threads
  <1>5. CASE AllowAsyncTransactions
    <2>1. phase = "loading" /\ phase' = "running" /\ async' /\ job[World] = Idle
          /\ UNCHANGED <<shutdown, gone, running, worker>>
      BY <1>5 DEF AllowAsyncTransactions, Acting, exceptPhase, delay
    <2>2. Phases'
      BY <2>1, <1>1 DEF OInv, Phases
    <2>3. \A t \in Threads : job[t] = Idle
      BY <2>1, <1>4 DEF OInv, Phases
    <2>4. Paths'
      BY <2>1, <2>3, <1>1, <1>2, <1>3 DEF OInv, Paths, At, Idle
    <2> QED BY <2>2, <2>4, <1>1, QuietOrder
  <1>6. CASE WorkerLoop \/ WorkerDrained \/ \E t \in Callers : CallerEnds(t)
    <2>1. UNCHANGED <<phase, async, shutdown>>
      BY <1>6 DEF WorkerLoop, WorkerDrained, CallerEnds, idleStep, life
    <2>2. Phases'
      BY <2>1, <1>1, <1>6
      DEF OInv, Phases, WorkerLoop, WorkerDrained, CallerEnds, Acting, exceptPhase, delay, idleStep, life
    <2>3. Paths'
      BY <2>1, <1>1, <1>2, <1>3 DEF OInv, Paths
    <2> QED BY <2>2, <2>3, <1>1, QuietOrder
  <1>7. CASE BeginShutdown \/ Halt \/ Join \/ Swept \/ Drained
    <2>1. Phases'
      BY <1>1, <1>7
      DEF OInv, Phases, BeginShutdown, Halt, Join, Swept, Drained, Acting, exceptPhase, delay, life
    <2>2. /\ phase # "loading" /\ phase' # "loading"
          /\ phase = "sweeping" => job[World] = Idle
      BY <1>7 DEF BeginShutdown, Halt, Join, Swept, Drained
    <2>3. Paths'
      BY <2>2, <1>1, <1>2, <1>3 DEF OInv, Paths, At, Idle
    <2> QED BY <2>1, <2>3, <1>1, QuietOrder
  <1> QED BY <1>5, <1>6, <1>7

LEMMA ExecutingOrder ==
  ASSUME Inv, OInv, NEW e \in Executors, Executing(e)
  PROVE  OInv'
  <1>1. TypeOK
    BY DEF Inv
  <1>2. CASE \/ Begin(e) \/ BeginFails(e) \/ StatementSucceeds(e) \/ StatementFails(e)
             \/ Rollback(e) \/ Commit(e) \/ CommitFails(e)
    <2>1. job[e].step \in Held /\ (At(e, "run") => Op(e).kind # "query")
      BY <1>2 DEF Begin, BeginFails, StatementSucceeds, StatementFails, Rollback, Commit,
                  CommitFails, At, Held
    <2>2. UNCHANGED <<issuer, results, ran, answered>>
      BY <1>2 DEF Begin, BeginFails, StatementSucceeds, StatementFails, Rollback, Commit,
                  CommitFails, told
    <2>3. job[e] \in Job /\ job \in [Executors -> Job \cup {Idle}]
      BY <2>1, JobFacts DEF Held, Steps, Inv, TypeOK
    <2>4. PICK step \in Held :
            \/ Goto(e, step) \/ Fail(e, step)
            \/ job' = [job EXCEPT ![e].step = step, ![e].k = @ + 1]
      BY <1>2 DEF Begin, BeginFails, StatementSucceeds, StatementFails, Rollback, Commit,
                  CommitFails, AfterStatement, AfterFailure, Held
    <2>5. /\ job'[e].step \in Held /\ job'[e].op = job[e].op
          /\ \A f \in Executors : f # e => job'[f] = job[f]
      <3>1. CASE Goto(e, step)
        BY <3>1, <2>3 DEF Goto, Job
      <3>2. CASE Fail(e, step)
        BY <3>2, <2>3 DEF Fail, Job
      <3>3. CASE job' = [job EXCEPT ![e].step = step, ![e].k = @ + 1]
        BY <3>3, <2>3 DEF Job
      <3> QED BY <2>4, <3>1, <3>2, <3>3
    <2> QED BY <1>1, <2>1, <2>2, <2>5, MidOrder
  <1> QED BY <1>2, TakeConnectionOrder, QueryOrder, FinishOrder DEF Executing

LEMMA NextOrder == Inv /\ OInv /\ [Next]_vars => OInv'
  <1> SUFFICES ASSUME Inv, OInv, [Next]_vars PROVE OInv'
    OBVIOUS
  <1>1. ASSUME NEW t \in Threads, Caller(t) PROVE OInv'
    BY <1>1, CallerOrder
  <1>2. ASSUME NEW e \in Executors, Executing(e) PROVE OInv'
    BY <1>2, ExecutingOrder
  <1>3. CASE DelayThread
    BY <1>3, WorkerTakesOrder, PhaseOrder DEF DelayThread
  <1>4. CASE RunCallback
    BY <1>4, RunCallbackOrder
  <1>5. CASE \/ AllowAsyncTransactions \/ BeginShutdown
             \/ \E t \in Callers : CallerEnds(t)
    BY <1>5, PhaseOrder
  <1>6. CASE Stopping
    BY <1>6, SweepOrder, PhaseOrder DEF Stopping
  <1>7. CASE UNCHANGED vars
    <2>1. UNCHANGED <<queue, job, issued, ran, results, parked, answered, life, delay>>
      BY <1>7 DEF vars, told
    <2>2. Phases' /\ Paths'
      BY <2>1 DEF OInv, Phases, Paths, life, delay, At, Op
    <2> QED BY <2>1, <2>2, QuietOrder
  <1> QED BY <1>1, <1>2, <1>3, <1>4, <1>5, <1>6, <1>7 DEF Next

LEMMA OrderInvariance == Spec => [](Inv /\ OInv)
  <1>1. Init => Inv /\ OInv
    BY InitInv, InitOInv
  <1>2. Inv /\ OInv /\ [Next]_vars => Inv' /\ OInv'
    BY NextInv, NextOrder
  <1> QED BY <1>1, <1>2, PTL DEF Spec

\* SqlDelayThread and the direct paths: whatever way a write takes, it runs
\* before everything issued after it, direct statements excepted.
THEOREM NoWriteOvertaken == Spec => WritesInOrder
  <1>1. ASSUME Inv, OInv, [Next]_vars, NEW n \in ran' \ ran PROVE Overtaken(n) = {}
    <2>1. PICK e \in Executors : TakeConnection(e)
      BY <1>1
      DEF Next, vars, Caller, Executing, DelayThread, Stopping, RunCallback, BeginTransaction,
          ExecuteInTransaction, Execute, DirectExecute, CommitTransaction,
          CommitTransactionChecked, RollbackTransaction, AsyncQuery, Begin, BeginFails,
          StatementSucceeds, StatementFails, Query, Rollback, Commit, CommitFails, Finish,
          WorkerLoop, WorkerTakes, WorkerDrained, TakeNext, AllowAsyncTransactions,
          BeginShutdown, CallerEnds, Halt, Join, Sweep, Swept, Drained, exceptPhase, idleStep,
          issuing
    <2>2. n = job[e].op /\ At(e, "lock") /\ job[e].step \in Steps
      BY <1>1, <2>1 DEF TakeConnection, At, Steps
    <2>3. n \in Known /\ issued[n] = Op(e)
      BY <1>1, <2>2, JobFacts DEF Op
    <2>4. ASSUME NEW w \in 1..n - 1, w \notin ran,
                 issued[w].kind \in Writes, issued[n].kind # "direct"
          PROVE  FALSE
      <3>1. w \in Known /\ w < n
        BY <1>1, <2>2, <2>3, <2>4, QueueFacts DEF Known, Inv
      <3> QED BY <1>1, <2>2, <2>3, <2>4, <3>1 DEF OInv, Front
    <2> QED BY <2>4 DEF Overtaken, Writes
  <1>2. Inv /\ OInv /\ [Next]_vars => [\A n \in ran' \ ran : Overtaken(n) = {}]_vars
    BY <1>1
  <1> QED BY <1>2, OrderInvariance, PTL DEF Spec, WritesInOrder

\* HaltDelayThread, ~SqlDelayThread and the last ProcessResultQueue: after a
\* shutdown everything accepted was run, every query was answered and no
\* thread waits for a commit.
THEOREM ShutdownLosesNothing == Spec => []NothingDiscarded
  <1>1. ASSUME Inv, OInv PROVE NothingDiscarded
    <2>1. SUFFICES ASSUME phase = "done"
                   PROVE  /\ \A n \in DOMAIN issued : issued[n].kind # "none" => n \in ran
                          /\ \A n \in DOMAIN issued : issued[n].kind = "query" => n \in answered
                          /\ \A t \in Threads : parked[t] = 0
      BY DEF NothingDiscarded
    <2>2. queue = <<>> /\ results = <<>>
      BY <1>1, <2>1 DEF OInv, Phases
    <2>3. \A e \in Executors : job[e] = Idle
      BY <1>1, <2>1 DEF OInv, Phases, Executors, Threads
    <2>4. \A n : ~Queued(n) /\ ~Waiting(n)
      BY <2>2, <2>3 DEF Queued, Waiting, At, Idle
    <2>5. DOMAIN issued = Known
      BY <1>1 DEF Inv, TypeOK, Known
    <2>6. \A n \in Runnable : n \in ran
      BY <1>1, <2>4 DEF OInv, Order
    <2>7. \A n \in Known : issued[n].kind = "query" => n \in answered
      BY <1>1, <2>2, <2>3, <2>6 DEF OInv, Owed, At, Idle, Runnable
    <2>8. \A t \in Threads : parked[t] = 0
      BY <1>1, <2>3, <2>4 DEF OInv, Owed
    <2> QED BY <2>5, <2>6, <2>7, <2>8 DEF Runnable
  <1> QED BY <1>1, OrderInvariance, PTL
=============================================================================
