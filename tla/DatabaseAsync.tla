--------------------------- MODULE DatabaseAsync ----------------------------
(***************************************************************************)
(* One Database (src/src/shared/Database) from the end of its Initialize   *)
(* to the last ProcessResultQueue of Master::Run: the deferred writes, the *)
(* transactions, the asynchronous queries and the shutdown.                *)
(*                                                                         *)
(* Any thread of the server may issue operations.  The delay thread takes  *)
(* them from a locked queue and runs them, one by one, on the asynchronous *)
(* connection, which a thread that executes directly uses as well: the     *)
(* connection's mutex is held for the whole operation.  The world thread   *)
(* runs the callbacks of finished queries, and halts the delay thread at   *)
(* the end; ~SqlDelayThread then sweeps the queue on the world thread.     *)
(*                                                                         *)
(* An operation is known by its number, the order in which it was issued;  *)
(* statement k of operation n is <<n, k>>.  Any command may fail: a        *)
(* statement on its own account, and every command because the connection  *)
(* was lost, when the server has dropped the transaction it had open.  The *)
(* library is not asked to reconnect (a client from 8.0.34 on), so the     *)
(* commands that follow fail too.  Ping, which only keeps the connection   *)
(* busy, is left out.                                                      *)
(***************************************************************************)
EXTENDS Integers, Sequences, FiniteSets

CONSTANTS Callers,     \* threads that issue operations, beside the world thread
          World,       \* the world thread (main)
          Worker,      \* the delay thread
          MaxOps,      \* bound: operations issued
          MaxLen       \* bound: statements of a transaction

Threads   == Callers \cup {World}
Executors == Threads \cup {Worker}
Nobody    == "nobody"
NoTrans   == 0 - 1     \* TransHelper::m_pTrans is NULL

ASSUME DatabaseAssumption ==
  /\ IsFiniteSet(Callers)
  /\ World \notin Callers /\ Worker \notin Threads /\ Nobody \notin Executors
  /\ MaxOps \in Nat /\ MaxLen \in Nat \ {0}

VARIABLES
  phase,      \* how far Master::Run is
  async,      \* m_bAllowAsyncTransactions
  shutdown,   \* m_shutdown
  running,    \* SqlDelayThread::m_running
  worker,     \* where the delay thread's loop is
  gone,       \* callers whose thread has ended
  slot,       \* m_TransStorage of each thread: statements so far, or NoTrans
  queue,      \* SqlDelayThread::m_sqlQueue
  results,    \* m_pResultQueue
  job,        \* the operation each thread is executing, and its next step
  parked,     \* the commit whose future each thread is blocked on, or 0
  holder,     \* who holds the connection's mutex
  inTrans,    \* the server has a transaction open on the connection
  open,       \* ... and has applied these statements to it
  durable,    \* statements whose effect is permanent
  issued,     \* history: the operations accepted, in order
  ran,        \* history: the operations that have been started
  promised,   \* history: operations whose caller was told "done"
  answered    \* history: queries whose callback has run

life   == <<phase, async, shutdown, gone>>
delay  == <<running, worker>>
server == <<inTrans, open, durable>>
told   == <<promised, answered>>
vars   == <<life, delay, slot, queue, results, job, parked, holder, server,
            issued, ran, told>>

Ops    == 1..MaxOps
Kinds  == {"write", "direct", "transaction", "checked", "query", "none"}
Steps  == {"lock", "begin", "run", "rollback", "commit", "finish"}
Idle   == [op |-> 0, step |-> "idle", k |-> 0, ok |-> FALSE]
Job    == [op : Ops, step : Steps, k : 1..MaxLen + 1, ok : BOOLEAN]
Statements(n) == {<<n, k>> : k \in 1..issued[n].len}

TypeOK ==
  /\ phase \in {"loading", "running", "closing", "halting", "sweeping", "final", "done"}
  /\ async \in BOOLEAN /\ shutdown \in BOOLEAN /\ running \in BOOLEAN
  /\ worker \in {"check", "drain", "ended"}
  /\ gone \subseteq Callers
  /\ slot \in [Threads -> NoTrans..MaxLen]
  /\ queue \in Seq(Ops) /\ results \in Seq(Ops)
  /\ job \in [Executors -> Job \cup {Idle}]
  /\ parked \in [Threads -> Ops \cup {0}]
  /\ holder \in Executors \cup {Nobody}
  /\ inTrans \in BOOLEAN /\ open \subseteq (Ops \X (1..MaxLen))
  /\ durable \subseteq (Ops \X (1..MaxLen))
  /\ issued \in Seq([kind : Kinds, len : 0..MaxLen])
  /\ Len(issued) <= MaxOps
  /\ ran \subseteq Ops
  /\ promised \subseteq Ops /\ answered \subseteq Ops

Init ==
  /\ phase = "loading"
  /\ async = FALSE /\ shutdown = FALSE /\ running = TRUE
  /\ worker = "check"
  /\ gone = {}
  /\ slot = [t \in Threads |-> NoTrans]
  /\ queue = <<>> /\ results = <<>>
  /\ job = [e \in Executors |-> Idle]
  /\ parked = [t \in Threads |-> 0]
  /\ holder = Nobody
  /\ inTrans = FALSE /\ open = {} /\ durable = {}
  /\ issued = <<>> /\ ran = {}
  /\ promised = {} /\ answered = {}
-----------------------------------------------------------------------------
(* Issuing operations.                                                     *)

\* The thread runs code of the server that may use the database now: the
\* other threads start after the world is loaded.
Acting(t) ==
  /\ job[t] = Idle /\ parked[t] = 0
  /\ IF t = World THEN phase \in {"loading", "running", "closing", "final"}
                  ELSE phase \in {"running", "closing"} /\ t \notin gone

\* CanDelayWork: the slot and the delay thread's body go in HaltDelayThread.
CanDelayWork == phase \in {"loading", "running", "closing", "halting"}

NewOp == Len(issued) + 1

\* Within the bound, counting the transactions that are still to be committed
Room == Len(issued) + Cardinality({t \in Threads : slot[t] # NoTrans}) < MaxOps

Issue(kind, len) == issued' = Append(issued, [kind |-> kind, len |-> len])

\* SqlDelayThread::Delay
Delay == queue' = Append(queue, NewOp) /\ job' = job

\* SqlOperation::Execute / DirectExecute on the calling thread
RunHere(t) ==
  /\ job' = [job EXCEPT ![t] = [op |-> NewOp, step |-> "lock", k |-> 1, ok |-> TRUE]]
  /\ queue' = queue

issuing == <<life, delay, results, holder, server, ran, told>>

BeginTransaction(t) ==
  /\ Acting(t) /\ CanDelayWork
  /\ slot[t] = NoTrans /\ Room
  /\ slot' = [slot EXCEPT ![t] = 0]
  /\ UNCHANGED <<issuing, queue, job, parked, issued>>

\* Execute and ExecuteStmt inside a transaction: SqlTransaction::DelayExecute
ExecuteInTransaction(t) ==
  /\ Acting(t) /\ CanDelayWork
  /\ slot[t] \in 0..MaxLen - 1
  /\ slot' = [slot EXCEPT ![t] = @ + 1]
  /\ UNCHANGED <<issuing, queue, job, parked, issued>>

\* Execute and ExecuteStmt outside one
Execute(t) ==
  /\ Acting(t) /\ CanDelayWork
  /\ slot[t] = NoTrans /\ Room
  /\ Issue("write", 1)
  /\ IF async THEN Delay ELSE RunHere(t)
  /\ UNCHANGED <<issuing, slot, parked>>

\* DirectExecute and DirectExecuteStmt never queue.
DirectExecute(t) ==
  /\ Acting(t) /\ Room
  /\ Issue("direct", 1)
  /\ RunHere(t)
  /\ UNCHANGED <<issuing, slot, parked>>

CommitTransaction(t) ==
  /\ Acting(t) /\ CanDelayWork
  /\ slot[t] # NoTrans
  /\ Issue("transaction", slot[t])
  /\ slot' = [slot EXCEPT ![t] = NoTrans]
  /\ IF async THEN Delay ELSE RunHere(t)
  /\ UNCHANGED <<issuing, parked>>

CommitCheckedHere(t) ==          \* mutant: always on the calling thread
  /\ Acting(t) /\ CanDelayWork
  /\ slot[t] # NoTrans
  /\ Issue("checked", slot[t])
  /\ slot' = [slot EXCEPT ![t] = NoTrans]
  /\ RunHere(t)
  /\ UNCHANGED <<issuing, parked>>

CommitTransactionChecked(t) ==
  /\ Acting(t) /\ CanDelayWork
  /\ slot[t] # NoTrans
  /\ Issue("checked", slot[t])
  /\ slot' = [slot EXCEPT ![t] = NoTrans]
  /\ IF async /\ running
       THEN Delay /\ parked' = [parked EXCEPT ![t] = NewOp]
       ELSE RunHere(t) /\ parked' = parked
  /\ UNCHANGED issuing

\* What was rolled back keeps its number, so that a thread that begins and
\* rolls back for ever is cut off by the bound as well.
RollbackTransaction(t) ==
  /\ Acting(t) /\ CanDelayWork
  /\ slot[t] # NoTrans
  /\ Issue("none", 0)
  /\ slot' = [slot EXCEPT ![t] = NoTrans]
  /\ UNCHANGED <<issuing, queue, job, parked>>

AsyncQueryAlways(t) ==           \* mutant: the flag is not looked at
  /\ Acting(t) /\ Room
  /\ Issue("query", 0)
  /\ Delay
  /\ UNCHANGED <<issuing, slot, parked>>

\* AsyncQuery and DelayQueryHolder
AsyncQuery(t) ==
  /\ Acting(t) /\ Room
  /\ ~shutdown
  /\ Issue("query", 0)
  /\ Delay
  /\ UNCHANGED <<issuing, slot, parked>>
-----------------------------------------------------------------------------
(* Executing an operation on the asynchronous connection.                  *)

Op(e) == issued[job[e].op]
IsTransaction(e) == Op(e).kind \in {"transaction", "checked"}
At(e, step) == job[e].step = step
Goto(e, step) == job' = [job EXCEPT ![e].step = step]
Fail(e, step) == job' = [job EXCEPT ![e].step = step, ![e].ok = FALSE]

issuer == <<life, delay, slot, queue, parked, issued>>

TakeConnectionUnlocked(e) ==     \* mutant: the mutex is not taken
  /\ At(e, "lock")
  /\ holder' = e
  /\ ran' = ran \cup {job[e].op}
  /\ Goto(e, IF ~IsTransaction(e) THEN "run" ELSE IF Op(e).len = 0 THEN "finish" ELSE "begin")
  /\ UNCHANGED <<issuer, results, server, told>>

\* SqlConnection::Lock; an empty transaction does nothing.
TakeConnection(e) ==
  /\ At(e, "lock")
  /\ holder = Nobody
  /\ holder' = e
  /\ ran' = ran \cup {job[e].op}
  /\ Goto(e, IF ~IsTransaction(e) THEN "run" ELSE IF Op(e).len = 0 THEN "finish" ELSE "begin")
  /\ UNCHANGED <<issuer, results, server, told>>

\* START TRANSACTION commits what was left open.
Begin(e) ==
  /\ At(e, "begin")
  /\ durable' = durable \cup open
  /\ inTrans' = TRUE /\ open' = {}
  /\ Goto(e, "run")
  /\ UNCHANGED <<issuer, results, holder, ran, told>>

BeginFails(e) ==
  /\ At(e, "begin")
  /\ Fail(e, "finish")
  /\ UNCHANGED <<issuer, results, holder, server, ran, told>>

\* Where a statement that succeeded leaves the operation
AfterStatement(e) ==
  IF ~IsTransaction(e) THEN "finish"
  ELSE IF job[e].k = Op(e).len THEN "commit" ELSE "run"

AfterFailureNoRollback(e) == "finish"   \* mutant: the transaction is left open

\* ... and one that failed
AfterFailure(e) == IF IsTransaction(e) THEN "rollback" ELSE "finish"

StatementSucceeds(e) ==
  /\ At(e, "run") /\ Op(e).kind # "query"
  /\ LET s == <<job[e].op, job[e].k>> IN
       IF inTrans THEN open' = open \cup {s} /\ durable' = durable
                  ELSE durable' = durable \cup {s} /\ open' = open
  /\ job' = [job EXCEPT ![e].step = AfterStatement(e), ![e].k = @ + 1]
  /\ UNCHANGED <<issuer, results, holder, inTrans, ran, told>>

\* The server may have dropped the transaction or not: ROLLBACK comes next.
StatementFails(e) ==
  /\ At(e, "run") /\ Op(e).kind # "query"
  /\ Fail(e, AfterFailure(e))
  /\ UNCHANGED <<issuer, results, holder, server, ran, told>>

\* SqlQuery and SqlQueryHolderEx: the callback is queued whatever the result.
Query(e) ==
  /\ At(e, "run") /\ Op(e).kind = "query"
  /\ results' = Append(results, job[e].op)
  /\ Goto(e, "finish")
  /\ UNCHANGED <<issuer, holder, server, ran, told>>

\* ROLLBACK fails only where the server has rolled back by itself.
Rollback(e) ==
  /\ At(e, "rollback")
  /\ inTrans' = FALSE /\ open' = {}
  /\ Goto(e, "finish")
  /\ UNCHANGED <<issuer, results, holder, durable, ran, told>>

Commit(e) ==
  /\ At(e, "commit")
  /\ inTrans' = FALSE /\ open' = {}
  /\ durable' = durable \cup open
  /\ Goto(e, "finish")
  /\ UNCHANGED <<issuer, results, holder, ran, told>>

\* The connection is lost under COMMIT, before or after the server acted.
CommitFails(e) ==
  /\ At(e, "commit")
  /\ inTrans' = FALSE /\ open' = {}
  /\ durable' \in {durable, durable \cup open}
  /\ Fail(e, "finish")
  /\ UNCHANGED <<issuer, results, holder, ran, told>>

\* The operation returns to the thread that waits for it, through the parked
\* caller's promise or as the value of the call, and lets the connection go.
Finish(e) ==
  /\ At(e, "finish")
  /\ promised' = IF job[e].ok /\ Op(e).kind \in {"direct", "checked"}
                   THEN promised \cup {job[e].op} ELSE promised
  /\ parked' = [t \in Threads |-> IF parked[t] = job[e].op THEN 0 ELSE parked[t]]
  /\ job' = [job EXCEPT ![e] = Idle]
  /\ holder' = Nobody
  /\ UNCHANGED <<life, delay, slot, queue, issued, results, server, ran, answered>>
-----------------------------------------------------------------------------
(* The delay thread: run, ProcessRequests.                                 *)

\* LockedQueue::next
TakeNext(e) ==
  /\ job[e] = Idle
  /\ queue # <<>>
  /\ job' = [job EXCEPT ![e] = [op |-> Head(queue), step |-> "lock", k |-> 1, ok |-> TRUE]]
  /\ queue' = Tail(queue)
  /\ UNCHANGED <<life, delay, slot, results, parked, holder, server,
                 issued, ran, told>>

idleStep == <<life, slot, queue, results, job, parked, holder, server,
              issued, ran, told>>

\* while (m_running): after the sleep the queue is drained once more.
WorkerLoop ==
  /\ worker = "check"
  /\ worker' = IF running THEN "drain" ELSE "ended"
  /\ UNCHANGED <<running, idleStep>>

WorkerTakes == worker = "drain" /\ TakeNext(Worker)

WorkerDrained ==
  /\ worker = "drain" /\ job[Worker] = Idle
  /\ queue = <<>>
  /\ worker' = "check"
  /\ UNCHANGED <<running, idleStep>>
-----------------------------------------------------------------------------
(* The world thread: Master::Run, World::UpdateResultQueue.                *)

exceptPhase == <<delay, slot, queue, results, job, parked, holder, server,
                 issued, ran, told>>

\* The world is loaded; the listener opens and the other threads start.
AllowAsyncTransactions ==
  /\ phase = "loading" /\ Acting(World) /\ slot[World] = NoTrans
  /\ phase' = "running" /\ async' = TRUE
  /\ UNCHANGED <<shutdown, gone, exceptPhase>>

\* One turn of SqlResultQueue::Update
RunCallback ==
  /\ phase \in {"running", "final"} /\ Acting(World)
  /\ results # <<>>
  /\ answered' = answered \cup {Head(results)}
  /\ results' = Tail(results)
  /\ UNCHANGED <<life, delay, slot, queue, job, parked, holder, server,
                 issued, ran, promised>>

BeginShutdown ==
  /\ phase = "running" /\ Acting(World) /\ slot[World] = NoTrans
  /\ phase' = "closing" /\ shutdown' = TRUE
  /\ UNCHANGED <<async, gone, exceptPhase>>

\* ShutdownWorld and StopServices end the other threads, each between two
\* pieces of work.
CallerEnds(t) ==
  /\ phase = "closing" /\ Acting(t) /\ t # World /\ slot[t] = NoTrans
  /\ gone' = gone \cup {t}
  /\ UNCHANGED <<phase, async, shutdown, exceptPhase>>

\* HaltDelayThread: Stop ...
Halt ==
  /\ phase = "closing" /\ Acting(World) /\ slot[World] = NoTrans
  /\ gone = Callers
  /\ phase' = "halting" /\ running' = FALSE
  /\ UNCHANGED <<async, shutdown, gone, worker, slot, queue, results, job, parked,
                 holder, server, issued, ran, told>>

\* ... wait ...
Join ==
  /\ phase = "halting" /\ worker = "ended"
  /\ phase' = "sweeping"
  /\ UNCHANGED <<async, shutdown, gone, exceptPhase>>

\* ... and ~SqlDelayThread, on the world thread.
Sweep == phase = "sweeping" /\ TakeNext(World)

SweptUnswept ==                  \* mutant: the destructor does not sweep
  /\ phase = "sweeping" /\ job[World] = Idle
  /\ phase' = "final"
  /\ UNCHANGED <<async, shutdown, gone, exceptPhase>>

Swept ==
  /\ phase = "sweeping" /\ job[World] = Idle
  /\ queue = <<>>
  /\ phase' = "final"
  /\ UNCHANGED <<async, shutdown, gone, exceptPhase>>

\* The last ProcessResultQueue has found the result queue empty.
Drained ==
  /\ phase = "final" /\ Acting(World)
  /\ results = <<>>
  /\ phase' = "done"
  /\ UNCHANGED <<async, shutdown, gone, exceptPhase>>
-----------------------------------------------------------------------------
Caller(t) ==
  \/ BeginTransaction(t)
  \/ ExecuteInTransaction(t)
  \/ Execute(t)
  \/ DirectExecute(t)
  \/ CommitTransaction(t)
  \/ CommitTransactionChecked(t)
  \/ RollbackTransaction(t)
  \/ AsyncQuery(t)

Executing(e) ==
  \/ TakeConnection(e)
  \/ Begin(e)
  \/ BeginFails(e)
  \/ StatementSucceeds(e)
  \/ StatementFails(e)
  \/ Query(e)
  \/ Rollback(e)
  \/ Commit(e)
  \/ CommitFails(e)
  \/ Finish(e)

DelayThread == WorkerLoop \/ WorkerTakes \/ WorkerDrained

Stopping == Halt \/ Join \/ Sweep \/ Swept \/ Drained

Next ==
  \/ \E t \in Threads : Caller(t)
  \/ \E e \in Executors : Executing(e)
  \/ DelayThread
  \/ AllowAsyncTransactions
  \/ RunCallback
  \/ BeginShutdown
  \/ \E t \in Callers : CallerEnds(t)
  \/ Stopping

Spec == Init /\ [][Next]_vars

EndTransaction(t) ==
  CommitTransaction(t) \/ CommitTransactionChecked(t) \/ RollbackTransaction(t)

\* What each thread does of itself
WorldStep ==
  \/ Executing(World) \/ EndTransaction(World)
  \/ AllowAsyncTransactions \/ RunCallback \/ Stopping

CallerStep(t) == Executing(t) \/ EndTransaction(t) \/ CallerEnds(t)

WorkerStep == Executing(Worker) \/ DelayThread

\* Threads that can run do, and a transaction once begun is ended (by the
\* function that began it).  Nothing says that an operator ever stops the
\* server or that a statement succeeds.
FairSpec ==
  /\ Spec
  /\ WF_vars(WorldStep)
  /\ WF_vars(WorkerStep)
  /\ \A t \in Callers : WF_vars(CallerStep(t))
-----------------------------------------------------------------------------
(* What the database promises.                                             *)

\* A transaction is all or nothing, whatever statement fails, wherever the
\* connection is lost and whoever else executes directly on it.
TransactionsWhole ==
  \A n \in DOMAIN issued :
     Statements(n) \subseteq durable \/ Statements(n) \cap durable = {}

\* A caller that was told that its write was done finds it done: a checked
\* commit that answered true, a direct statement that returned true.
ReportedDurable ==
  \A n \in promised : Statements(n) \subseteq durable

\* A write is run before everything that was issued after it, by any thread
\* and through any of the three paths: a query sees the writes before it.
\* Only DirectExecute is allowed to overtake.
Overtaken(n) ==
  {w \in 1..n - 1 \ ran : /\ issued[w].kind \in {"write", "transaction", "checked"}
                         /\ issued[n].kind # "direct"}

WritesInOrder == [][\A n \in ran' \ ran : Overtaken(n) = {}]_vars

\* When the server has shut down, everything accepted was run, every callback
\* of an accepted query has been called, and no thread waits for a commit.
NothingDiscarded ==
  phase = "done" =>
     /\ \A n \in DOMAIN issued : issued[n].kind # "none" => n \in ran
     /\ \A n \in DOMAIN issued : issued[n].kind = "query" => n \in answered
     /\ \A t \in Threads : parked[t] = 0

\* The callback of an accepted query runs, in the world loop or in the last
\* drain, no thread stays parked on a checked commit whatever fails, and a
\* shutdown under way comes to its end.
Settles ==
  []<>(/\ phase \in {"loading", "running", "done"}
       /\ \A n \in DOMAIN issued : issued[n].kind = "query" => n \in answered
       /\ \A t \in Threads : parked[t] = 0)
=============================================================================
