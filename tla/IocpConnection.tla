--------------------------- MODULE IocpConnection ---------------------------
(***************************************************************************)
(* One connection of net::IocpServer: a reference-counted ConnCtx, workers *)
(* that dispatch its completions in any order, threads that post to its    *)
(* SendChannel or ask it to close, and stop().                             *)
(*                                                                         *)
(* A step is one critical section or one access to an atomic.  Mutexes a   *)
(* step does not outlast are left out; cb and the channel's mu are held    *)
(* across steps and are modelled.  Bytes are counted.                      *)
(***************************************************************************)
EXTENDS Naturals, FiniteSets

CONSTANTS Workers,      \* IOCP worker threads
          Threads,      \* threads holding the session's Sender and Closer
          MaxBytes,     \* bound on queued bytes
          Nobody        \* no holder of a mutex

Actors == Workers \cup Threads

ASSUME IocpAssumption == /\ MaxBytes \in Nat
                         /\ IsFiniteSet(Workers) /\ IsFiniteSet(Threads)
                         /\ Workers \cap Threads = {}
                         /\ Nobody \notin Actors

VARIABLES
  refs, freed, dead,        \* ConnCtx::refs, deleted, ConnCtx::dead
  sock, sendShutdown,       \* "open" or "closed"; the FIN was sent
  cb, dispatching,          \* holder of ConnCtx::cb; the flag
  recvOp, sendOp,           \* overlapped operations
  mu, armed, closeRequested,\* the channel: holder of mu, ctx # nullptr, flag
  out, writing,             \* the SendQueue: bytes, a write is owned
  shut, known, onCloses,    \* session: closed(), reachable, onClose() calls
  asked,                    \* history: a thread outside the callbacks asked to close
  at, op,                   \* where each actor is; what each worker dispatches
  adopted, stop             \* in m_conns until freed; IocpServer::stop()

lifeVars == <<refs, freed, dead>>
sockVars == <<sock, sendShutdown>>
cbVars   == <<cb, dispatching>>
opVars   == <<recvOp, sendOp>>
chanVars == <<mu, armed, closeRequested>>
outVars  == <<out, writing>>
sessVars == <<shut, known, onCloses, asked>>
srvVars  == <<adopted, stop>>
vars == <<lifeVars, sockVars, cbVars, opVars, chanVars, outVars, sessVars, at, op, srvVars>>

\* An operation: not posted, in the kernel, or completed and not dequeued.
OpState == {"none", "posted", "ok", "failed"}

WorkerAt == {"idle", "adopt", "greet", "lock", "data", "append", "postSend", "greeted", "sent",
             "drainCheck", "drained", "halfClose", "closedTest", "rearm", "dead", "disarm",
             "teardown", "unlock", "release"}
ThreadAt == {"idle", "send", "append", "postSend", "ask", "seeDispatching",
             "drainCheck", "drained", "halfClose"}

TypeOK ==
  /\ refs \in Nat /\ freed \in BOOLEAN /\ dead \in BOOLEAN
  /\ sock \in {"open", "closed"} /\ sendShutdown \in BOOLEAN
  /\ cb \in Workers \cup {Nobody} /\ dispatching \in BOOLEAN
  /\ recvOp \in OpState /\ sendOp \in OpState
  /\ mu \in Threads \cup {Nobody} /\ armed \in BOOLEAN /\ closeRequested \in BOOLEAN
  /\ out \in 0..MaxBytes /\ writing \in BOOLEAN
  /\ shut \in BOOLEAN /\ known \in BOOLEAN /\ onCloses \in Nat /\ asked \in BOOLEAN
  /\ at \in [Actors -> WorkerAt \cup ThreadAt]
  /\ op \in [Workers -> {"accept", "recv", "send", "failed"}]
  /\ adopted \in BOOLEAN /\ stop \in {"no", "closing", "done"}

\* An accept completed: the context has its "alive" reference and the one of
\* the accept handler, and the channel is armed before onConnect().
Init ==
  /\ refs = 2 /\ freed = FALSE /\ dead = FALSE
  /\ sock = "open" /\ sendShutdown = FALSE
  /\ cb = Nobody /\ dispatching = FALSE
  /\ recvOp = "none" /\ sendOp = "none"
  /\ mu = Nobody /\ armed = TRUE /\ closeRequested = FALSE
  /\ out = 0 /\ writing = FALSE
  /\ shut = FALSE /\ known = FALSE /\ onCloses = 0 /\ asked = FALSE
  /\ \E w \in Workers : at = [a \in Actors |-> IF a = w THEN "adopt" ELSE "idle"]
  /\ op = [w \in Workers |-> "accept"]
  /\ adopted = FALSE /\ stop = "no"

Go(a, x, y) == at[a] = x /\ at' = [at EXCEPT ![a] = y]

\* Bounds the bytes queued and about to be.
Space == out + Cardinality({a \in Actors : at[a] \in {"send", "append"}}) < MaxBytes
-----------------------------------------------------------------------------
(* handleAccept(): adopt, greet, then the common tail of every callback.   *)

Adopt(w) ==
  /\ Go(w, "adopt", IF stop = "no" THEN "greet" ELSE "idle")
  /\ adopted' = (stop = "no")
  /\ IF stop = "no" THEN UNCHANGED <<lifeVars, sock>>
                    ELSE refs' = 0 /\ freed' = TRUE /\ sock' = "closed" /\ UNCHANGED dead
  /\ UNCHANGED <<sendShutdown, cbVars, opVars, chanVars, outVars, sessVars, op, stop>>

\* onConnect(), whose greeting is queued next; the session may ask to close.
Greet(w, n, closes) ==
  /\ cb = Nobody
  /\ n > 0 => Space
  /\ Go(w, "greet", IF n > 0 THEN "append" ELSE "greeted")
  /\ cb' = w /\ dispatching' = TRUE
  /\ shut' = (shut \/ closes) /\ closeRequested' = (closeRequested \/ closes)
  /\ known' = TRUE
  /\ UNCHANGED <<lifeVars, sockVars, opVars, mu, armed, outVars, onCloses, asked, op, srvVars>>

Greeted(w) ==
  /\ Go(w, "greeted", "drainCheck")
  /\ dispatching' = FALSE
  /\ UNCHANGED <<lifeVars, sockVars, cb, opVars, chanVars, outVars, sessVars, op, srvVars>>
-----------------------------------------------------------------------------
(* A worker dequeues a completion and dispatches it under cb.              *)

Take(w, state, kind) ==
  /\ state \in {"ok", "failed"}
  /\ Go(w, "idle", "lock")
  /\ op' = [op EXCEPT ![w] = IF state = "ok" THEN kind ELSE "failed"]
  /\ UNCHANGED <<lifeVars, sockVars, cbVars, chanVars, outVars, sessVars, srvVars>>

TakeRecv(w) == Take(w, recvOp, "recv") /\ recvOp' = "none" /\ UNCHANGED sendOp
TakeSend(w) == Take(w, sendOp, "send") /\ sendOp' = "none" /\ UNCHANGED recvOp

LateDataDelivered == FALSE     \* mutant: the dead test before onData() is gone
LateDataDropped   == dead

Lock(w) ==
  /\ cb = Nobody
  /\ Go(w, "lock", CASE op[w] = "failed" -> "dead"
                     [] op[w] # "failed" /\ LateDataDropped -> "unlock"
                     [] op[w] = "recv" /\ ~LateDataDropped -> "data"
                     [] op[w] = "send" /\ ~LateDataDropped -> "sent")
  /\ cb' = w /\ dispatching' = TRUE
  /\ UNCHANGED <<lifeVars, sockVars, opVars, chanVars, outVars, sessVars, op, srvVars>>

\* onData(): an answer, and perhaps a close from inside the callback, which
\* requestClose() only records.
Data(w, n, closes) ==
  /\ n > 0 => Space
  /\ Go(w, "data", IF n > 0 THEN "append" ELSE "drainCheck")
  /\ shut' = (shut \/ closes) /\ closeRequested' = (closeRequested \/ closes)
  /\ UNCHANGED <<lifeVars, sockVars, cbVars, opVars, mu, armed, outVars, known, onCloses,
                 asked, op, srvVars>>

NoRecheck     == "unlock"       \* mutant: a finished send does not look at the close
AfterLastSpan == "drainCheck"

\* onSendComplete(): consume() what was transferred, then the next span.
Sent(w, n) ==
  /\ n \in 1..out
  /\ Go(w, "sent", IF n < out THEN "postSend" ELSE AfterLastSpan)
  /\ out' = out - n
  /\ writing' = (n < out)
  /\ UNCHANGED <<lifeVars, sockVars, cbVars, opVars, chanVars, sessVars, op, srvVars>>

\* closed() and nothing left: tear down.  Otherwise keep a recv posted.
ClosedTest(w) ==
  /\ Go(w, "closedTest", IF shut /\ out = 0 THEN "dead"
                         ELSE IF op[w] = "send" THEN "unlock" ELSE "rearm")
  /\ UNCHANGED <<lifeVars, sockVars, cbVars, opVars, chanVars, outVars, sessVars, op, srvVars>>

\* postRecv(): fails on a closed socket, or by itself.
Rearm(w) ==
  /\ sock = "open"
  /\ Go(w, "rearm", "unlock")
  /\ recvOp' = "posted" /\ refs' = refs + 1
  /\ UNCHANGED <<freed, dead, sockVars, cbVars, sendOp, chanVars, outVars, sessVars, op, srvVars>>

RearmFails(w) ==
  /\ Go(w, "rearm", "dead")
  /\ UNCHANGED <<lifeVars, sockVars, cbVars, opVars, chanVars, outVars, sessVars, op, srvVars>>

TornDown  == dead

\* markDead(): the first caller disarms, tells the session, closes the
\* socket and drops the alive reference.
MarkDead(w) ==
  /\ Go(w, "dead", IF TornDown THEN "unlock" ELSE "disarm")
  /\ dead' = TRUE
  /\ UNCHANGED <<refs, freed, sockVars, cbVars, opVars, chanVars, outVars, sessVars, op, srvVars>>

Disarm(w) ==
  /\ mu = Nobody
  /\ Go(w, "disarm", "teardown")
  /\ armed' = FALSE
  /\ UNCHANGED <<lifeVars, sockVars, cbVars, opVars, mu, closeRequested, outVars, sessVars,
                 op, srvVars>>

AliveKept    == refs            \* mutant: the alive reference is never dropped
AliveDropped == refs - 1

Teardown(w) ==
  /\ Go(w, "teardown", "unlock")
  /\ onCloses' = onCloses + 1 /\ shut' = TRUE
  /\ sock' = "closed"
  /\ refs' = AliveDropped
  /\ freed' = (freed \/ AliveDropped = 0)
  /\ UNCHANGED <<dead, sendShutdown, cbVars, opVars, chanVars, outVars, known, asked, op, srvVars>>

Unlock(w) ==
  /\ Go(w, "unlock", "release")
  /\ cb' = Nobody /\ dispatching' = FALSE
  /\ UNCHANGED <<lifeVars, sockVars, opVars, chanVars, outVars, sessVars, op, srvVars>>

Release(w) ==
  /\ Go(w, "release", "idle")
  /\ refs' = refs - 1
  /\ freed' = (freed \/ refs = 1)
  /\ UNCHANGED <<dead, sockVars, cbVars, opVars, chanVars, outVars, sessVars, op, srvVars>>
-----------------------------------------------------------------------------
(* enqueue(): append, and whoever finds no write running starts one.  The  *)
(* dispatcher calls it directly, other threads from post(), under mu.      *)

Returned(a) == IF a \in Threads THEN "idle"
               ELSE IF op[a] = "accept" THEN "greeted" ELSE "drainCheck"
MuAfter(a)  == IF a \in Threads THEN Nobody ELSE mu

Append(a) ==
  /\ Go(a, "append", IF writing THEN Returned(a) ELSE "postSend")
  /\ out' = out + 1 /\ writing' = TRUE
  /\ mu' = IF writing THEN MuAfter(a) ELSE mu
  /\ UNCHANGED <<lifeVars, sockVars, cbVars, opVars, armed, closeRequested, sessVars, op, srvVars>>

UnreferencedSend == refs       \* mutant: the posted send holds no reference
SendReference    == refs + 1

PostSend(a) ==
  /\ sock = "open"
  /\ Go(a, "postSend", Returned(a))
  /\ sendOp' = "posted" /\ refs' = SendReference
  /\ mu' = MuAfter(a)
  /\ UNCHANGED <<freed, dead, sockVars, cbVars, recvOp, armed, closeRequested, outVars,
                 sessVars, op, srvVars>>

\* The socket is closed, or half-closed, or WSASend() fails at once: abortWrite().
PostSendFails(a) ==
  /\ Go(a, "postSend", Returned(a))
  /\ writing' = FALSE
  /\ mu' = MuAfter(a)
  /\ UNCHANGED <<lifeVars, sockVars, cbVars, opVars, armed, closeRequested, out, sessVars,
                 op, srvVars>>
-----------------------------------------------------------------------------
(* closeIfDrained(): three looks, by the dispatcher or by the asker.       *)

Done(a) == IF a \in Threads THEN "idle" ELSE "closedTest"

DrainCheck(a) ==
  /\ mu = Nobody
  /\ Go(a, "drainCheck", IF closeRequested THEN "drained" ELSE Done(a))
  /\ UNCHANGED <<lifeVars, sockVars, cbVars, opVars, chanVars, outVars, sessVars, op, srvVars>>

Drained(a) ==
  /\ Go(a, "drained", IF out = 0 THEN "halfClose" ELSE Done(a))
  /\ UNCHANGED <<lifeVars, sockVars, cbVars, opVars, chanVars, outVars, sessVars, op, srvVars>>

HalfClose(a) ==
  /\ Go(a, "halfClose", Done(a))
  /\ sendShutdown' = (sendShutdown \/ sock = "open")
  /\ UNCHANGED <<lifeVars, sock, cbVars, opVars, chanVars, outVars, sessVars, op, srvVars>>
-----------------------------------------------------------------------------
(* A thread of the world: SendPacket(), Close().                           *)

SendPacket(t) ==
  /\ known /\ ~shut
  /\ Space
  /\ Go(t, "idle", "send")
  /\ UNCHANGED <<lifeVars, sockVars, cbVars, opVars, chanVars, outVars, sessVars, op, srvVars>>

PostGoes      == IF armed THEN "append" ELSE "idle"

Post(t) ==
  /\ mu = Nobody
  /\ Go(t, "send", PostGoes)
  /\ mu' = IF PostGoes = "append" THEN t ELSE Nobody
  /\ UNCHANGED <<lifeVars, sockVars, cbVars, opVars, armed, closeRequested, outVars, sessVars,
                 op, srvVars>>

CloseSession(t) ==
  /\ known /\ ~shut
  /\ Go(t, "idle", "ask")
  /\ shut' = TRUE /\ asked' = TRUE
  /\ UNCHANGED <<lifeVars, sockVars, cbVars, opVars, chanVars, outVars, known, onCloses,
                 op, srvVars>>

\* requestClose(): the context is copied under mu and used after it.
RequestClose(t) ==
  /\ mu = Nobody
  /\ Go(t, "ask", IF armed THEN "seeDispatching" ELSE "idle")
  /\ closeRequested' = TRUE
  /\ UNCHANGED <<lifeVars, sockVars, cbVars, opVars, mu, armed, outVars, sessVars, op, srvVars>>

SeeDispatching(t) ==
  /\ Go(t, "seeDispatching", IF dispatching THEN "idle" ELSE "drainCheck")
  /\ UNCHANGED <<lifeVars, sockVars, cbVars, opVars, chanVars, outVars, sessVars, op, srvVars>>
-----------------------------------------------------------------------------
(* The kernel, and stop().                                                 *)

CompleteRecv(result) ==
  /\ recvOp = "posted"
  /\ result = "ok" => sock = "open"
  /\ recvOp' = result
  /\ UNCHANGED <<lifeVars, sockVars, cbVars, sendOp, chanVars, outVars, sessVars, at, op, srvVars>>

CompleteSend(result) ==
  /\ sendOp = "posted"
  /\ sendOp' = result
  /\ UNCHANGED <<lifeVars, sockVars, cbVars, recvOp, chanVars, outVars, sessVars, at, op, srvVars>>

\* Operations on a closed socket complete with an error.
Abort == sock = "closed" /\ (CompleteRecv("failed") \/ CompleteSend("failed"))

StopCalled ==
  /\ stop = "no"
  /\ stop' = "closing"
  /\ UNCHANGED <<lifeVars, sockVars, cbVars, opVars, chanVars, outVars, sessVars, at, op, adopted>>

\* Every connection in m_conns is closed, again and again until none is left.
StopCloses ==
  /\ stop = "closing" /\ adopted /\ ~freed /\ sock = "open"
  /\ sock' = "closed"
  /\ UNCHANGED <<lifeVars, sendShutdown, cbVars, opVars, chanVars, outVars, sessVars, at, op, srvVars>>

NoPendingAccept == \A w \in Workers : at[w] # "idle" => op[w] # "accept"

Quiescent          == NoPendingAccept /\ ~(adopted /\ ~freed)

StopEnds ==
  /\ stop = "closing"
  /\ Quiescent
  /\ stop' = "done"
  /\ UNCHANGED <<lifeVars, sockVars, cbVars, opVars, chanVars, outVars, sessVars, at, op, adopted>>

WorkerStep(w) ==
  \/ Adopt(w) \/ Greeted(w) \/ TakeRecv(w) \/ TakeSend(w) \/ Lock(w)
  \/ Append(w) \/ PostSend(w) \/ PostSendFails(w)
  \/ DrainCheck(w) \/ Drained(w) \/ HalfClose(w) \/ ClosedTest(w) \/ Rearm(w) \/ RearmFails(w)
  \/ MarkDead(w) \/ Disarm(w) \/ Teardown(w) \/ Unlock(w) \/ Release(w)
  \/ \E n \in 0..1, closes \in BOOLEAN : Greet(w, n, closes) \/ Data(w, n, closes)
  \/ \E n \in 1..MaxBytes : Sent(w, n)

ThreadStep(t) ==
  \/ Post(t) \/ Append(t) \/ PostSend(t) \/ PostSendFails(t)
  \/ RequestClose(t) \/ SeeDispatching(t) \/ DrainCheck(t) \/ Drained(t) \/ HalfClose(t)

StopStep == StopCloses \/ StopEnds

Next == \/ \E w \in Workers : WorkerStep(w)
        \/ \E t \in Threads : ThreadStep(t) \/ SendPacket(t) \/ CloseSession(t)
        \/ \E result \in {"ok", "failed"} : CompleteRecv(result) \/ CompleteSend(result)
        \/ StopCalled \/ StopStep

Spec == Init /\ [][Next]_vars

\* Threads run, and a closed socket fails its operations.  A peer that
\* neither writes nor reads is allowed to.
FairSpec == /\ Spec
            /\ \A w \in Workers : WF_vars(WorkerStep(w))
            /\ \A t \in Threads : WF_vars(ThreadStep(t))
            /\ WF_vars(Abort)
            /\ WF_vars(StopStep)
-----------------------------------------------------------------------------
(***************************************************************************)
(* Properties                                                              *)
(***************************************************************************)

\* The context outlives its users: once it is deleted the kernel holds no
\* OVERLAPPED of it, no completion of it is queued or dispatched, and no
\* sender is inside it, which post() and disarm() see to by the channel's
\* mutex.
OutlivesUsers ==
  freed => /\ recvOp = "none" /\ sendOp = "none"
           /\ \A w \in Workers : at[w] = "idle"
           /\ \A t \in Threads : at[t] \notin {"append", "postSend"}

\* The channel's comment: "a world thread that still holds a reference can
\* never touch a freed ConnCtx", with requestClose() included.
WorldNeverTouchesFreed == freed => \A t \in Threads : at[t] \in {"idle", "send", "ask"}

\* The session's callbacks run one at a time, onClose() once and last.
InCallback == {"data", "append", "greeted", "sent", "closedTest", "rearm", "dead", "disarm", "teardown"}
CallbacksSerial ==
  /\ Cardinality({w \in Workers : at[w] \in InCallback}) <= 1
  /\ onCloses <= 1
  /\ onCloses = 1 => \A w \in Workers : at[w] # "data"

\* requestClose()'s comment: "every completion path already re-checks".  A
\* close asked for inside a callback has been acted on once nobody is at work
\* on the connection and nothing is left to send.
CloseActedOn ==
  /\ closeRequested /\ ~asked /\ out = 0 /\ ~dead
  /\ \A a \in Actors : at[a] = "idle"
  /\ recvOp = "posted" /\ sendOp = "none"
  => sendShutdown \/ sock = "closed"

\* stop() returns, and by then the connection is gone for good.
StopReturns == stop = "closing" ~> stop = "done" /\ freed
=============================================================================
