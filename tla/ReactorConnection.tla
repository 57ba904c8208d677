------------------------- MODULE ReactorConnection --------------------------
(***************************************************************************)
(* One connection of net::ReactorServer, from accept to delete: the        *)
(* acceptor thread, the worker that owns the connection, threads holding   *)
(* its SendChannel (post, requestClose), the peer, and stop().             *)
(*                                                                         *)
(* A worker step ends at the next access to something another thread also  *)
(* touches: the channel, the request queue, the incoming list, the         *)
(* session's closed flag.  Bytes are counted; the queue itself is modelled *)
(* in SendQueue.                                                           *)
(***************************************************************************)
EXTENDS Naturals, FiniteSets

CONSTANTS Threads,         \* threads that hold the session's Sender and Closer
          MaxBytes,        \* bound on queued bytes
          MaxRequests,     \* bound on entries of this channel in the queue
          AddCanFail       \* may the poller refuse the descriptor?

ASSUME ReactorAssumption == /\ MaxBytes \in Nat
                            /\ MaxRequests \in Nat
                            /\ AddCanFail \in BOOLEAN

VARIABLES
  \* the Connection
  conn,            \* "none", "live" or "freed"
  registered,      \* on the poller and in Worker::conns
  writeArmed,      \* writeArmed, and EvWrite interest on the poller
  drainClose,      \* closeAfterDrain
  \* the SendChannel
  alive, closeRequested, out,
  \* the Worker
  incoming,        \* the connection is in Worker::incoming
  reqQueue,        \* entries of the channel in Worker::reqQueue
  woken,           \* wake() not seen yet
  worker,          \* where the worker is
  from,            \* who called flush()
  writable,        \* the event being handled also has EvWrite
  reqs,            \* entries left in drainSendRequests()'s own deque
  wantClose,
  \* the session
  shut,            \* closed()
  known,           \* other threads can reach it
  onClosed,        \* onClose() was called
  refused,         \* history: it called its Closer inside onConnect()
  \* the world outside
  acceptor, at, stop, peer, inbox, room

connVars    == <<conn, registered, writeArmed, drainClose>>
chanVars    == <<alive, closeRequested, out>>
queueVars   == <<incoming, reqQueue, woken>>
workVars    == <<worker, from, writable, reqs, wantClose>>
sessionVars == <<shut, known, onClosed, refused>>
outsideVars == <<peer, inbox, room>>
vars == <<connVars, chanVars, queueVars, workVars, sessionVars, acceptor, at, stop, outsideVars>>

AcceptorAt == {"accept", "connect", "closePush", "closeWake", "greet", "handoff", "wake", "done"}
WorkerAt   == {"wait", "recv", "flush", "readClosed", "writeDone", "incoming", "add",
               "takeReqs", "nextReq", "reqClose", "shutdown", "ended"}
ThreadAt   == {"idle", "send", "ask", "push", "wake"}
StopAt     == {"no", "joinAcceptor", "joinWorker", "done"}
Callers    == {"read", "write", "incoming", "request"}

TypeOK ==
  /\ conn \in {"none", "live", "freed"}
  /\ registered \in BOOLEAN /\ writeArmed \in BOOLEAN /\ drainClose \in BOOLEAN
  /\ alive \in BOOLEAN /\ closeRequested \in BOOLEAN /\ out \in 0..MaxBytes
  /\ incoming \in BOOLEAN /\ woken \in BOOLEAN /\ reqQueue \in Nat
  /\ worker \in WorkerAt /\ from \in Callers /\ writable \in BOOLEAN
  /\ reqs \in Nat /\ wantClose \in BOOLEAN
  /\ shut \in BOOLEAN /\ known \in BOOLEAN /\ onClosed \in BOOLEAN /\ refused \in BOOLEAN
  /\ acceptor \in AcceptorAt /\ at \in [Threads -> ThreadAt] /\ stop \in StopAt
  /\ peer \in {"open", "gone"} /\ inbox \in BOOLEAN /\ room \in BOOLEAN

Init ==
  /\ conn = "none" /\ registered = FALSE /\ writeArmed = FALSE /\ drainClose = FALSE
  /\ alive = FALSE /\ closeRequested = FALSE /\ out = 0
  /\ incoming = FALSE /\ reqQueue = 0 /\ woken = FALSE
  /\ worker = "wait" /\ from = "read" /\ writable = FALSE /\ reqs = 0 /\ wantClose = FALSE
  /\ shut = FALSE /\ known = FALSE /\ onClosed = FALSE /\ refused = FALSE
  /\ acceptor = "accept" /\ at = [t \in Threads |-> "idle"] /\ stop = "no"
  /\ peer = "open" /\ inbox = FALSE /\ room = TRUE

running == stop = "no"
-----------------------------------------------------------------------------
(* The acceptor thread.                                                    *)

AcceptorGo(a, b) == acceptor = a /\ acceptor' = b

HandedOffYet   == incoming

\* accept(), new Connection, new SendChannel; the worker is chosen, no more.
Accept ==
  /\ AcceptorGo("accept", "connect")
  /\ conn' = "live" /\ alive' = TRUE
  /\ incoming' = HandedOffYet
  /\ UNCHANGED <<registered, writeArmed, drainClose, closeRequested, out, reqQueue, woken,
                 workVars, sessionVars, at, stop, outsideVars>>

\* onConnect() returns a greeting ...
Greet ==
  /\ AcceptorGo("connect", "greet")
  /\ UNCHANGED <<connVars, chanVars, queueVars, workVars, sessionVars, at, stop, outsideVars>>

\* ... or refuses the client and calls the Closer: requestClose() runs on
\* the acceptor thread.
CloseInConnect ==
  /\ AcceptorGo("connect", "closePush")
  /\ shut' = TRUE
  /\ refused' = TRUE
  /\ closeRequested' = (closeRequested \/ alive)
  /\ UNCHANGED <<connVars, alive, out, queueVars, workVars, known, onClosed, at, stop, outsideVars>>

ConnectPush ==
  /\ AcceptorGo("closePush", "closeWake")
  /\ reqQueue' = reqQueue + 1
  /\ UNCHANGED <<connVars, chanVars, incoming, woken, workVars, sessionVars, at, stop, outsideVars>>

ConnectWake ==
  /\ AcceptorGo("closeWake", "handoff")
  /\ woken' = TRUE
  /\ UNCHANGED <<connVars, chanVars, incoming, reqQueue, workVars, sessionVars, at, stop, outsideVars>>

AppendGreeting ==
  /\ AcceptorGo("greet", "handoff")
  /\ out' \in {n \in {out, out + 1} : n <= MaxBytes}
  /\ UNCHANGED <<connVars, alive, closeRequested, queueVars, workVars, sessionVars, at, stop, outsideVars>>

Handoff ==
  /\ AcceptorGo("handoff", "wake")
  /\ incoming' = TRUE
  /\ UNCHANGED <<connVars, chanVars, reqQueue, woken, workVars, sessionVars, at, stop, outsideVars>>

HandoffWake ==
  /\ AcceptorGo("wake", "done")
  /\ woken' = TRUE
  /\ UNCHANGED <<connVars, chanVars, incoming, reqQueue, workVars, sessionVars, at, stop, outsideVars>>

\* stop() wakes the acceptor, which leaves its loop.
AcceptorExit ==
  /\ ~running
  /\ AcceptorGo("accept", "done")
  /\ UNCHANGED <<connVars, chanVars, queueVars, workVars, sessionVars, at, stop, outsideVars>>

AcceptorStep == \/ Greet \/ CloseInConnect \/ ConnectPush \/ ConnectWake \/ AppendGreeting
                \/ Handoff \/ HandoffWake \/ AcceptorExit
-----------------------------------------------------------------------------
(* A thread holding the channel: post() and requestClose().  Both end in   *)
(* notifyWorker(), outside the channel's mutex.                            *)

ThreadGo(t, a, b) == at[t] = a /\ at' = [at EXCEPT ![t] = b]

\* Bounds the requests in flight.
FewRequests == reqQueue + Cardinality({t \in Threads : at[t] # "idle"}) < MaxRequests

\* SendPacket() of the session: nothing is sent once it is closed; then
\* post(), under the channel's mutex.
SendPacket(t) ==
  /\ known /\ ~shut
  /\ FewRequests
  /\ ThreadGo(t, "idle", "send")
  /\ UNCHANGED <<connVars, chanVars, queueVars, workVars, sessionVars, acceptor, stop, outsideVars>>

Post(t) ==
  /\ ThreadGo(t, "send", IF alive THEN "push" ELSE "idle")
  /\ out < MaxBytes
  /\ out' = IF alive THEN out + 1 ELSE out
  /\ UNCHANGED <<connVars, alive, closeRequested, queueVars, workVars, sessionVars,
                 acceptor, stop, outsideVars>>

\* Close() of the session: its own flag first, then the Closer.
CloseSession(t) ==
  /\ known
  /\ FewRequests
  /\ ThreadGo(t, "idle", "ask")
  /\ shut' = TRUE
  /\ UNCHANGED <<connVars, chanVars, queueVars, workVars, known, onClosed, refused,
                 acceptor, stop, outsideVars>>

RequestClose(t) ==
  /\ ThreadGo(t, "ask", IF alive THEN "push" ELSE "idle")
  /\ closeRequested' = (closeRequested \/ alive)
  /\ UNCHANGED <<connVars, alive, out, queueVars, workVars, sessionVars,
                 acceptor, stop, outsideVars>>

Push(t) ==
  /\ ThreadGo(t, "push", "wake")
  /\ reqQueue' = reqQueue + 1
  /\ UNCHANGED <<connVars, chanVars, incoming, woken, workVars, sessionVars,
                 acceptor, stop, outsideVars>>

Wake(t) ==
  /\ ThreadGo(t, "wake", "idle")
  /\ woken' = TRUE
  /\ UNCHANGED <<connVars, chanVars, incoming, reqQueue, workVars, sessionVars,
                 acceptor, stop, outsideVars>>

ThreadStep(t) == Post(t) \/ RequestClose(t) \/ Push(t) \/ Wake(t)
-----------------------------------------------------------------------------
(* The worker: events first, then drainIncoming(), drainSendRequests().    *)

WorkerGo(a, b) == worker = a /\ worker' = b

Readable == registered /\ (inbox \/ peer = "gone")
Writable == registered /\ writeArmed /\ (room \/ peer = "gone")

AfterWait == IF Readable THEN "recv" ELSE IF Writable THEN "flush" ELSE "incoming"

\* Poller::wait() returns what is ready; m_running is looked at next.
Wait ==
  /\ woken \/ Readable \/ Writable
  /\ WorkerGo("wait", IF running THEN AfterWait ELSE "shutdown")
  /\ woken' = FALSE
  /\ writable' = (Readable /\ Writable)
  /\ from' = "write"
  /\ UNCHANGED <<connVars, chanVars, incoming, reqQueue, reqs, wantClose, sessionVars,
                 acceptor, at, stop, outsideVars>>

\* recv() > 0: onData(), whose answer is queued.  The session may be closed
\* by what it read, and is known to other threads from now on.
Recv(n, closes) ==
  /\ inbox
  /\ out + n <= MaxBytes
  /\ WorkerGo("recv", IF n > 0 THEN "flush" ELSE "readClosed")
  /\ from' = "read"
  /\ inbox' = FALSE
  /\ out' = out + n
  /\ shut' = (shut \/ closes)
  /\ known' = TRUE
  /\ UNCHANGED <<connVars, alive, closeRequested, queueVars, writable, reqs, wantClose,
                 onClosed, refused, acceptor, at, stop, peer, room>>

\* Where the worker goes on after closing the connection.
AfterClose == CASE from \in {"read", "write"} -> "incoming"
                [] from = "incoming" -> "takeReqs"
                [] from = "request" -> "nextReq"

ArmedStill == alive          \* mutant: closeConn() does not disarm the channel
Disarmed   == FALSE

\* disarm(), onClose(), out of the poller, delete.
CloseConn ==
  /\ worker' = AfterClose
  /\ alive' = Disarmed
  /\ onClosed' = TRUE
  /\ registered' = FALSE
  /\ conn' = "freed"
  /\ UNCHANGED <<writeArmed, drainClose, closeRequested, out, queueVars, from, writable, reqs,
                 wantClose, shut, known, refused, acceptor, at, stop, outsideVars>>

\* recv() = 0 or a hard error.
RecvEnd ==
  /\ worker = "recv"
  /\ ~inbox
  /\ from = "write"
  /\ CloseConn

SendSome(n) ==
  /\ WorkerGo("flush", "flush")
  /\ peer = "open" /\ room
  /\ n \in 1..out
  /\ out' = out - n
  /\ room' \in BOOLEAN
  /\ UNCHANGED <<connVars, alive, closeRequested, queueVars, from, writable, reqs, wantClose,
                 sessionVars, acceptor, at, stop, peer, inbox>>

AfterFlush == CASE from = "read" -> "readClosed"
                [] from = "write" -> "writeDone"
                [] from = "incoming" -> "takeReqs"
                [] from = "request" -> "reqClose"

BlockedUnarmed == writeArmed     \* mutant: EAGAIN leaves write interest as it was
BlockedArmed   == TRUE

\* Drained: write interest off.  EAGAIN: write interest on.
FlushDone ==
  /\ WorkerGo("flush", AfterFlush)
  /\ \/ out = 0 /\ writeArmed' = FALSE
     \/ out > 0 /\ peer = "open" /\ ~room /\ writeArmed' = BlockedArmed
  /\ UNCHANGED <<conn, registered, drainClose, chanVars, queueVars, from, writable, reqs,
                 wantClose, sessionVars, acceptor, at, stop, outsideVars>>

FlushFatal ==
  /\ worker = "flush"
  /\ out > 0 /\ peer = "gone"
  /\ CloseConn

\* closed() after onData(): close now, or once the backlog is out.
ReadClosedNow ==
  /\ worker = "readClosed"
  /\ shut /\ out = 0
  /\ CloseConn

ReadClosed ==
  /\ ~(shut /\ out = 0)
  /\ WorkerGo("readClosed", IF writable THEN "flush" ELSE "incoming")
  /\ drainClose' = (drainClose \/ shut)
  /\ from' = "write"
  /\ UNCHANGED <<conn, registered, writeArmed, chanVars, queueVars, writable, reqs, wantClose,
                 sessionVars, acceptor, at, stop, outsideVars>>

DrainedAndAsked == out = 0 /\ drainClose

WriteDoneClose ==
  /\ worker = "writeDone"
  /\ DrainedAndAsked
  /\ CloseConn

WriteDone ==
  /\ ~DrainedAndAsked
  /\ WorkerGo("writeDone", "incoming")
  /\ UNCHANGED <<connVars, chanVars, queueVars, from, writable, reqs, wantClose, sessionVars,
                 acceptor, at, stop, outsideVars>>

TakeIncoming ==
  /\ WorkerGo("incoming", IF incoming THEN "add" ELSE "takeReqs")
  /\ incoming' = FALSE
  /\ UNCHANGED <<connVars, chanVars, reqQueue, woken, from, writable, reqs, wantClose,
                 sessionVars, acceptor, at, stop, outsideVars>>

Add ==
  /\ WorkerGo("add", IF out > 0 THEN "flush" ELSE "takeReqs")
  /\ registered' = TRUE
  /\ from' = "incoming"
  /\ UNCHANGED <<conn, writeArmed, drainClose, chanVars, queueVars, writable, reqs, wantClose,
                 sessionVars, acceptor, at, stop, outsideVars>>

\* The poller refuses: closed and deleted on the spot.
AddFails ==
  /\ AddCanFail
  /\ WorkerGo("add", "takeReqs")
  /\ conn' = "freed"
  /\ UNCHANGED <<registered, writeArmed, drainClose, chanVars, queueVars, from, writable, reqs,
                 wantClose, sessionVars, acceptor, at, stop, outsideVars>>

TakeRequests ==
  /\ WorkerGo("takeReqs", "nextReq")
  /\ reqs' = reqQueue
  /\ reqQueue' = 0
  /\ UNCHANGED <<connVars, chanVars, incoming, woken, from, writable, wantClose, sessionVars,
                 acceptor, at, stop, outsideVars>>

MoreRequests == reqs > 0

\* One entry, under the channel's mutex; a disarmed channel is skipped.
NextRequest ==
  /\ MoreRequests
  /\ WorkerGo("nextReq", IF alive THEN "flush" ELSE "nextReq")
  /\ reqs' = reqs - 1
  /\ wantClose' = IF alive THEN closeRequested ELSE wantClose
  /\ from' = "request"
  /\ UNCHANGED <<connVars, chanVars, queueVars, writable, sessionVars,
                 acceptor, at, stop, outsideVars>>

NoMoreRequests ==
  /\ reqs = 0
  /\ WorkerGo("nextReq", "wait")
  /\ UNCHANGED <<connVars, chanVars, queueVars, from, writable, reqs, wantClose, sessionVars,
                 acceptor, at, stop, outsideVars>>

\* flush() done: remember the close, and close at once if nothing is left.
\* (The comment at 363-366: write interest is off by now.)
ClosesWhenWritable == FALSE                                  \* mutant: left to EvWrite
ClosesHere         == (drainClose \/ wantClose) /\ out = 0

RequestCloseNow ==
  /\ worker = "reqClose"
  /\ ClosesHere
  /\ CloseConn

RequestDone ==
  /\ ~ClosesHere
  /\ WorkerGo("reqClose", "nextReq")
  /\ drainClose' = (drainClose \/ wantClose)
  /\ UNCHANGED <<conn, registered, writeArmed, chanVars, queueVars, from, writable, reqs,
                 wantClose, sessionVars, acceptor, at, stop, outsideVars>>

\* The worker leaves its loop: whatever it still owns is disarmed and deleted.
Shutdown ==
  /\ WorkerGo("shutdown", "ended")
  /\ registered' = FALSE
  /\ IF registered THEN conn' = "freed" /\ alive' = FALSE ELSE UNCHANGED <<conn, alive>>
  /\ UNCHANGED <<writeArmed, drainClose, closeRequested, out, queueVars, from, writable, reqs,
                 wantClose, sessionVars, acceptor, at, stop, outsideVars>>

WorkerStep ==
  \/ Wait \/ RecvEnd \/ FlushDone \/ FlushFatal \/ ReadClosedNow \/ ReadClosed
  \/ WriteDoneClose \/ WriteDone \/ TakeIncoming \/ Add \/ AddFails
  \/ TakeRequests \/ NextRequest \/ NoMoreRequests \/ RequestCloseNow \/ RequestDone \/ Shutdown
  \/ \E n \in 0..1, closes \in BOOLEAN : Recv(n, closes)
  \/ \E n \in 1..MaxBytes : SendSome(n)
-----------------------------------------------------------------------------
(* stop(), and the peer.                                                   *)

StopGo(a, b) == stop = a /\ stop' = b

StopCalled ==
  /\ StopGo("no", "joinAcceptor")
  /\ UNCHANGED <<connVars, chanVars, queueVars, workVars, sessionVars, acceptor, at, outsideVars>>

StopWakes  == TRUE

WakeWorker ==
  /\ acceptor = "done"
  /\ StopGo("joinAcceptor", "joinWorker")
  /\ woken' = StopWakes
  /\ UNCHANGED <<connVars, chanVars, incoming, reqQueue, workVars, sessionVars,
                 acceptor, at, outsideVars>>

ReapSkipped == FALSE        \* mutant: a connection never registered is forgotten
ReapsIncoming == incoming

Reap ==
  /\ worker = "ended"
  /\ StopGo("joinWorker", "done")
  /\ IF ReapsIncoming THEN conn' = "freed" /\ alive' = FALSE ELSE UNCHANGED <<conn, alive>>
  /\ incoming' = FALSE
  /\ UNCHANGED <<registered, writeArmed, drainClose, closeRequested, out, reqQueue, woken,
                 workVars, sessionVars, acceptor, at, outsideVars>>

StopStep == WakeWorker \/ Reap

PeerWrites ==
  /\ peer = "open" /\ ~inbox /\ conn = "live"
  /\ inbox' = TRUE
  /\ UNCHANGED <<connVars, chanVars, queueVars, workVars, sessionVars, acceptor, at, stop, peer, room>>

PeerReads ==
  /\ peer = "open" /\ ~room
  /\ room' = TRUE
  /\ UNCHANGED <<connVars, chanVars, queueVars, workVars, sessionVars, acceptor, at, stop, peer, inbox>>

PeerLeaves ==
  /\ peer = "open" /\ conn = "live"
  /\ peer' = "gone"
  /\ UNCHANGED <<connVars, chanVars, queueVars, workVars, sessionVars, acceptor, at, stop, inbox, room>>

\* The worker also serves other connections.
OtherTraffic ==
  /\ ~woken
  /\ woken' = TRUE
  /\ UNCHANGED <<connVars, chanVars, incoming, reqQueue, workVars, sessionVars,
                 acceptor, at, stop, outsideVars>>

Next == \/ Accept \/ AcceptorStep
        \/ WorkerStep
        \/ StopCalled \/ StopStep
        \/ \E t \in Threads : SendPacket(t) \/ CloseSession(t) \/ ThreadStep(t)
        \/ PeerWrites \/ PeerReads \/ PeerLeaves \/ OtherTraffic

Spec == Init /\ [][Next]_vars

\* Threads run.  Clients, close requests, posts and stop() are free to come
\* or not, and the peer need not read.
FairSpec == /\ Spec
            /\ WF_vars(AcceptorStep)
            /\ WF_vars(WorkerStep)
            /\ WF_vars(StopStep)
            /\ \A t \in Threads : WF_vars(ThreadStep(t))
-----------------------------------------------------------------------------
(***************************************************************************)
(* Properties                                                              *)
(***************************************************************************)

\* The session called its Closer in onConnect(), and the request to close has
\* left the acceptor for the worker's queue.
Asked == refused /\ acceptor # "closePush"

\* The acceptor's comment: "Safe to run here: no worker owns the connection
\* until handoff()" (ReactorServer.cpp:217-218).  The worker has no part in a
\* connection, and has not deleted it, while the acceptor is inside the session
\* and up to handoff().
AcceptorOwns ==
  acceptor \in {"connect", "closePush", "closeWake", "greet", "handoff"} =>
    conn = "live" /\ worker \notin {"recv", "flush", "readClosed", "writeDone", "add", "reqClose"}

\* Every place that dereferences the Connection finds it live: the raw pointer
\* of an event, the one taken from the channel, the one handed off -- and the
\* acceptor's own, which nobody else holds before handoff().  The code keeps
\* this until a session that closes in onConnect() has Asked the worker.
NoUseAfterFree ==
  ~Asked =>
    /\ worker \in {"recv", "flush", "readClosed", "writeDone", "add", "reqClose"} => conn = "live"
    /\ incoming => conn = "live"
    /\ AcceptorOwns

\* A worker about to sleep on a connection with queued bytes has either
\* write interest or a request on its way, and a request comes with a wake.
WorkRemembered ==
  worker = "wait" =>
    /\ registered /\ out > 0 => writeArmed \/ reqQueue > 0 \/ \E t \in Threads : at[t] = "push"
    /\ reqQueue > 0 => woken \/ acceptor = "closeWake" \/ \E t \in Threads : at[t] = "wake"
    /\ incoming => woken \/ acceptor = "wake"

\* A close that was asked for waits for a backlog, which a writability event
\* will end, or its request is queued, or about to be.
CloseRemembered ==
  worker = "wait" /\ conn = "live" /\ closeRequested =>
    \/ drainClose /\ out > 0
    \/ reqQueue > 0
    \/ acceptor = "closePush" \/ \E t \in Threads : at[t] = "push"

\* The worker never sleeps over a write or a close it was asked for, whatever
\* the threads that ask do between the worker's last look and its sleep.
NothingStranded == WorkRemembered /\ CloseRemembered

\* A requested close ends the connection, unless the peer stopped reading.
CloseHonoured == closeRequested ~> (conn = "freed" \/ (out > 0 /\ ~room))

\* stop() returns, and leaves behind no connection and no armed channel that
\* another thread could still be using, whichever thread had the connection
\* when it was called.
StopReturns == ~running ~> stop = "done" /\ conn # "live" /\ (alive => ~known)
=============================================================================
