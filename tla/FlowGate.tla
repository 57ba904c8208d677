------------------------------ MODULE FlowGate ------------------------------
(***************************************************************************)
(* net::FlowGate (src/src/shared/net/FlowControl.hpp) under its one user,  *)
(* the patch stream of realmd (StartPatchTransfer).  A detached thread     *)
(* parks in awaitWritable() before every packet; the thread that owns the  *)
(* connection (the worker of the reactor and io_uring backends) writes     *)
(* bytes out, which calls onSent(), and in the end disarms the channel,    *)
(* which calls onClosed().                                                 *)
(*                                                                         *)
(* One step is one atomic access or one critical section boundary: the     *)
(* fields are sequentially consistent atomics, so a step reads or writes   *)
(* one of them.  Two mutexes of the callers show only as guards: consume() *)
(* holds the queue's mutex across onSent(), disarm() the channel's across  *)
(* onClosed(), and posting a packet needs both.                            *)
(***************************************************************************)
EXTENDS Naturals

CONSTANTS Ceiling,    \* kMaxOutstandingBytes
          PacketSize, \* bytes of one CMD_XFER_DATA packet
          Packets     \* packets the artifact is read in

ASSUME GateAssumption == /\ Ceiling \in Nat
                         /\ PacketSize \in Nat \ {0}
                         /\ Packets \in Nat

VARIABLES
  backlog,      \* m_outstanding
  waiting,      \* m_waiting
  closed,       \* m_closed
  gateMu,       \* holder of FlowGate::m_mu: "none", "stream" or "net"
  stream,       \* where the patch thread is
  net,          \* where the connection's thread is
  alive,        \* SendChannel::alive
  left          \* packets not read yet

gateVars == <<backlog, waiting, closed, gateMu, stream, net, alive, left>>

StreamAt == {"enter", "enterClosed", "lock", "mark", "testClosed", "testBacklog",
             "parked", "relock", "clear", "leave", "read", "stopped", "finished"}
NetAt    == {"idle", "sent", "sentLock", "sentNotify",
             "disarmed", "closeLock", "closeNotify"}

GateTypeOK ==
  /\ backlog \in Nat
  /\ waiting \in BOOLEAN
  /\ closed \in BOOLEAN
  /\ gateMu \in {"none", "stream", "net"}
  /\ stream \in StreamAt
  /\ net \in NetAt
  /\ alive \in BOOLEAN
  /\ left \in 0..Packets

GateInit ==
  /\ backlog = 0
  /\ waiting = FALSE
  /\ closed = FALSE
  /\ gateMu = "none"
  /\ stream = "enter"
  /\ net = "idle"
  /\ alive = TRUE
  /\ left = Packets

-----------------------------------------------------------------------------
(* The patch thread: awaitWritable(), then read and send one packet.       *)

StreamGo(from, to) == stream = from /\ stream' = to

WritableLoose == backlog <= Ceiling + PacketSize   \* mutant: the test is off
Writable      == backlog <= Ceiling

\* The lock-free fast path.
Enter ==
  /\ StreamGo("enter", IF Writable THEN "enterClosed" ELSE "lock")
  /\ UNCHANGED <<backlog, waiting, closed, gateMu, net, alive, left>>

EnterClosed ==
  /\ StreamGo("enterClosed", IF closed THEN "stopped" ELSE "read")
  /\ UNCHANGED <<backlog, waiting, closed, gateMu, net, alive, left>>

Lock ==
  /\ gateMu = "none"
  /\ StreamGo("lock", "mark")
  /\ gateMu' = "stream"
  /\ UNCHANGED <<backlog, waiting, closed, net, alive, left>>

MarkForgotten == waiting    \* mutant: m_waiting is not raised
Marked        == TRUE

Mark ==
  /\ StreamGo("mark", "testClosed")
  /\ waiting' = Marked
  /\ UNCHANGED <<backlog, closed, gateMu, net, alive, left>>

\* The predicate of m_cv.wait(): two loads, under the mutex.
TestClosed ==
  /\ StreamGo("testClosed", IF closed THEN "clear" ELSE "testBacklog")
  /\ UNCHANGED <<backlog, waiting, closed, gateMu, net, alive, left>>

TestBacklog ==
  /\ StreamGo("testBacklog", IF Writable THEN "clear" ELSE "parked")
  /\ gateMu' = IF Writable THEN "stream" ELSE "none"
  /\ UNCHANGED <<backlog, waiting, closed, net, alive, left>>

\* A condition variable may wake by itself.
SpuriousWake ==
  /\ StreamGo("parked", "relock")
  /\ UNCHANGED <<backlog, waiting, closed, gateMu, net, alive, left>>

Relock ==
  /\ gateMu = "none"
  /\ StreamGo("relock", "testClosed")
  /\ gateMu' = "stream"
  /\ UNCHANGED <<backlog, waiting, closed, net, alive, left>>

Clear ==
  /\ StreamGo("clear", "leave")
  /\ waiting' = FALSE
  /\ UNCHANGED <<backlog, closed, gateMu, net, alive, left>>

Leave ==
  /\ StreamGo("leave", IF closed THEN "stopped" ELSE "read")
  /\ gateMu' = "none"
  /\ UNCHANGED <<backlog, waiting, closed, net, alive, left>>

\* Read one packet and post it; post() is a no-op once the channel is
\* disarmed.  At the end of the artifact the thread ends.
ReadAndPost ==
  /\ net \notin {"sent", "sentLock", "sentNotify"}          \* SendQueue::m_mu
  /\ net \notin {"disarmed", "closeLock", "closeNotify"}    \* SendChannel::mu
  /\ left > 0
  /\ StreamGo("read", "enter")
  /\ left' = left - 1
  /\ backlog' = IF alive THEN backlog + PacketSize ELSE backlog
  /\ UNCHANGED <<waiting, closed, gateMu, net, alive>>

EndOfArtifact ==
  /\ left = 0
  /\ StreamGo("read", "finished")
  /\ UNCHANGED <<backlog, waiting, closed, gateMu, net, alive, left>>

StreamStep == \/ Enter \/ EnterClosed \/ Lock \/ Mark \/ TestClosed
              \/ TestBacklog \/ Relock \/ Clear \/ Leave
              \/ ReadAndPost \/ EndOfArtifact
-----------------------------------------------------------------------------
(* The connection's thread: onSent() and onClosed().                       *)

NetGo(from, to) == net = from /\ net' = to

\* notify_all()
Woken == IF stream = "parked" THEN "relock" ELSE stream

Sent(n)      == backlog - n

\* consume(n): the bytes leave, then m_waiting is looked at.
Write(n) ==
  /\ n \in 1..backlog
  /\ NetGo("idle", "sent")
  /\ backlog' = Sent(n)
  /\ UNCHANGED <<waiting, closed, gateMu, stream, alive, left>>

LookForWaiter ==
  /\ NetGo("sent", IF waiting THEN "sentLock" ELSE "idle")
  /\ UNCHANGED <<backlog, waiting, closed, gateMu, stream, alive, left>>

NetLock(from, to) ==
  /\ gateMu = "none"
  /\ NetGo(from, to)
  /\ gateMu' = "net"
  /\ UNCHANGED <<backlog, waiting, closed, stream, alive, left>>

SentLock == NetLock("sentLock", "sentNotify")

SentNotify ==
  /\ NetGo("sentNotify", "idle")
  /\ stream' = Woken
  /\ gateMu' = "none"
  /\ UNCHANGED <<backlog, waiting, closed, alive, left>>

Disarm ==
  /\ alive
  /\ NetGo("idle", "disarmed")
  /\ alive' = FALSE
  /\ UNCHANGED <<backlog, waiting, closed, gateMu, stream, left>>

Close ==
  /\ NetGo("disarmed", "closeLock")
  /\ closed' = TRUE
  /\ UNCHANGED <<backlog, waiting, gateMu, stream, alive, left>>

CloseLock == NetLock("closeLock", "closeNotify")

CloseNotifySilent ==    \* mutant: closing wakes nobody
  /\ NetGo("closeNotify", "idle")
  /\ gateMu' = "none"
  /\ UNCHANGED <<backlog, waiting, closed, stream, alive, left>>

CloseNotify ==
  /\ NetGo("closeNotify", "idle")
  /\ stream' = Woken
  /\ gateMu' = "none"
  /\ UNCHANGED <<backlog, waiting, closed, alive, left>>

NetStep == LookForWaiter \/ SentLock \/ SentNotify \/ Close \/ CloseLock \/ CloseNotify

GateNext == \/ StreamStep
            \/ SpuriousWake
            \/ NetStep
            \/ \E n \in 1..backlog : Write(n)
            \/ Disarm

GateSpec == GateInit /\ [][GateNext]_gateVars

\* Threads run.  The peer need not read and nobody need close, so Write and
\* Disarm are not fair; wake-ups out of nowhere are not owed either.
GateFairSpec == GateSpec /\ WF_gateVars(StreamStep) /\ WF_gateVars(NetStep)
-----------------------------------------------------------------------------
(***************************************************************************)
(* Properties                                                              *)
(***************************************************************************)

\* The classic StoreLoad: a thread parked although it could go on has a
\* notification on its way, and the notifier cannot miss it.
NoLostWakeup ==
  stream = "parked" =>
    /\ closed => net \in {"closeLock", "closeNotify"}
    /\ Writable => net \in {"sent", "sentLock", "sentNotify"}
                \/ (closed /\ net \in {"closeLock", "closeNotify"})
    /\ waiting

\* The stream gets at most one packet past the ceiling, whatever the client
\* does: the memory a transfer holds is bounded.
BacklogBounded == backlog <= Ceiling + PacketSize

\* A thread parked at the gate, or before or behind it, ends with a closed
\* connection instead of waiting for a client that is gone.
StopsOnClose == closed ~> stream \in {"stopped", "finished"}
=============================================================================
