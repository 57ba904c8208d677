------------------------------ MODULE SendQueue ------------------------------
(***************************************************************************)
(* net::SendQueue (src/src/shared/net/SendQueue.hpp): the outbound byte    *)
(* stream of one connection.  Producers on any thread append to m_pending  *)
(* while a write drains m_inflight; the buffers are swapped once the       *)
(* in-flight one is used up.  Every method runs under m_mu, so a method is *)
(* one step; what interleaves is the calls of different threads.           *)
(*                                                                         *)
(* The callers follow the protocol the header states and the IOCP backend  *)
(* uses (ConnCtx::enqueue, startSend, onSendComplete): the thread whose    *)
(* append() returned true, and the thread that handled a completion, call  *)
(* nextSpan() and post what it returns; if posting fails -- the socket is  *)
(* closed, or WSASend refuses at once on an open one -- they abortWrite(). *)
(* The kernel reads the buffer at the moment it writes, not when the span  *)
(* was handed out, so a buffer that moved under it would show in `sent'.   *)
(***************************************************************************)
EXTENDS Naturals, Sequences, FiniteSets

CONSTANTS Thread,       \* producers and transport workers
          Byte,         \* payload bytes
          MaxBytes,     \* bound of the model: bytes ever appended
          MaxChunk      \* bound of the model: bytes of one append()

ASSUME BoundsAssumption == MaxBytes \in Nat /\ MaxChunk \in Nat

VARIABLES
  pending,      \* m_pending
  inflight,     \* m_inflight
  off,          \* m_off: bytes of inflight already written
  writing,      \* m_writing: somebody is responsible for the write
  outstanding,  \* m_gate.m_outstanding
  pc,           \* what each thread must do next: "idle", "start", "post"
  span,         \* the (data, len) pair a thread got from nextSpan()
  write,        \* the span the kernel is writing from, or NoSpan
  gone,         \* the socket was closed under the queue
  refused,      \* history: the last write was refused on an open socket, and
                \* no append() has taken the write since
  accepted,     \* history: every byte append() took, in lock order
  sent          \* history: every byte the kernel put on the wire

queueVars   == <<pending, inflight, off, writing, outstanding>>
callerVars  == <<pc, span, write, gone, refused>>
vars        == <<queueVars, callerVars, accepted, sent>>

Chunk == UNION {[1..n -> Byte] : n \in 1..MaxChunk}

Span   == [from : Nat, upto : Nat]
NoSpan == [from |-> 0, upto |-> 0]

\* What the queue still owes the socket: the undrained rest, then pending.
Unsent == SubSeq(inflight, off + 1, Len(inflight)) \o pending

\* SendQueue::empty()
Empty == off = Len(inflight) /\ pending = <<>>

TypeOK ==
  /\ pending \in Seq(Byte)
  /\ inflight \in Seq(Byte)
  /\ off \in 0..Len(inflight)
  /\ writing \in BOOLEAN
  /\ outstanding \in Nat
  /\ pc \in [Thread -> {"idle", "start", "post"}]
  /\ span \in [Thread -> Span]
  /\ write \in Span
  /\ gone \in BOOLEAN
  /\ refused \in BOOLEAN
  /\ accepted \in Seq(Byte)
  /\ sent \in Seq(Byte)

Init ==
  /\ pending = <<>>
  /\ inflight = <<>>
  /\ off = 0
  /\ writing = FALSE
  /\ outstanding = 0
  /\ pc = [t \in Thread |-> "idle"]
  /\ span = [t \in Thread |-> NoSpan]
  /\ write = NoSpan
  /\ gone = FALSE
  /\ refused = FALSE
  /\ accepted = <<>>
  /\ sent = <<>>

(***************************************************************************)
(* append(): the bytes join pending and are counted; the caller that finds *)
(* no write under way takes it.                                            *)
(***************************************************************************)
TakesWrite       == ~writing

AppendBytesInPlace(t, data) ==    \* mutant: one buffer, no pending
  /\ pc[t] = "idle"
  /\ Len(accepted) + Len(data) <= MaxBytes
  /\ inflight' = inflight \o data
  /\ outstanding' = outstanding + Len(data)
  /\ accepted' = accepted \o data
  /\ writing' = TRUE
  /\ refused' = FALSE
  /\ pc' = [pc EXCEPT ![t] = IF TakesWrite THEN "start" ELSE "idle"]
  /\ UNCHANGED <<pending, off, span, write, gone, sent>>

AppendBytes(t, data) ==
  /\ pc[t] = "idle"
  /\ Len(accepted) + Len(data) <= MaxBytes
  /\ pending' = pending \o data
  /\ outstanding' = outstanding + Len(data)
  /\ accepted' = accepted \o data
  /\ writing' = TRUE
  /\ refused' = FALSE
  /\ pc' = [pc EXCEPT ![t] = IF TakesWrite THEN "start" ELSE "idle"]
  /\ UNCHANGED <<inflight, off, span, write, gone, sent>>

(***************************************************************************)
(* nextSpan(): once inflight is used up, pending takes its place and the   *)
(* offset restarts; then the undrained rest is handed out, or, when there  *)
(* is none, the write is given up.                                         *)
(***************************************************************************)
UsedUp   == off = Len(inflight)
Promoted == IF UsedUp THEN pending ELSE inflight

LeftPending          == IF UsedUp THEN <<>> ELSE pending

Offset     == IF UsedUp THEN 0 ELSE off

KeepsWritingForever == writing     \* mutant: ownership is never released
KeepsWriting        == writing /\ Promoted # <<>>

NextSpan(t) ==
  /\ pc[t] = "start"
  /\ inflight' = Promoted
  /\ pending' = LeftPending
  /\ off' = Offset
  /\ writing' = KeepsWriting
  /\ IF Promoted = <<>>
     THEN /\ pc' = [pc EXCEPT ![t] = "idle"]
          /\ UNCHANGED span
     ELSE /\ pc' = [pc EXCEPT ![t] = "post"]
          /\ span' = [span EXCEPT ![t] = [from |-> Offset + 1,
                                          upto |-> Len(Promoted)]]
  /\ UNCHANGED <<outstanding, write, gone, refused, accepted, sent>>

\* ConnCtx::postSend() succeeds: the kernel owns a pointer into inflight.
PostSend(t) ==
  /\ pc[t] = "post"
  /\ ~gone
  /\ write' = span[t]
  /\ pc' = [pc EXCEPT ![t] = "idle"]
  /\ UNCHANGED <<queueVars, span, gone, refused, accepted, sent>>

\* ConnCtx::postSend() fails, because the socket is closed or because WSASend
\* refuses at once: abortWrite().  Nothing is queued or posted in its place.
AbortWrite(t) ==
  /\ pc[t] = "post"
  /\ writing' = FALSE
  /\ refused' = ~gone
  /\ pc' = [pc EXCEPT ![t] = "idle"]
  /\ UNCHANGED <<pending, inflight, off, outstanding, span, write, gone,
                 accepted, sent>>

(***************************************************************************)
(* A send completion of n bytes reaches worker t: consume(n), after which  *)
(* t is the one that calls nextSpan() again.  A short count is normal.     *)
(***************************************************************************)
ConsumedWhole(n) == Len(inflight)  \* mutant: a short write counts as all
Consumed(n)      == off + n

Consume(t, n) ==
  /\ pc[t] = "idle"
  /\ write # NoSpan
  /\ n \in 1..(write.upto + 1 - write.from)
  /\ sent' = sent \o SubSeq(inflight, write.from, write.from + n - 1)
  /\ off' = Consumed(n)
  /\ outstanding' = outstanding - n
  /\ write' = NoSpan
  /\ pc' = [pc EXCEPT ![t] = "start"]
  /\ UNCHANGED <<pending, inflight, writing, span, gone, refused, accepted>>

\* The socket is closed (teardown); a write under way ends with an error and
\* its completion never reaches consume().
SocketGone ==
  /\ ~gone
  /\ gone' = TRUE
  /\ write' = NoSpan
  /\ UNCHANGED <<queueVars, pc, span, refused, accepted, sent>>

CallerStep(t) == NextSpan(t) \/ PostSend(t) \/ AbortWrite(t)

Next ==
  \/ \E t \in Thread : \/ \E data \in Chunk : AppendBytes(t, data)
                       \/ NextSpan(t)
                       \/ PostSend(t)
                       \/ AbortWrite(t)
                       \/ \E n \in 1..MaxBytes : Consume(t, n)
  \/ SocketGone

Spec == Init /\ [][Next]_vars

\* A thread inside startSend() keeps running.  Producers owe nothing, and a
\* write completes when the peer reads, which the code cannot make it do.
Fairness == \A t \in Thread : WF_vars(CallerStep(t))

FairSpec == Spec /\ Fairness
-----------------------------------------------------------------------------
(***************************************************************************)
(* Properties                                                              *)
(***************************************************************************)
Busy == {t \in Thread : pc[t] # "idle"}

\* At most one party is in charge of the write -- one thread between append()
\* or consume() and the end of startSend(), or the kernel -- and m_writing is
\* set while there is one: a second WSASend cannot start beside the first.
SingleWriter ==
  /\ \A s, t \in Busy : s = t
  /\ Busy # {} => write = NoSpan
  /\ Busy # {} \/ write # NoSpan => writing

\* The wire carries exactly the bytes that were appended, in order, each one
\* once, whatever the partial writes, swaps and aborted writes in between.
StreamIntact == accepted = sent \o Unsent

\* The backpressure counter is the number of bytes not yet written.
GateExact == outstanding = Len(Unsent)

\* While the socket lives a byte waits with nobody in charge of a write for one
\* reason only, a write WSASend refused, and then m_writing is clear, so that
\* the next append() takes the write and the stranded bytes with it.  The
\* hand-over between a finishing write and an append() loses no kick, and
\* m_writing is never left set by a writer that stopped.
NothingStranded ==
  ~gone => /\ ~Empty => writing \/ refused
           /\ writing => Busy # {} \/ write # NoSpan
           /\ refused => ~writing

\* A span stays true after it was handed out: while a thread is about to post
\* it, or the kernel writes from it, it is exactly the undrained rest.
Rest == [from |-> off + 1, upto |-> Len(inflight)]

SpanCurrent ==
  /\ \A t \in Thread : pc[t] = "post" => span[t] = Rest /\ off < Len(inflight)
  /\ write # NoSpan => write = Rest /\ off < Len(inflight)

\* Memory the kernel was given is not swapped, moved or appended to before
\* that write completes.
StableStorage == [][write # NoSpan /\ write' = write => inflight' = inflight]_vars

\* As long as the peer keeps reading, every write the kernel was given ends and
\* every byte appended is written in the end -- or the socket is gone, or the
\* last write was refused and nothing was appended since.
PeerReads == []<>(write = NoSpan)

EventuallySent ==
  PeerReads =>
    \A k \in 1..MaxBytes : Len(accepted) >= k ~> Len(sent) >= k \/ gone \/ refused

\* The queue is the abstract byte stream: promotion, hand-out and aborts are
\* invisible, append() accepts and a completion delivers.
Stream == INSTANCE ByteStream WITH queue <- Unsent, delivered <- sent
StreamSpec == Stream!Spec
=============================================================================
