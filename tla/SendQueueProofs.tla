--------------------------- MODULE SendQueueProofs ---------------------------
(***************************************************************************)
(* Proofs about SendQueue for any number of threads, any bytes and any     *)
(* bounds: its safety invariants, the stability of the memory the kernel   *)
(* writes from, and that it implements ByteStream; and about FlowGate, the *)
(* gate every queue carries.                                               *)
(***************************************************************************)
EXTENDS SendQueue, FlowGate, SequenceTheorems, TLAPS

(***************************************************************************)
(* The inductive invariant.  StreamIntact alone is not inductive: consume()*)
(* adds to `sent' what the kernel read through its span, so the span must  *)
(* describe the undrained rest (SpanCurrent), and it only does because     *)
(* nobody else can be inside nextSpan() meanwhile (SingleWriter).          *)
(***************************************************************************)
IInv == TypeOK /\ SingleWriter /\ SpanCurrent /\ StreamIntact /\ GateExact

-----------------------------------------------------------------------------
(***************************************************************************)
(* Lemmas about the sequences of the queue.                                *)
(***************************************************************************)

\* A chunk passed to append() is a non-empty sequence of bytes.
LEMMA ChunkIsSeq ==
  ASSUME NEW data \in Chunk
  PROVE  /\ data \in Seq(Byte)
         /\ Len(data) \in Nat
         /\ Len(data) > 0
<1>1. PICK n \in 1..MaxChunk : data \in [1..n -> Byte]
  BY DEF Chunk
<1>2. n \in Nat /\ n > 0
  BY BoundsAssumption
<1>3. QED
  BY <1>1, <1>2, SeqDef, LenProperties

\* Concatenation of byte sequences regroups.
LEMMA Regroup ==
  ASSUME NEW a \in Seq(Byte), NEW b \in Seq(Byte), NEW c \in Seq(Byte)
  PROVE  (a \o b) \o c = a \o (b \o c)
BY ConcatAssociative

\* The rest of a sequence from any position is a sequence of known length.
LEMMA RestOfSeq ==
  ASSUME NEW S, NEW s \in Seq(S), NEW i \in 0..Len(s)
  PROVE  /\ SubSeq(s, i + 1, Len(s)) \in Seq(S)
         /\ Len(SubSeq(s, i + 1, Len(s))) = Len(s) - i
         /\ i = 0 => SubSeq(s, i + 1, Len(s)) = s
         /\ i = Len(s) => SubSeq(s, i + 1, Len(s)) = <<>>
<1>1. Len(s) \in Nat /\ \A j \in i + 1 .. Len(s) : s[j] \in S
  BY LenProperties, ElementOfSeq
<1>2. /\ SubSeq(s, i + 1, Len(s)) \in Seq(S)
      /\ Len(SubSeq(s, i + 1, Len(s))) = Len(s) - i
  BY <1>1, SubSeqProperties
<1>3. i = 0 => SubSeq(s, i + 1, Len(s)) = s
  BY <1>1, SubSeqFull
<1>4. i = Len(s) => SubSeq(s, i + 1, Len(s)) = <<>>
  BY <1>1, SubSeqEmpty
<1>5. QED
  BY <1>2, <1>3, <1>4

\* Writing n bytes moves the split between the written part and the rest.
LEMMA SplitRest ==
  ASSUME NEW S, NEW s \in Seq(S), NEW i \in 0..Len(s), NEW n \in 0..(Len(s) - i)
  PROVE  /\ SubSeq(s, i + 1, i + n) \in Seq(S)
         /\ Len(SubSeq(s, i + 1, i + n)) = n
         /\ SubSeq(s, i + 1, Len(s))
              = SubSeq(s, i + 1, i + n) \o SubSeq(s, i + n + 1, Len(s))
<1>1. Len(s) \in Nat /\ \A j \in i + 1 .. i + n : s[j] \in S
  BY LenProperties, ElementOfSeq
<1>2. /\ SubSeq(s, i + 1, i + n) \in Seq(S)
      /\ Len(SubSeq(s, i + 1, i + n)) = n
  BY <1>1, SubSeqProperties
<1>3. /\ i + 1 \in 1 .. Len(s) + 1
      /\ i + n \in (i + 1) - 1 .. Len(s)
      /\ Len(s) \in i + n .. Len(s)
  BY <1>1
<1>4. SubSeq(s, i + 1, i + n) \o SubSeq(s, i + n + 1, Len(s))
        = SubSeq(s, i + 1, Len(s))
  BY <1>3, ConcatAdjacentSubSeq
<1>5. QED
  BY <1>2, <1>4

\* A concatenation can be taken apart again where it was put together.
LEMMA ConcatParts ==
  ASSUME NEW S, NEW s \in Seq(S), NEW t \in Seq(S)
  PROVE  /\ SubSeq(s \o t, 1, Len(s)) = s
         /\ SubSeq(s \o t, Len(s) + 1, Len(s \o t)) = t
<1>1. /\ Len(s) \in Nat /\ Len(t) \in Nat /\ Len(s \o t) = Len(s) + Len(t)
      /\ (Len(s) = 0 => s = <<>>) /\ (Len(t) = 0 => t = <<>>)
  BY LenProperties, ConcatProperties, EmptySeq
<1>2. SubSeq(s \o t, 1, Len(s)) = s
  <2>1. CASE Len(s) = 0
    BY <1>1, <2>1, SubSeqEmpty
  <2>2. CASE Len(s) # 0
    <3>1. 1 \in 1..Len(s) /\ Len(s) \in 1..Len(s)
      BY <1>1, <2>2
    <3>2. SubSeq(s \o t, 1, Len(s)) = SubSeq(s, 1, Len(s))
      BY <3>1, SubSeqOfConcat1
    <3>3. QED
      BY <3>2, SubSeqFull
  <2>3. QED
    BY <2>1, <2>2
<1>3. SubSeq(s \o t, Len(s) + 1, Len(s) + Len(t)) = t
  <2>1. CASE Len(t) = 0
    BY <1>1, <2>1, SubSeqEmpty
  <2>2. CASE Len(t) # 0
    <3>1. /\ Len(s) + 1 \in Len(s) + 1 .. Len(s) + Len(t)
          /\ Len(s) + Len(t) \in Len(s) + 1 .. Len(s) + Len(t)
          /\ (Len(s) + 1) - Len(s) = 1 /\ (Len(s) + Len(t)) - Len(s) = Len(t)
      BY <1>1, <2>2
    <3>2. SubSeq(s \o t, Len(s) + 1, Len(s) + Len(t)) = SubSeq(t, 1, Len(t))
      BY <3>1, SubSeqOfConcat2
    <3>3. QED
      BY <3>2, SubSeqFull
  <2>3. QED
    BY <2>1, <2>2
<1>4. QED
  BY <1>1, <1>2, <1>3

\* Unsent is a sequence of bytes; its length is what both buffers still hold.
LEMMA UnsentType ==
  ASSUME TypeOK
  PROVE  /\ Unsent \in Seq(Byte)
         /\ Len(Unsent) = Len(inflight) - off + Len(pending)
         /\ Len(inflight) \in Nat /\ Len(pending) \in Nat
<1>1. /\ inflight \in Seq(Byte) /\ pending \in Seq(Byte) /\ off \in 0..Len(inflight)
      /\ Len(inflight) \in Nat /\ Len(pending) \in Nat
  BY LenProperties DEF TypeOK
<1> DEFINE r == SubSeq(inflight, off + 1, Len(inflight))
<1>2. r \in Seq(Byte) /\ Len(r) = Len(inflight) - off
  BY <1>1, RestOfSeq
<1>3. Unsent \in Seq(Byte) /\ Len(Unsent) = Len(r) + Len(pending)
  BY <1>1, <1>2, ConcatProperties DEF Unsent
<1>4. QED
  BY <1>1, <1>2, <1>3

-----------------------------------------------------------------------------
(***************************************************************************)
(* The steps.                                                              *)
(***************************************************************************)

\* Initially nothing is queued and nobody writes.
LEMMA InitIInv == Init => IInv
<1> SUFFICES ASSUME Init PROVE IInv
  OBVIOUS
<1> USE DEF Init
<1>1. <<>> \in Seq(Byte) /\ Len(<<>>) = 0
  BY EmptySeq
<1>2. TypeOK
  <2>1. /\ pending \in Seq(Byte) /\ inflight \in Seq(Byte)
        /\ accepted \in Seq(Byte) /\ sent \in Seq(Byte)
        /\ Len(inflight) = 0
    BY <1>1
  <2>2. NoSpan \in Span
    BY DEF Span, NoSpan
  <2>3. off \in 0..Len(inflight) /\ outstanding \in Nat
    BY <2>1
  <2>4. writing \in BOOLEAN /\ gone \in BOOLEAN /\ refused \in BOOLEAN
    OBVIOUS
  <2>5. /\ pc \in [Thread -> {"idle", "start", "post"}]
        /\ span \in [Thread -> Span] /\ write \in Span
    BY <2>2
  <2>6. QED
    BY <2>1, <2>3, <2>4, <2>5 DEF TypeOK
<1>3. SingleWriter /\ SpanCurrent
  BY DEF SingleWriter, SpanCurrent, Busy
<1>4. Unsent = <<>>
  BY <1>1, ConcatEmptySeq, SubSeqEmpty DEF Unsent
<1>5. StreamIntact /\ GateExact
  BY <1>1, <1>4, ConcatEmptySeq DEF StreamIntact, GateExact
<1>6. QED
  BY <1>2, <1>3, <1>5 DEF IInv

\* append() adds its bytes to the far end of Unsent.
LEMMA AppendUnsent ==
  ASSUME TypeOK, NEW t \in Thread, NEW data \in Chunk, AppendBytes(t, data)
  PROVE  Unsent' = Unsent \o data
<1> DEFINE r == SubSeq(inflight, off + 1, Len(inflight))
<1>1. r \in Seq(Byte)
  BY RestOfSeq DEF TypeOK
<1>2. r \o (pending \o data) = (r \o pending) \o data
  <2> HIDE DEF r
  <2>1. pending \in Seq(Byte) /\ data \in Seq(Byte)
    BY ChunkIsSeq DEF TypeOK
  <2>2. QED
    BY <1>1, <2>1, ConcatAssociative
<1>3. QED
  BY <1>2 DEF Unsent, AppendBytes

LEMMA AppendBytesIInv ==
  ASSUME IInv, NEW t \in Thread, NEW data \in Chunk, AppendBytes(t, data)
  PROVE  IInv'
<1> USE DEF IInv
<1>1. data \in Seq(Byte) /\ Len(data) \in Nat /\ Len(data) > 0
  BY ChunkIsSeq
<1>2. /\ Unsent \in Seq(Byte) /\ Len(pending) \in Nat /\ Len(inflight) \in Nat
      /\ Len(Unsent) = Len(inflight) - off + Len(pending)
  BY UnsentType
<1>3. /\ pending \o data \in Seq(Byte) /\ accepted \o data \in Seq(Byte)
      /\ Len(pending \o data) = Len(pending) + Len(data)
  BY <1>1, ConcatProperties DEF TypeOK
<1>4. TypeOK'
  <2>1. /\ pending' \in Seq(Byte) /\ accepted' \in Seq(Byte)
        /\ outstanding' \in Nat
    BY <1>1, <1>3 DEF TypeOK, AppendBytes
  <2>2. pc' \in [Thread -> {"idle", "start", "post"}]
    BY DEF TypeOK, AppendBytes
  <2>3. UNCHANGED <<inflight, off, span, write, gone, sent>>
    BY DEF AppendBytes
  <2>4. writing' = TRUE /\ refused' = FALSE
    BY DEF AppendBytes
  <2>5. QED
    BY <2>1, <2>2, <2>3, <2>4 DEF TypeOK
<1>5. SingleWriter'
  BY DEF SingleWriter, Busy, AppendBytes, TakesWrite, TypeOK
<1>6. SpanCurrent'
  BY DEF SpanCurrent, Rest, AppendBytes, TypeOK
<1>7. Unsent' = Unsent \o data
  BY AppendUnsent
<1>8. StreamIntact'
  <2>1. sent \in Seq(Byte) /\ accepted = sent \o Unsent
    BY DEF TypeOK, StreamIntact
  <2>2. (sent \o Unsent) \o data = sent \o (Unsent \o data)
    BY <1>1, <1>2, <2>1, Regroup
  <2>3. QED
    BY <1>7, <2>1, <2>2 DEF StreamIntact, AppendBytes
<1>9. GateExact'
  BY <1>1, <1>2, <1>7, ConcatProperties DEF GateExact, AppendBytes
<1>10. QED
  BY <1>4, <1>5, <1>6, <1>8, <1>9

\* nextSpan() regroups the unsent bytes between the two buffers; the sequence
\* they form is the same.
LEMMA NextSpanUnsent ==
  ASSUME TypeOK, NEW t \in Thread, NextSpan(t)
  PROVE  Unsent' = Unsent
<1>1. CASE off # Len(inflight)
  BY <1>1 DEF NextSpan, Promoted, UsedUp, LeftPending, Offset, KeepsWriting, Unsent
<1>2. CASE off = Len(inflight)
  <2>1. SubSeq(inflight, off + 1, Len(inflight)) = <<>>
    BY <1>2, RestOfSeq DEF TypeOK
  <2>2. Unsent = pending
    BY <2>1, ConcatEmptySeq DEF Unsent, TypeOK
  <2>3. inflight' = pending /\ off' = 0 /\ pending' = <<>>
    BY <1>2 DEF NextSpan, Promoted, UsedUp, LeftPending, Offset, KeepsWriting
  <2>4. SubSeq(inflight', off' + 1, Len(inflight')) = pending
    BY <2>3, SubSeqFull, LenProperties DEF TypeOK
  <2>5. QED
    BY <2>2, <2>3, <2>4, ConcatEmptySeq DEF Unsent, TypeOK
<1>3. QED
  BY <1>1, <1>2

LEMMA NextSpanIInv ==
  ASSUME IInv, NEW t \in Thread, NextSpan(t)
  PROVE  IInv'
<1> USE DEF IInv
<1>1. /\ Promoted \in Seq(Byte) /\ Len(Promoted) \in Nat
      /\ Promoted # <<>> => Len(Promoted) > 0
  BY EmptySeq, LenProperties DEF Promoted, TypeOK
<1>2. off' \in 0..Len(Promoted) /\ off' \in Nat
      /\ (Promoted # <<>> => off' < Len(Promoted))
  BY <1>1, LenProperties DEF NextSpan, Promoted, UsedUp, LeftPending, Offset, KeepsWriting, TypeOK
<1>3. TypeOK'
  <2>1. pending' \in Seq(Byte)
    BY EmptySeq DEF NextSpan, Promoted, UsedUp, LeftPending, Offset, KeepsWriting, TypeOK
  <2>2. inflight' \in Seq(Byte) /\ off' \in 0..Len(inflight')
    BY <1>1, <1>2 DEF NextSpan
  <2>3. writing' \in BOOLEAN /\ pc' \in [Thread -> {"idle", "start", "post"}]
    BY DEF NextSpan, Promoted, UsedUp, LeftPending, Offset, KeepsWriting, TypeOK
  <2>4. span' \in [Thread -> Span]
    <3>1. [from |-> (IF off = Len(inflight) THEN 0 ELSE off) + 1,
           upto |-> Len(Promoted)] \in Span
      BY <1>1, LenProperties DEF TypeOK, Span
    <3>2. QED
      BY <3>1 DEF NextSpan, Promoted, UsedUp, LeftPending, Offset, KeepsWriting, TypeOK
  <2>5. QED
    BY <2>1, <2>2, <2>3, <2>4 DEF TypeOK, NextSpan
<1>4. Busy' \subseteq Busy /\ write = NoSpan /\ write' = NoSpan
  BY DEF SingleWriter, Busy, NextSpan, TypeOK
<1>5. SingleWriter'
  <2>1. CASE Promoted = <<>>
    <3>1. Busy' = {}
      BY <2>1 DEF SingleWriter, Busy, NextSpan, TypeOK
    <3>2. QED
      BY <3>1, <1>4 DEF SingleWriter
  <2>2. CASE Promoted # <<>>
    BY <2>2, <1>4 DEF SingleWriter, Busy, NextSpan, Promoted, UsedUp, LeftPending, Offset, KeepsWriting, TypeOK
  <2>3. QED
    BY <2>1, <2>2
<1>6. SpanCurrent'
  <2>1. CASE Promoted = <<>>
    BY <2>1, <1>4, <1>5 DEF SpanCurrent, SingleWriter, Busy, NextSpan, TypeOK
  <2>2. CASE Promoted # <<>>
    <3>1. \A s \in Thread : pc'[s] = "post" => s = t
      BY <2>2 DEF SingleWriter, Busy, NextSpan, TypeOK
    <3>2. span'[t] = Rest'
      BY <2>2 DEF NextSpan, Rest, TypeOK
    <3>3. off' < Len(inflight')
      BY <2>2, <1>2 DEF NextSpan
    <3>4. QED
      BY <3>1, <3>2, <3>3, <1>4 DEF SpanCurrent
  <2>3. QED
    BY <2>1, <2>2
<1>7. Unsent' = Unsent
  BY NextSpanUnsent
<1>8. StreamIntact' /\ GateExact'
  BY <1>7 DEF StreamIntact, GateExact, NextSpan
<1>9. QED
  BY <1>3, <1>5, <1>6, <1>8

\* Posting a span changes nothing in the queue; the kernel becomes the writer.
LEMMA PostSendIInv ==
  ASSUME IInv, NEW t \in Thread, PostSend(t)
  PROVE  IInv'
<1> USE DEF IInv
<1>1. UNCHANGED <<queueVars, accepted, sent>> /\ Unsent' = Unsent
  BY DEF PostSend, queueVars, Unsent
<1>2. span[t] = Rest /\ off < Len(inflight)
  BY DEF PostSend, SpanCurrent
<1>3. TypeOK'
  BY <1>1 DEF TypeOK, PostSend, queueVars
<1>4. t \in Busy /\ Busy' = {}
  BY DEF SingleWriter, Busy, PostSend, TypeOK
<1>5. SingleWriter'
  BY <1>1, <1>4 DEF SingleWriter, queueVars
<1>6. SpanCurrent'
  BY <1>1, <1>2, <1>4 DEF SpanCurrent, Rest, Busy, PostSend, queueVars
<1>7. StreamIntact' /\ GateExact'
  BY <1>1 DEF StreamIntact, GateExact, queueVars
<1>8. QED
  BY <1>3, <1>5, <1>6, <1>7

\* abortWrite() only gives the write up; what was handed out stays queued.
LEMMA AbortWriteIInv ==
  ASSUME IInv, NEW t \in Thread, AbortWrite(t)
  PROVE  IInv'
<1> USE DEF IInv
<1>1. Unsent' = Unsent
  BY DEF AbortWrite, Unsent
<1>2. TypeOK'
  BY DEF TypeOK, AbortWrite
<1>3. t \in Busy /\ Busy' = {} /\ write' = NoSpan
  BY DEF SingleWriter, Busy, AbortWrite, TypeOK
<1>4. SingleWriter' /\ SpanCurrent'
  BY <1>3 DEF SingleWriter, SpanCurrent, Busy
<1>5. StreamIntact' /\ GateExact'
  BY <1>1 DEF StreamIntact, GateExact, AbortWrite
<1>6. QED
  BY <1>2, <1>4, <1>5

(***************************************************************************)
(* A completion moves n bytes from the front of Unsent to `sent': the      *)
(* kernel's span starts at the undrained rest, so what it wrote is the     *)
(* front of that rest.                                                     *)
(***************************************************************************)
LEMMA ConsumeUnsent ==
  ASSUME IInv, NEW t \in Thread, NEW n \in 1..MaxBytes, Consume(t, n)
  PROVE  LET out == SubSeq(inflight, off + 1, off + n)
         IN  /\ n \in Nat /\ off + n \in 0..Len(inflight)
             /\ out \in Seq(Byte) /\ Len(out) = n
             /\ sent' = sent \o out
             /\ Unsent = out \o Unsent'
<1> DEFINE out == SubSeq(inflight, off + 1, off + n)
           tail == SubSeq(inflight, off + n + 1, Len(inflight))
<1>1. /\ inflight \in Seq(Byte) /\ Len(inflight) \in Nat /\ off \in 0..Len(inflight)
      /\ pending \in Seq(Byte)
  BY LenProperties DEF IInv, TypeOK
<1>2. write.from = off + 1 /\ write.upto = Len(inflight)
  BY DEF IInv, SpanCurrent, Rest, Consume
<1>3. n \in 1..(Len(inflight) - off)
  BY <1>1, <1>2 DEF Consume
<1>4. n \in Nat /\ off + n \in 0..Len(inflight) /\ n \in 0..(Len(inflight) - off)
  BY <1>1, <1>3
<1>5. out \in Seq(Byte) /\ Len(out) = n
  BY <1>1, <1>4, SplitRest
<1>6. SubSeq(inflight, off + 1, Len(inflight)) = out \o tail
  BY <1>1, <1>4, SplitRest
<1>7. tail \in Seq(Byte)
  BY <1>1, <1>4, RestOfSeq
<1>8. write.from + n - 1 = off + n
  BY <1>1, <1>2, <1>4
<1>9. sent' = sent \o out
  BY <1>2, <1>8 DEF Consume
<1>10. Unsent' = tail \o pending
  BY DEF Unsent, Consume, Consumed
<1>11. (out \o tail) \o pending = out \o (tail \o pending)
  <2> HIDE DEF out, tail
  <2> QED BY <1>1, <1>5, <1>7, Regroup
<1>12. Unsent = out \o Unsent'
  BY <1>6, <1>10, <1>11 DEF Unsent
<1>13. QED
  BY <1>4, <1>5, <1>9, <1>12

LEMMA ConsumeIInv ==
  ASSUME IInv, NEW t \in Thread, NEW n \in 1..MaxBytes, Consume(t, n)
  PROVE  IInv'
<1> DEFINE out == SubSeq(inflight, off + 1, off + n)
<1>1. /\ n \in Nat /\ off + n \in 0..Len(inflight)
      /\ out \in Seq(Byte) /\ Len(out) = n
      /\ sent' = sent \o out
      /\ Unsent = out \o Unsent'
  BY ConsumeUnsent
<1> HIDE DEF out
<1> USE DEF IInv
<1>2. Len(Unsent) = outstanding /\ outstanding \in Nat
  BY DEF GateExact, TypeOK
<1>3. /\ SubSeq(inflight', off' + 1, Len(inflight')) \in Seq(Byte)
      /\ pending' \in Seq(Byte)
  BY <1>1, RestOfSeq DEF TypeOK, Consume, Consumed
<1>4. Unsent' \in Seq(Byte) /\ Len(Unsent') \in Nat
  BY <1>3, ConcatProperties, LenProperties DEF Unsent
<1>5. Len(Unsent) = n + Len(Unsent')
  BY <1>1, <1>4, ConcatProperties
<1>6. TypeOK'
  <2>1. sent' \in Seq(Byte)
    BY <1>1, ConcatProperties DEF TypeOK
  <2>2. outstanding' \in Nat
    BY <1>1, <1>2, <1>4, <1>5 DEF Consume
  <2>3. off' \in 0..Len(inflight')
    BY <1>1 DEF Consume, Consumed
  <2>4. write' \in Span
    BY DEF Consume, Span, NoSpan
  <2>5. QED
    BY <2>1, <2>2, <2>3, <2>4 DEF TypeOK, Consume
<1>7. Busy = {} /\ Busy' = {t}
  BY DEF SingleWriter, Busy, Consume, TypeOK
<1>8. SingleWriter'
  BY <1>7 DEF SingleWriter, Consume
<1>9. SpanCurrent'
  BY <1>7 DEF SpanCurrent, Busy, Consume, TypeOK
<1>10. StreamIntact'
  <2>1. sent \in Seq(Byte)
    BY DEF TypeOK
  <2>2. sent \o (out \o Unsent') = (sent \o out) \o Unsent'
    BY <1>1, <1>4, <2>1, Regroup
  <2>3. QED
    BY <1>1, <2>2 DEF StreamIntact, Consume
<1>11. GateExact'
  BY <1>1, <1>2, <1>4, <1>5 DEF GateExact, Consume
<1>12. QED
  BY <1>6, <1>8, <1>9, <1>10, <1>11

\* Losing the socket ends the kernel's write and leaves the queue alone.
LEMMA SocketGoneIInv == IInv /\ SocketGone => IInv'
<1> SUFFICES ASSUME IInv, SocketGone PROVE IInv'
  OBVIOUS
<1> USE DEF IInv
<1>1. Unsent' = Unsent /\ Busy' = Busy
  BY DEF SocketGone, queueVars, Unsent, Busy
<1>2. TypeOK'
  <2>1. NoSpan \in Span
    BY DEF Span, NoSpan
  <2>2. QED
    BY <2>1 DEF TypeOK, SocketGone, queueVars
<1>3. SingleWriter' /\ SpanCurrent'
  BY <1>1 DEF SingleWriter, SpanCurrent, Rest, SocketGone, queueVars
<1>4. StreamIntact' /\ GateExact'
  BY <1>1 DEF StreamIntact, GateExact, SocketGone, queueVars
<1>5. QED
  BY <1>2, <1>3, <1>4

LEMMA StutterIInv == IInv /\ UNCHANGED vars => IInv'
BY DEF IInv, TypeOK, SingleWriter, Busy, SpanCurrent, Rest, StreamIntact, Unsent,
       GateExact, vars, queueVars, callerVars

LEMMA StepIInv == IInv /\ [Next]_vars => IInv'
<1> SUFFICES ASSUME IInv, [Next]_vars PROVE IInv'
  OBVIOUS
<1>1. ASSUME NEW t \in Thread, NEW data \in Chunk, AppendBytes(t, data) PROVE IInv'
  BY <1>1, AppendBytesIInv
<1>2. ASSUME NEW t \in Thread, NextSpan(t) PROVE IInv'
  BY <1>2, NextSpanIInv
<1>3. ASSUME NEW t \in Thread, PostSend(t) PROVE IInv'
  BY <1>3, PostSendIInv
<1>4. ASSUME NEW t \in Thread, AbortWrite(t) PROVE IInv'
  BY <1>4, AbortWriteIInv
<1>5. ASSUME NEW t \in Thread, NEW n \in 1..MaxBytes, Consume(t, n) PROVE IInv'
  BY <1>5, ConsumeIInv
<1>6. CASE SocketGone
  BY <1>6, SocketGoneIInv
<1>7. CASE UNCHANGED vars
  BY <1>7, StutterIInv
<1>8. QED
  BY <1>1, <1>2, <1>3, <1>4, <1>5, <1>6, <1>7 DEF Next

-----------------------------------------------------------------------------
(***************************************************************************)
(* The theorems.                                                           *)
(***************************************************************************)

\* The inductive invariant holds in every reachable state.
THEOREM Invariance == Spec => []IInv
<1>1. Init => IInv
  BY InitIInv
<1>2. IInv /\ [Next]_vars => IInv'
  BY StepIInv
<1>3. QED
  BY <1>1, <1>2, PTL DEF Spec

\* Type correctness of the queue and its callers.
THEOREM TypeCorrect == Spec => []TypeOK
<1>1. IInv => TypeOK
  BY DEF IInv
<1>2. QED
  BY <1>1, Invariance, PTL

\* One writer at a time, whatever the number of producers and workers
\* (the promise of append()'s return value).
THEOREM OneWriter == Spec => []SingleWriter
<1>1. IInv => SingleWriter
  BY DEF IInv
<1>2. QED
  BY <1>1, Invariance, PTL

\* The wire carries the appended bytes in order, none lost, none repeated.
THEOREM InOrderNoLoss == Spec => []StreamIntact
<1>1. IInv => StreamIntact
  BY DEF IInv
<1>2. QED
  BY <1>1, Invariance, PTL

\* The backpressure counter equals the bytes still to be written.
THEOREM BackpressureExact == Spec => []GateExact
<1>1. IInv => GateExact
  BY DEF IInv
<1>2. QED
  BY <1>1, Invariance, PTL

\* The span a writer holds is the undrained rest for as long as it holds it.
THEOREM HandedOutSpanCurrent == Spec => []SpanCurrent
<1>1. IInv => SpanCurrent
  BY DEF IInv
<1>2. QED
  BY <1>1, Invariance, PTL

\* No step changes the buffer the kernel is writing from before that write
\* has completed.
THEOREM KernelMemoryStable == Spec => StableStorage
<1>1. IInv /\ [Next]_vars => [write # NoSpan /\ write' = write => inflight' = inflight]_vars
  <2> SUFFICES ASSUME IInv, Next, write # NoSpan, write' = write
               PROVE  inflight' = inflight
    BY DEF vars, queueVars
  <2>1. Busy = {}
    BY DEF IInv, SingleWriter
  <2>2. ASSUME NEW t \in Thread, NextSpan(t) PROVE FALSE
    BY <2>1, <2>2 DEF Busy, NextSpan
  <2>3. QED
    BY <2>2 DEF Next, AppendBytes, PostSend, AbortWrite, Consume, SocketGone, queueVars
<1>2. QED
  BY <1>1, Invariance, PTL DEF Spec, StableStorage

(***************************************************************************)
(* Nothing is stranded.  A thread that leaves startSend() leaves a write   *)
(* in the kernel, an empty queue with m_writing cleared or, its write      *)
(* refused, a backlog with m_writing cleared; append() sees one of them    *)
(* under the same mutex, and takes the write in the last two.              *)
(***************************************************************************)
THEOREM NoLostKick == Spec => []NothingStranded
<1>1. Init => NothingStranded
  BY DEF Init, NothingStranded, Empty
<1>2. IInv /\ NothingStranded /\ [Next]_vars => NothingStranded'
  <2> SUFFICES ASSUME IInv, NothingStranded, [Next]_vars PROVE NothingStranded'
    OBVIOUS
  <2> USE DEF IInv, TypeOK, NothingStranded, Empty, Busy
  <2>1. ASSUME NEW t \in Thread, NEW data \in Chunk, AppendBytes(t, data)
        PROVE NothingStranded'
    BY <2>1 DEF AppendBytes, TakesWrite
  <2>2. ASSUME NEW t \in Thread, NextSpan(t) PROVE NothingStranded'
    <3>1. CASE Promoted = <<>>
      <4>1. Len(inflight') = 0 /\ inflight' = <<>>
        BY <2>2, <3>1, EmptySeq DEF NextSpan
      <4>2. off' = 0
        BY <2>2, <3>1, <4>1 DEF NextSpan, Promoted, UsedUp, LeftPending, Offset, KeepsWriting
      <4>3. pending' = <<>>
        BY <2>2, <3>1, <4>1 DEF NextSpan, Promoted, UsedUp, LeftPending, Offset, KeepsWriting
      <4>4. writing' = FALSE
        BY <2>2, <3>1 DEF NextSpan, Promoted, UsedUp, LeftPending, Offset, KeepsWriting
      <4>5. QED
        BY <4>1, <4>2, <4>3, <4>4
    <3>2. CASE Promoted # <<>>
      <4>1. t \in Busy' /\ writing' = writing /\ UNCHANGED <<gone, refused>>
        BY <2>2, <3>2 DEF NextSpan, Promoted, UsedUp, LeftPending, Offset, KeepsWriting
      <4>2. writing
        BY <2>2 DEF NextSpan, SingleWriter
      <4>3. QED
        BY <4>1, <4>2
    <3>3. QED
      BY <3>1, <3>2
  <2>3. ASSUME NEW t \in Thread, PostSend(t) PROVE NothingStranded'
    <3>1. write' # NoSpan
      BY <2>3 DEF PostSend, SpanCurrent, Rest, NoSpan
    <3>2. writing
      BY <2>3 DEF PostSend, SingleWriter
    <3>3. QED
      BY <2>3, <3>1, <3>2 DEF PostSend, queueVars
  <2>4. ASSUME NEW t \in Thread, AbortWrite(t) PROVE NothingStranded'
    BY <2>4 DEF AbortWrite
  <2>5. ASSUME NEW t \in Thread, NEW n \in 1..MaxBytes, Consume(t, n)
        PROVE NothingStranded'
    <3>1. t \in Busy' /\ writing /\ writing' /\ UNCHANGED <<gone, refused>>
      BY <2>5 DEF Consume, SingleWriter
    <3>2. QED
      BY <3>1
  <2>6. CASE SocketGone
    BY <2>6 DEF SocketGone
  <2>7. CASE UNCHANGED vars
    BY <2>7 DEF vars, queueVars, callerVars
  <2>8. QED
    BY <2>1, <2>2, <2>3, <2>4, <2>5, <2>6, <2>7 DEF Next
<1>3. QED
  BY <1>1, <1>2, Invariance, PTL DEF Spec

-----------------------------------------------------------------------------
(***************************************************************************)
(* SendQueue implements ByteStream: `queue' is Unsent and `delivered' is   *)
(* sent.  append() accepts, a completion delivers, the rest stutters.      *)
(***************************************************************************)
LEMMA RefineInit == Init => Stream!Init
<1> SUFFICES ASSUME Init PROVE Stream!Init
  OBVIOUS
<1>1. Unsent = <<>>
  BY EmptySeq, ConcatEmptySeq, SubSeqEmpty DEF Init, Unsent
<1>2. QED
  BY <1>1 DEF Init, Stream!Init

LEMMA RefineAppend ==
  ASSUME IInv, NEW t \in Thread, NEW data \in Chunk, AppendBytes(t, data)
  PROVE  Stream!Accept
<1>1. data \in Seq(Byte) /\ Len(data) \in Nat /\ Len(data) > 0
  BY ChunkIsSeq
<1>2. TypeOK /\ Unsent \in Seq(Byte) /\ Len(Unsent) \in Nat
  BY UnsentType, LenProperties DEF IInv
<1>3. Unsent' = Unsent \o data
  BY <1>2, AppendUnsent
<1>4. Unsent' \in Seq(Byte) /\ Len(Unsent') > Len(Unsent)
  BY <1>1, <1>2, <1>3, ConcatProperties
<1>5. SubSeq(Unsent', 1, Len(Unsent)) = Unsent
  BY <1>1, <1>2, <1>3, ConcatParts
<1>6. QED
  BY <1>4, <1>5 DEF Stream!Accept, AppendBytes

LEMMA RefineConsume ==
  ASSUME IInv, NEW t \in Thread, NEW n \in 1..MaxBytes, Consume(t, n)
  PROVE  Stream!Deliver
<1> DEFINE out == SubSeq(inflight, off + 1, off + n)
<1>1. /\ n \in Nat /\ out \in Seq(Byte) /\ Len(out) = n
      /\ sent' = sent \o out
      /\ Unsent = out \o Unsent'
  BY ConsumeUnsent
<1>2. Unsent' \in Seq(Byte) /\ Len(Unsent') \in Nat
  <2>1. TypeOK'
    BY ConsumeIInv DEF IInv
  <2>2. /\ SubSeq(inflight', off' + 1, Len(inflight')) \in Seq(Byte)
        /\ pending' \in Seq(Byte)
    BY <2>1, RestOfSeq DEF TypeOK
  <2>3. QED
    BY <2>2, ConcatProperties, LenProperties DEF Unsent
<1> HIDE DEF out
<1>3. /\ SubSeq(Unsent, 1, n) = out
      /\ SubSeq(Unsent, n + 1, Len(Unsent)) = Unsent'
      /\ Len(Unsent) = n + Len(Unsent')
  <2> DEFINE rest == Unsent'
  <2>1. rest \in Seq(Byte)
    BY <1>2
  <2>2. Unsent = out \o rest
    BY <1>1
  <2> HIDE DEF rest
  <2>3. /\ SubSeq(out \o rest, 1, Len(out)) = out
        /\ SubSeq(out \o rest, Len(out) + 1, Len(out \o rest)) = rest
        /\ Len(out \o rest) = Len(out) + Len(rest)
    <3>1. out \in Seq(Byte)
      BY <1>1
    <3>2. QED
      BY <2>1, <3>1, ConcatParts, ConcatProperties
  <2>4. QED
    BY <1>1, <2>2, <2>3 DEF rest
<1>4. n \in 1..Len(Unsent)
  BY <1>1, <1>2, <1>3
<1>5. QED
  BY <1>1, <1>3, <1>4 DEF Stream!Deliver

LEMMA RefineStep == IInv /\ [Next]_vars => [Stream!Next]_(Stream!vars)
<1> SUFFICES ASSUME IInv, [Next]_vars PROVE [Stream!Next]_(Stream!vars)
  OBVIOUS
<1>1. ASSUME NEW t \in Thread, NEW data \in Chunk, AppendBytes(t, data)
      PROVE  Stream!Next
  BY <1>1, RefineAppend DEF Stream!Next
<1>2. ASSUME NEW t \in Thread, NEW n \in 1..MaxBytes, Consume(t, n)
      PROVE  Stream!Next
  BY <1>2, RefineConsume DEF Stream!Next
<1>3. ASSUME NEW t \in Thread, NextSpan(t) PROVE UNCHANGED Stream!vars
  BY <1>3, NextSpanUnsent DEF IInv, NextSpan, Stream!vars
<1>4. ASSUME NEW t \in Thread, PostSend(t) PROVE UNCHANGED Stream!vars
  BY <1>4 DEF PostSend, queueVars, Unsent, Stream!vars
<1>5. ASSUME NEW t \in Thread, AbortWrite(t) PROVE UNCHANGED Stream!vars
  BY <1>5 DEF AbortWrite, Unsent, Stream!vars
<1>6. CASE SocketGone
  BY <1>6 DEF SocketGone, queueVars, Unsent, Stream!vars
<1>7. CASE UNCHANGED vars
  BY <1>7 DEF vars, queueVars, Unsent, Stream!vars
<1>8. QED
  BY <1>1, <1>2, <1>3, <1>4, <1>5, <1>6, <1>7 DEF Next

\* The queue implements the abstract byte stream.
THEOREM ImplementsByteStream == Spec => StreamSpec
<1>1. Init => Stream!Init
  BY RefineInit
<1>2. IInv /\ [Next]_vars => [Stream!Next]_(Stream!vars)
  BY RefineStep
<1>3. QED
  BY <1>1, <1>2, Invariance, PTL DEF Spec, StreamSpec, Stream!Spec
-----------------------------------------------------------------------------
(***************************************************************************)
(* The queue's gate seen by the producer it holds back.  append() and      *)
(* consume() move the count above under the queue's mutex; FlowGate is the *)
(* same count with the wait, the wake-ups and the ceiling.  It loses no    *)
(* wake-up and bounds the backlog, for every ceiling, packet size and      *)
(* artifact.                                                               *)
(***************************************************************************)

\* Who holds the gate's mutex follows from where the two threads are.
MutexInv ==
  /\ gateMu = "stream" <=> stream \in {"mark", "testClosed", "testBacklog", "clear", "leave"}
  /\ gateMu = "net" <=> net \in {"sentNotify", "closeNotify"}

\* m_waiting is up exactly while the patch thread is inside the wait.
WaitingInv ==
  waiting <=> stream \in {"testClosed", "testBacklog", "parked", "relock", "clear"}

\* A thread past the closed test, or parked, on a closed gate: the notifier
\* still has its notify_all() ahead of it.
CloseInv ==
  /\ closed /\ stream \in {"testBacklog", "parked"} => net \in {"closeLock", "closeNotify"}
  /\ net \in {"closeLock", "closeNotify"} => closed

\* A thread parked under the ceiling: so has the writer.
DrainInv ==
  stream = "parked" /\ Writable =>
    \/ net \in {"sent", "sentLock", "sentNotify"}
    \/ net \in {"closeLock", "closeNotify"}

\* A packet is read only with the backlog under the ceiling.
RoomInv ==
  /\ stream \in {"enterClosed", "read"} => Writable
  /\ stream \in {"clear", "leave"} => Writable \/ closed
  /\ BacklogBounded

GateInv == GateTypeOK /\ MutexInv /\ WaitingInv /\ CloseInv /\ DrainInv /\ RoomInv

LEMMA InitGateInv == GateInit => GateInv
  <1> SUFFICES ASSUME GateInit PROVE GateInv
    OBVIOUS
  <1> USE DEF GateInit
  <1>1. GateTypeOK
    <2>1. backlog \in Nat /\ left \in 0..Packets
      BY GateAssumption
    <2>2. waiting \in BOOLEAN /\ closed \in BOOLEAN /\ alive \in BOOLEAN
      OBVIOUS
    <2>3. stream \in StreamAt /\ net \in NetAt /\ gateMu \in {"none", "stream", "net"}
      BY DEF StreamAt, NetAt
    <2> QED BY <2>1, <2>2, <2>3 DEF GateTypeOK
  <1>2. MutexInv /\ CloseInv /\ DrainInv
    BY DEF MutexInv, CloseInv, DrainInv
  <1>3. ~waiting
    OBVIOUS
  <1>4. WaitingInv
    BY <1>3 DEF WaitingInv
  <1>5. BacklogBounded
    BY GateAssumption DEF BacklogBounded
  <1>6. RoomInv
    BY <1>5 DEF RoomInv
  <1> QED BY <1>1, <1>2, <1>4, <1>6 DEF GateInv

LEMMA PatchKeepsGateInv == GateInv /\ (StreamStep \/ SpuriousWake) => GateInv'
  <1> SUFFICES ASSUME GateInv, StreamStep \/ SpuriousWake PROVE GateInv'
    OBVIOUS
  <1> USE GateAssumption DEF GateInv, GateTypeOK, StreamAt, NetAt, MutexInv, WaitingInv, CloseInv,
          DrainInv, RoomInv, Writable, BacklogBounded, StreamGo
  <1>1. CASE Enter         BY <1>1 DEF Enter
  <1>2. CASE EnterClosed   BY <1>2 DEF EnterClosed
  <1>3. CASE Lock          BY <1>3 DEF Lock
  <1>4. CASE Mark          BY <1>4 DEF Mark, Marked
  <1>5. CASE TestClosed    BY <1>5 DEF TestClosed
  <1>6. CASE TestBacklog   BY <1>6 DEF TestBacklog
  <1>7. CASE Relock        BY <1>7 DEF Relock
  <1>8. CASE Clear         BY <1>8 DEF Clear
  <1>9. CASE Leave         BY <1>9 DEF Leave
  <1>10. CASE ReadAndPost  BY <1>10 DEF ReadAndPost
  <1>11. CASE EndOfArtifact BY <1>11 DEF EndOfArtifact
  <1>12. CASE SpuriousWake BY <1>12 DEF SpuriousWake
  <1> QED BY <1>1, <1>2, <1>3, <1>4, <1>5, <1>6, <1>7, <1>8, <1>9, <1>10, <1>11, <1>12
          DEF StreamStep

LEMMA NetKeepsGateInv ==
  GateInv /\ (NetStep \/ Disarm \/ \E n \in 1..backlog : Write(n)) => GateInv'
  <1> SUFFICES ASSUME GateInv, NetStep \/ Disarm \/ \E n \in 1..backlog : Write(n)
               PROVE GateInv'
    OBVIOUS
  <1> USE GateAssumption DEF GateInv, GateTypeOK, StreamAt, NetAt, MutexInv, WaitingInv, CloseInv,
          DrainInv, RoomInv, Writable, BacklogBounded, NetGo, NetLock, Woken
  <1>1. CASE LookForWaiter BY <1>1 DEF LookForWaiter
  <1>2. CASE SentLock      BY <1>2 DEF SentLock
  <1>3. CASE SentNotify    BY <1>3 DEF SentNotify
  <1>4. CASE Close         BY <1>4 DEF Close
  <1>5. CASE CloseLock     BY <1>5 DEF CloseLock
  <1>6. CASE CloseNotify   BY <1>6 DEF CloseNotify
  <1>7. CASE Disarm        BY <1>7 DEF Disarm
  <1>8. ASSUME NEW n \in 1..backlog, Write(n) PROVE GateInv'
    BY <1>8 DEF Write, Sent
  <1> QED BY <1>1, <1>2, <1>3, <1>4, <1>5, <1>6, <1>7, <1>8 DEF NetStep

\* The inductive invariant holds in every reachable state.
THEOREM GateInvariance == GateSpec => []GateInv
  <1>1. GateInv /\ [GateNext]_gateVars => GateInv'
    <2> SUFFICES ASSUME GateInv, [GateNext]_gateVars PROVE GateInv'
      OBVIOUS
    <2>1. CASE GateNext
      BY <2>1, PatchKeepsGateInv, NetKeepsGateInv DEF GateNext
    <2>2. CASE UNCHANGED gateVars
      BY <2>2 DEF gateVars, GateInv, GateTypeOK, MutexInv, WaitingInv, CloseInv, DrainInv, RoomInv,
         Writable, BacklogBounded
    <2> QED BY <2>1, <2>2
  <1> QED BY <1>1, InitGateInv, PTL DEF GateSpec

\* The fields keep their types, and the byte count never goes below zero.
THEOREM GateTypeCorrect == GateSpec => []GateTypeOK
  <1>1. GateInv => GateTypeOK
    BY DEF GateInv
  <1> QED BY <1>1, GateInvariance, PTL

\* No interleaving of awaitWritable() with onSent() and onClosed() parks the
\* patch thread for good: whenever it could go on, its wake-up is under way.
THEOREM NoWakeupLost == GateSpec => []NoLostWakeup
  <1>1. GateInv => NoLostWakeup
    <2> SUFFICES ASSUME GateInv, stream = "parked"
                 PROVE /\ closed => net \in {"closeLock", "closeNotify"}
                       /\ Writable => net \in {"sent", "sentLock", "sentNotify"}
                                   \/ (closed /\ net \in {"closeLock", "closeNotify"})
                       /\ waiting
      BY DEF NoLostWakeup
    <2>1. waiting
      BY DEF GateInv, WaitingInv
    <2>2. closed => net \in {"closeLock", "closeNotify"}
      BY DEF GateInv, CloseInv
    <2>3. Writable => net \in {"sent", "sentLock", "sentNotify"}
                   \/ (closed /\ net \in {"closeLock", "closeNotify"})
      BY DEF GateInv, DrainInv, CloseInv
    <2> QED BY <2>1, <2>2, <2>3
  <1> QED BY <1>1, GateInvariance, PTL

\* The stream overshoots the ceiling by one packet at most.
THEOREM BacklogStaysBounded == GateSpec => []BacklogBounded
  <1>1. GateInv => BacklogBounded
    BY DEF GateInv, RoomInv
  <1> QED BY <1>1, GateInvariance, PTL
=============================================================================
