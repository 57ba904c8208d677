------------------------------ MODULE IocpProofs -----------------------------
(***************************************************************************)
(* A connection of the IOCP engine, for any number of workers, of threads  *)
(* that send to it or close it, and of bytes: its reference count is       *)
(* exact, so the context outlives its users; the callbacks run one at a    *)
(* time; a close asked for in one is acted on.                             *)
(***************************************************************************)
EXTENDS IocpConnection, FiniteSetTheorems, TLAPS

\* TypeOK without what needs an argument: the count and the bytes.
FieldTypes ==
  /\ refs \in Int /\ freed \in BOOLEAN /\ dead \in BOOLEAN
  /\ sock \in {"open", "closed"} /\ sendShutdown \in BOOLEAN
  /\ cb \in Workers \cup {Nobody} /\ dispatching \in BOOLEAN
  /\ recvOp \in OpState /\ sendOp \in OpState
  /\ mu \in Threads \cup {Nobody} /\ armed \in BOOLEAN /\ closeRequested \in BOOLEAN
  /\ out \in Nat /\ writing \in BOOLEAN
  /\ shut \in BOOLEAN /\ known \in BOOLEAN /\ onCloses \in Nat /\ asked \in BOOLEAN
  /\ adopted \in BOOLEAN /\ stop \in {"no", "closing", "done"}

PlaceTypes ==
  /\ at \in [Actors -> WorkerAt \cup ThreadAt]
  /\ op \in [Workers -> {"accept", "recv", "send", "failed"}]

Types == FieldTypes /\ PlaceTypes

\* Which kind of completion a worker carries where it is; Finishing is the
\* common end of every callback.
Finishing == {"append", "postSend", "drainCheck", "drained", "halfClose"}
ByAccept  == {"adopt", "greet", "greeted"}
Places ==
  /\ \A w \in Workers :
       /\ at[w] \in WorkerAt
       /\ at[w] \in ByAccept => op[w] = "accept"
       /\ at[w] = "lock"     => op[w] # "accept"
       /\ at[w] = "data"     => op[w] = "recv"
       /\ at[w] = "sent"     => op[w] = "send"
       /\ at[w] = "rearm"    => op[w] \in {"accept", "recv"}
       /\ at[w] \in Finishing \cup {"closedTest"} => op[w] # "failed"
  /\ \A t \in Threads : at[t] \in ThreadAt

\* cb is held from the lock to the unlock, by one worker.
Locked  == WorkerAt \ {"idle", "adopt", "greet", "lock", "release"}
CbInv   == \A w \in Workers : at[w] \in Locked <=> cb = w

\* One worker tears down, once, and no data comes after.
Ending  == {"disarm", "teardown"}
DeadInv ==
  /\ \A w \in Workers : at[w] \in Ending => dead /\ onCloses = 0
  /\ \A w \in Workers : at[w] = "data" => ~dead
  /\ onCloses # 0 => onCloses = 1 /\ dead

\* A sender inside the context holds the channel's mutex, and disarm() waits
\* for it.
MuInv ==
  /\ \A t \in Threads : at[t] \in {"append", "postSend"} => mu = t /\ armed
  /\ ~known => \A t \in Threads : at[t] = "idle"
  /\ \A w \in Workers : at[w] = "teardown" => ~armed
  /\ onCloses # 0 => ~armed
  /\ freed /\ armed => ~known

\* Whoever may post or has posted the write: it is owned, by one of them.
Writes(a)  == at[a] = "postSend" \/ (a \in Workers /\ at[a] \in {"lock", "sent"} /\ op[a] = "send")
WriteInv ==
  /\ sendOp # "none" => writing
  /\ \A a \in Actors : Writes(a) =>
       /\ writing /\ sendOp = "none"
       /\ \A b \in Actors : Writes(b) => a = b

\* Whoever may post the read, while none is posted.
Reads(w) == op[w] \in {"accept", "recv"} /\ at[w] \notin {"idle", "unlock", "release"}
ReadInv ==
  \A w \in Workers : Reads(w) =>
    recvOp = "none" /\ \A v \in Workers : Reads(v) => v = w

\* Before the adoption nothing else has begun.
AdoptInv ==
  \A w \in Workers : at[w] = "adopt" =>
    /\ recvOp = "none" /\ sendOp = "none" /\ ~known /\ onCloses = 0 /\ ~freed
    /\ \A v \in Workers : at[v] # "idle" => v = w

\* The references: the alive one, one of each worker at work, one of each
\* operation.
Working == {w \in Workers : at[w] # "idle"}
One(b)  == IF b THEN 1 ELSE 0
RefsInv ==
  /\ refs = One(onCloses = 0 /\ ~freed) + Cardinality(Working)
              + One(recvOp # "none") + One(sendOp # "none")
  /\ freed <=> refs = 0

Filling  == {a \in Actors : at[a] \in {"send", "append"}}
SpaceInv == out + Cardinality(Filling) <= MaxBytes

\* A close that no thread asked for is on its way to being acted on.
CloseInv ==
  /\ \A t \in Threads : at[t] \in {"ask", "seeDispatching"} => asked
  /\ closeRequested /\ ~asked =>
       \/ sendShutdown \/ sock = "closed" \/ dead \/ out > 0
       \/ \E w \in Workers : at[w] \in Finishing \cup {"greeted"}

IInv == /\ Types /\ Places /\ CbInv /\ DeadInv /\ MuInv /\ WriteInv /\ ReadInv
        /\ AdoptInv /\ RefsInv /\ SpaceInv /\ CloseInv
-----------------------------------------------------------------------------
(* The actions by what they are about.                                     *)

Taking(w) == \/ TakeRecv(w) \/ TakeSend(w)
Greeting(w) == \/ Adopt(w) \/ (\E n \in 0..1, closes \in BOOLEAN : Greet(w, n, closes))
               \/ Greeted(w)
Serving(w) == \/ Lock(w) \/ (\E n \in 0..1, closes \in BOOLEAN : Data(w, n, closes))
              \/ (\E n \in 1..MaxBytes : Sent(w, n)) \/ ClosedTest(w) \/ Unlock(w)
              \/ Release(w)
Reading(w) == \/ Rearm(w) \/ RearmFails(w)
Burying(w) == \/ MarkDead(w) \/ Disarm(w) \/ Teardown(w)
Sending(a) == \/ Append(a) \/ PostSend(a) \/ PostSendFails(a)
Closing(a) == \/ DrainCheck(a) \/ Drained(a) \/ HalfClose(a)
Asking(t) == \/ SendPacket(t) \/ Post(t) \/ CloseSession(t) \/ RequestClose(t)
             \/ SeeDispatching(t)
Kernel == \/ (\E r \in {"ok", "failed"} : CompleteRecv(r))
          \/ (\E r \in {"ok", "failed"} : CompleteSend(r))
Stopping == \/ StopCalled \/ StopCloses \/ StopEnds

LEMMA NextCases ==
  Next => \/ \E w \in Workers : Taking(w) \/ Greeting(w) \/ Serving(w) \/ Reading(w) \/ Burying(w)
          \/ \E a \in Actors : Sending(a) \/ Closing(a)
          \/ \E t \in Threads : Asking(t)
          \/ Kernel \/ Stopping
BY DEF Next, WorkerStep, ThreadStep, StopStep, Actors, Taking, Greeting, Serving, Reading,
       Burying, Sending, Closing, Asking, Kernel, Stopping

LEMMA ActorFacts == Workers \cap Threads = {} /\ Nobody \notin Workers \cup Threads
BY IocpAssumption DEF Actors

\* What the count says of whoever is at work.
Referenced ==
  /\ \A w \in Workers : at[w] # "idle" =>
       /\ ~freed /\ refs > 0
       /\ refs = 1 => onCloses # 0 /\ recvOp = "none" /\ sendOp = "none"
       /\ onCloses = 0 => refs > 1
  /\ recvOp # "none" \/ sendOp # "none" => ~freed
  /\ freed => refs = 0 /\ recvOp = "none" /\ sendOp = "none" /\ \A w \in Workers : at[w] = "idle"
  /\ refs \in Nat

LEMMA WorkingFinite == IsFiniteSet(Working) /\ Cardinality(Working) \in Nat
BY IocpAssumption, FS_Subset, FS_CardinalityType DEF Working

LEMMA CountSays == ASSUME Types, RefsInv PROVE Referenced
<1>1. /\ refs = One(onCloses = 0 /\ ~freed) + Cardinality(Working) + One(recvOp # "none") + One(sendOp # "none")
      /\ freed <=> refs = 0
  BY DEF RefsInv
<1>2. Cardinality(Working) \in Nat /\ \A w \in Workers : at[w] # "idle" => Cardinality(Working) > 0
  BY WorkingFinite, FS_EmptySet DEF Working
<1>3. onCloses \in Nat /\ freed \in BOOLEAN
  BY DEF Types, FieldTypes
<1> QED BY <1>1, <1>2, <1>3 DEF One, Referenced

LEMMA FieldTypesStep == ASSUME FieldTypes, Places, Referenced, Next PROVE FieldTypes'
<1> USE ActorFacts DEF Go, FieldTypes, Places, Referenced, OpState, Actors, lifeVars,
                       sockVars, cbVars, opVars, chanVars, outVars, sessVars, srvVars
<1>1. ASSUME NEW w \in Workers, Taking(w) PROVE FieldTypes'
  BY <1>1 DEF Taking, TakeRecv, TakeSend, Take
<1>2. ASSUME NEW w \in Workers, Greeting(w) PROVE FieldTypes'
  <2>1. CASE Adopt(w)
    <3>1. CASE stop = "no"
      BY <2>1, <3>1 DEF Adopt
    <3>2. CASE stop # "no"
      <4>1. adopted' \in BOOLEAN
        BY <2>1, Zenon DEF Adopt
      <4> QED BY <2>1, <3>2, <4>1 DEF Adopt
    <3> QED BY <3>1, <3>2
  <2>2. ASSUME NEW n \in 0..1, NEW closes \in BOOLEAN, Greet(w, n, closes) PROVE FieldTypes'
    BY <2>2 DEF Greet
  <2>3. CASE Greeted(w)
    <3>1. dispatching' \in BOOLEAN
      BY <2>3, Zenon DEF Greeted
    <3> QED BY <2>3, <3>1 DEF Greeted
  <2> QED BY <1>2, <2>1, <2>2, <2>3 DEF Greeting
<1>3. ASSUME NEW w \in Workers, Serving(w) PROVE FieldTypes'
  <2>1. CASE Lock(w)
    BY <2>1 DEF Lock, LateDataDropped
  <2>2. ASSUME NEW n \in 0..1, NEW closes \in BOOLEAN, Data(w, n, closes) PROVE FieldTypes'
    BY <2>2 DEF Data
  <2>3. ASSUME NEW n \in 1..MaxBytes, Sent(w, n) PROVE FieldTypes'
    BY <2>3 DEF Sent, AfterLastSpan
  <2>4. CASE ClosedTest(w)
    BY <2>4 DEF ClosedTest
  <2>5. CASE Unlock(w)
    <3>1. dispatching' \in BOOLEAN
      BY <2>5, Zenon DEF Unlock
    <3> QED BY <2>5, <3>1 DEF Unlock
  <2>6. CASE Release(w)
    BY <2>6 DEF Release
  <2> QED BY <1>3, <2>1, <2>2, <2>3, <2>4, <2>5, <2>6 DEF Serving
<1>4. ASSUME NEW w \in Workers, Reading(w) PROVE FieldTypes'
  BY <1>4 DEF Reading, Rearm, RearmFails
<1>5. ASSUME NEW w \in Workers, Burying(w) PROVE FieldTypes'
  <2>1. CASE MarkDead(w)
    BY <2>1 DEF MarkDead, TornDown
  <2>2. CASE Disarm(w)
    <3>1. armed' \in BOOLEAN
      BY <2>2, Zenon DEF Disarm
    <3> QED BY <2>2, <3>1 DEF Disarm
  <2>3. CASE Teardown(w)
    BY <2>3 DEF Teardown, AliveDropped
  <2> QED BY <1>5, <2>1, <2>2, <2>3 DEF Burying
<1>6. ASSUME NEW a \in Actors, Sending(a) PROVE FieldTypes'
  <2>1. CASE Append(a)
    BY <2>1 DEF Append, Returned, MuAfter
  <2>2. CASE PostSend(a)
    BY <2>2 DEF PostSend, Returned, MuAfter, SendReference
  <2>3. CASE PostSendFails(a)
    <3>1. writing' \in BOOLEAN
      BY <2>3, Zenon DEF PostSendFails
    <3> QED BY <2>3, <3>1 DEF PostSendFails, Returned, MuAfter
  <2> QED BY <1>6, <2>1, <2>2, <2>3 DEF Sending
<1>7. ASSUME NEW a \in Actors, Closing(a) PROVE FieldTypes'
  <2>1. CASE DrainCheck(a)
    BY <2>1 DEF DrainCheck, Done
  <2>2. CASE Drained(a)
    BY <2>2 DEF Drained, Done
  <2>3. CASE HalfClose(a)
    BY <2>3 DEF HalfClose, Done
  <2> QED BY <1>7, <2>1, <2>2, <2>3 DEF Closing
<1>8. ASSUME NEW t \in Threads, Asking(t) PROVE FieldTypes'
  <2>1. CASE SendPacket(t)
    BY <2>1 DEF SendPacket
  <2>2. CASE Post(t)
    BY <2>2 DEF Post, PostGoes
  <2>3. CASE CloseSession(t)
    BY <2>3 DEF CloseSession
  <2>4. CASE RequestClose(t)
    BY <2>4 DEF RequestClose
  <2>5. CASE SeeDispatching(t)
    BY <2>5 DEF SeeDispatching
  <2> QED BY <1>8, <2>1, <2>2, <2>3, <2>4, <2>5 DEF Asking
<1>9. ASSUME Kernel PROVE FieldTypes'
  BY <1>9 DEF Kernel, CompleteRecv, CompleteSend
<1>10. ASSUME Stopping PROVE FieldTypes'
  BY <1>10 DEF Stopping, StopCalled, StopCloses, StopEnds, Quiescent, NoPendingAccept
<1> QED BY <1>1, <1>2, <1>3, <1>4, <1>5, <1>6, <1>7, <1>8, <1>9, <1>10, NextCases

LEMMA PlaceTypesStep == ASSUME PlaceTypes, Places, Next PROVE PlaceTypes'
<1> USE ActorFacts DEF Go, PlaceTypes, Places, WorkerAt, ThreadAt, Actors, lifeVars,
                       sockVars, cbVars, opVars, chanVars, outVars, sessVars, srvVars
<1>1. ASSUME NEW w \in Workers, Taking(w) PROVE PlaceTypes'
  BY <1>1 DEF Taking, TakeRecv, TakeSend, Take
<1>2. ASSUME NEW w \in Workers, Greeting(w) PROVE PlaceTypes'
  BY <1>2 DEF Greeting, Adopt, Greet, Greeted
<1>3. ASSUME NEW w \in Workers, Serving(w) PROVE PlaceTypes'
  BY <1>3 DEF Serving, Lock, Data, Sent, ClosedTest, Unlock, Release, LateDataDropped,
              AfterLastSpan
<1>4. ASSUME NEW w \in Workers, Reading(w) PROVE PlaceTypes'
  BY <1>4 DEF Reading, Rearm, RearmFails
<1>5. ASSUME NEW w \in Workers, Burying(w) PROVE PlaceTypes'
  BY <1>5 DEF Burying, MarkDead, Disarm, Teardown, TornDown, AliveDropped
<1>6. ASSUME NEW a \in Actors, Sending(a) PROVE PlaceTypes'
  BY <1>6 DEF Sending, Append, PostSend, PostSendFails, Returned, MuAfter, SendReference
<1>7. ASSUME NEW a \in Actors, Closing(a) PROVE PlaceTypes'
  BY <1>7 DEF Closing, DrainCheck, Drained, HalfClose, Done
<1>8. ASSUME NEW t \in Threads, Asking(t) PROVE PlaceTypes'
  BY <1>8 DEF Asking, SendPacket, Post, CloseSession, RequestClose, SeeDispatching, PostGoes
<1>9. ASSUME Kernel PROVE PlaceTypes'
  BY <1>9 DEF Kernel, CompleteRecv, CompleteSend
<1>10. ASSUME Stopping PROVE PlaceTypes'
  BY <1>10 DEF Stopping, StopCalled, StopCloses, StopEnds, Quiescent, NoPendingAccept
<1> QED BY <1>1, <1>2, <1>3, <1>4, <1>5, <1>6, <1>7, <1>8, <1>9, <1>10, NextCases

LEMMA PlacesStep == ASSUME Types, Places, Next PROVE Places'
<1> USE ActorFacts DEF Go, Types, FieldTypes, PlaceTypes, Places, WorkerAt, ThreadAt,
                       Finishing, ByAccept, Actors, lifeVars, sockVars, cbVars, opVars,
                       chanVars, outVars, sessVars, srvVars
<1>1. ASSUME NEW w \in Workers, Taking(w) PROVE Places'
  BY <1>1 DEF Taking, TakeRecv, TakeSend, Take
<1>2. ASSUME NEW w \in Workers, Greeting(w) PROVE Places'
  BY <1>2 DEF Greeting, Adopt, Greet, Greeted
<1>3. ASSUME NEW w \in Workers, Serving(w) PROVE Places'
  BY <1>3 DEF Serving, Lock, Data, Sent, ClosedTest, Unlock, Release, LateDataDropped,
              AfterLastSpan
<1>4. ASSUME NEW w \in Workers, Reading(w) PROVE Places'
  BY <1>4 DEF Reading, Rearm, RearmFails
<1>5. ASSUME NEW w \in Workers, Burying(w) PROVE Places'
  BY <1>5 DEF Burying, MarkDead, Disarm, Teardown, TornDown, AliveDropped
<1>6. ASSUME NEW a \in Actors, Sending(a) PROVE Places'
  BY <1>6 DEF Sending, Append, PostSend, PostSendFails, Returned, MuAfter, SendReference
<1>7. ASSUME NEW a \in Actors, Closing(a) PROVE Places'
  BY <1>7 DEF Closing, DrainCheck, Drained, HalfClose, Done
<1>8. ASSUME NEW t \in Threads, Asking(t) PROVE Places'
  BY <1>8 DEF Asking, SendPacket, Post, CloseSession, RequestClose, SeeDispatching, PostGoes
<1>9. ASSUME Kernel PROVE Places'
  BY <1>9 DEF Kernel, CompleteRecv, CompleteSend
<1>10. ASSUME Stopping PROVE Places'
  BY <1>10 DEF Stopping, StopCalled, StopCloses, StopEnds, Quiescent, NoPendingAccept
<1> QED BY <1>1, <1>2, <1>3, <1>4, <1>5, <1>6, <1>7, <1>8, <1>9, <1>10, NextCases

LEMMA CbStep == ASSUME Types, Places, CbInv, Next PROVE CbInv'
<1> USE ActorFacts DEF Go, Types, FieldTypes, PlaceTypes, Places, CbInv, Locked, WorkerAt,
                       ThreadAt, Actors, cbVars
<1>1. ASSUME NEW w \in Workers, Taking(w) PROVE CbInv'
  BY <1>1 DEF Taking, TakeRecv, TakeSend, Take
<1>2. ASSUME NEW w \in Workers, Greeting(w) PROVE CbInv'
  BY <1>2 DEF Greeting, Adopt, Greet, Greeted
<1>3. ASSUME NEW w \in Workers, Serving(w) PROVE CbInv'
  BY <1>3 DEF Serving, Lock, Data, Sent, ClosedTest, Unlock, Release, LateDataDropped,
              AfterLastSpan
<1>4. ASSUME NEW w \in Workers, Reading(w) PROVE CbInv'
  BY <1>4 DEF Reading, Rearm, RearmFails
<1>5. ASSUME NEW w \in Workers, Burying(w) PROVE CbInv'
  BY <1>5 DEF Burying, MarkDead, Disarm, Teardown, TornDown, AliveDropped
<1>6. ASSUME NEW a \in Actors, Sending(a) PROVE CbInv'
  BY <1>6 DEF Sending, Append, PostSend, PostSendFails, Returned, MuAfter, SendReference
<1>7. ASSUME NEW a \in Actors, Closing(a) PROVE CbInv'
  BY <1>7 DEF Closing, DrainCheck, Drained, HalfClose, Done
<1>8. ASSUME NEW t \in Threads, Asking(t) PROVE CbInv'
  BY <1>8 DEF Asking, SendPacket, Post, CloseSession, RequestClose, SeeDispatching, PostGoes
<1>9. ASSUME Kernel PROVE CbInv'
  BY <1>9 DEF Kernel, CompleteRecv, CompleteSend
<1>10. ASSUME Stopping PROVE CbInv'
  BY <1>10 DEF Stopping, StopCalled, StopCloses, StopEnds, Quiescent, NoPendingAccept
<1> QED BY <1>1, <1>2, <1>3, <1>4, <1>5, <1>6, <1>7, <1>8, <1>9, <1>10, NextCases

LEMMA DeadStep == ASSUME Types, Places, CbInv, DeadInv, Next PROVE DeadInv'
<1> USE ActorFacts DEF Go, Types, FieldTypes, PlaceTypes, Places, CbInv, DeadInv, Locked,
                       Ending, WorkerAt, Actors, lifeVars, sessVars
<1>1. ASSUME NEW w \in Workers, Taking(w) PROVE DeadInv'
  BY <1>1 DEF Taking, TakeRecv, TakeSend, Take
<1>2. ASSUME NEW w \in Workers, Greeting(w) PROVE DeadInv'
  BY <1>2 DEF Greeting, Adopt, Greet, Greeted
<1>3. ASSUME NEW w \in Workers, Serving(w) PROVE DeadInv'
  BY <1>3 DEF Serving, Lock, Data, Sent, ClosedTest, Unlock, Release, LateDataDropped,
              AfterLastSpan
<1>4. ASSUME NEW w \in Workers, Reading(w) PROVE DeadInv'
  BY <1>4 DEF Reading, Rearm, RearmFails
<1>5. ASSUME NEW w \in Workers, Burying(w) PROVE DeadInv'
  BY <1>5 DEF Burying, MarkDead, Disarm, Teardown, TornDown, AliveDropped
<1>6. ASSUME NEW a \in Actors, Sending(a) PROVE DeadInv'
  BY <1>6 DEF Sending, Append, PostSend, PostSendFails, Returned, MuAfter, SendReference
<1>7. ASSUME NEW a \in Actors, Closing(a) PROVE DeadInv'
  BY <1>7 DEF Closing, DrainCheck, Drained, HalfClose, Done
<1>8. ASSUME NEW t \in Threads, Asking(t) PROVE DeadInv'
  BY <1>8 DEF Asking, SendPacket, Post, CloseSession, RequestClose, SeeDispatching, PostGoes
<1>9. ASSUME Kernel PROVE DeadInv'
  BY <1>9 DEF Kernel, CompleteRecv, CompleteSend
<1>10. ASSUME Stopping PROVE DeadInv'
  BY <1>10 DEF Stopping, StopCalled, StopCloses, StopEnds, Quiescent, NoPendingAccept
<1> QED BY <1>1, <1>2, <1>3, <1>4, <1>5, <1>6, <1>7, <1>8, <1>9, <1>10, NextCases

LEMMA MuStep == ASSUME Types, Places, DeadInv, MuInv, AdoptInv, Referenced, Next PROVE MuInv'
<1> USE ActorFacts DEF Go, Types, FieldTypes, PlaceTypes, Places, MuInv, DeadInv, AdoptInv,
                       Referenced, Ending, WorkerAt, ThreadAt, Actors, lifeVars, chanVars,
                       sessVars
<1>1. ASSUME NEW w \in Workers, Taking(w) PROVE MuInv'
  BY <1>1 DEF Taking, TakeRecv, TakeSend, Take
<1>2. ASSUME NEW w \in Workers, Greeting(w) PROVE MuInv'
  <2>1. CASE Adopt(w)
    BY <2>1 DEF Adopt
  <2>2. ASSUME NEW n \in 0..1, NEW closes \in BOOLEAN, Greet(w, n, closes) PROVE MuInv'
    BY <2>2 DEF Greet
  <2>3. CASE Greeted(w)
    BY <2>3 DEF Greeted
  <2> QED BY <1>2, <2>1, <2>2, <2>3 DEF Greeting
<1>3. ASSUME NEW w \in Workers, Serving(w) PROVE MuInv'
  BY <1>3 DEF Serving, Lock, Data, Sent, ClosedTest, Unlock, Release, LateDataDropped,
              AfterLastSpan
<1>4. ASSUME NEW w \in Workers, Reading(w) PROVE MuInv'
  BY <1>4 DEF Reading, Rearm, RearmFails
<1>5. ASSUME NEW w \in Workers, Burying(w) PROVE MuInv'
  BY <1>5 DEF Burying, MarkDead, Disarm, Teardown, TornDown, AliveDropped
<1>6. ASSUME NEW a \in Actors, Sending(a) PROVE MuInv'
  BY <1>6 DEF Sending, Append, PostSend, PostSendFails, Returned, MuAfter, SendReference
<1>7. ASSUME NEW a \in Actors, Closing(a) PROVE MuInv'
  BY <1>7 DEF Closing, DrainCheck, Drained, HalfClose, Done
<1>8. ASSUME NEW t \in Threads, Asking(t) PROVE MuInv'
  BY <1>8 DEF Asking, SendPacket, Post, CloseSession, RequestClose, SeeDispatching, PostGoes
<1>9. ASSUME Kernel PROVE MuInv'
  BY <1>9 DEF Kernel, CompleteRecv, CompleteSend
<1>10. ASSUME Stopping PROVE MuInv'
  BY <1>10 DEF Stopping, StopCalled, StopCloses, StopEnds, Quiescent, NoPendingAccept
<1> QED BY <1>1, <1>2, <1>3, <1>4, <1>5, <1>6, <1>7, <1>8, <1>9, <1>10, NextCases

LEMMA WriteStep == ASSUME Types, Places, WriteInv, AdoptInv, Next PROVE WriteInv'
<1> USE ActorFacts DEF Go, Types, FieldTypes, PlaceTypes, Places, WriteInv, Writes,
                       AdoptInv, Finishing, ByAccept, WorkerAt, ThreadAt, Actors, OpState,
                       opVars, outVars
<1>1. ASSUME NEW w \in Workers, Taking(w) PROVE WriteInv'
  BY <1>1 DEF Taking, TakeRecv, TakeSend, Take
<1>2. ASSUME NEW w \in Workers, Greeting(w) PROVE WriteInv'
  BY <1>2 DEF Greeting, Adopt, Greet, Greeted
<1>3. ASSUME NEW w \in Workers, Serving(w) PROVE WriteInv'
  BY <1>3 DEF Serving, Lock, Data, Sent, ClosedTest, Unlock, Release, LateDataDropped,
              AfterLastSpan
<1>4. ASSUME NEW w \in Workers, Reading(w) PROVE WriteInv'
  BY <1>4 DEF Reading, Rearm, RearmFails
<1>5. ASSUME NEW w \in Workers, Burying(w) PROVE WriteInv'
  BY <1>5 DEF Burying, MarkDead, Disarm, Teardown, TornDown, AliveDropped
<1>6. ASSUME NEW a \in Actors, Sending(a) PROVE WriteInv'
  BY <1>6 DEF Sending, Append, PostSend, PostSendFails, Returned, MuAfter, SendReference
<1>7. ASSUME NEW a \in Actors, Closing(a) PROVE WriteInv'
  BY <1>7 DEF Closing, DrainCheck, Drained, HalfClose, Done
<1>8. ASSUME NEW t \in Threads, Asking(t) PROVE WriteInv'
  BY <1>8 DEF Asking, SendPacket, Post, CloseSession, RequestClose, SeeDispatching, PostGoes
<1>9. ASSUME Kernel PROVE WriteInv'
  BY <1>9 DEF Kernel, CompleteRecv, CompleteSend
<1>10. ASSUME Stopping PROVE WriteInv'
  BY <1>10 DEF Stopping, StopCalled, StopCloses, StopEnds, Quiescent, NoPendingAccept
<1> QED BY <1>1, <1>2, <1>3, <1>4, <1>5, <1>6, <1>7, <1>8, <1>9, <1>10, NextCases

LEMMA ReadStep == ASSUME Types, Places, ReadInv, AdoptInv, Next PROVE ReadInv'
<1> USE ActorFacts DEF Go, Types, FieldTypes, PlaceTypes, Places, ReadInv, Reads, AdoptInv,
                       Finishing, ByAccept, WorkerAt, ThreadAt, Actors, OpState, opVars
<1>1. ASSUME NEW w \in Workers, Taking(w) PROVE ReadInv'
  BY <1>1 DEF Taking, TakeRecv, TakeSend, Take
<1>2. ASSUME NEW w \in Workers, Greeting(w) PROVE ReadInv'
  BY <1>2 DEF Greeting, Adopt, Greet, Greeted
<1>3. ASSUME NEW w \in Workers, Serving(w) PROVE ReadInv'
  BY <1>3 DEF Serving, Lock, Data, Sent, ClosedTest, Unlock, Release, LateDataDropped,
              AfterLastSpan
<1>4. ASSUME NEW w \in Workers, Reading(w) PROVE ReadInv'
  BY <1>4 DEF Reading, Rearm, RearmFails
<1>5. ASSUME NEW w \in Workers, Burying(w) PROVE ReadInv'
  BY <1>5 DEF Burying, MarkDead, Disarm, Teardown, TornDown, AliveDropped
<1>6. ASSUME NEW a \in Actors, Sending(a) PROVE ReadInv'
  BY <1>6 DEF Sending, Append, PostSend, PostSendFails, Returned, MuAfter, SendReference
<1>7. ASSUME NEW a \in Actors, Closing(a) PROVE ReadInv'
  BY <1>7 DEF Closing, DrainCheck, Drained, HalfClose, Done
<1>8. ASSUME NEW t \in Threads, Asking(t) PROVE ReadInv'
  BY <1>8 DEF Asking, SendPacket, Post, CloseSession, RequestClose, SeeDispatching, PostGoes
<1>9. ASSUME Kernel PROVE ReadInv'
  BY <1>9 DEF Kernel, CompleteRecv, CompleteSend
<1>10. ASSUME Stopping PROVE ReadInv'
  BY <1>10 DEF Stopping, StopCalled, StopCloses, StopEnds, Quiescent, NoPendingAccept
<1> QED BY <1>1, <1>2, <1>3, <1>4, <1>5, <1>6, <1>7, <1>8, <1>9, <1>10, NextCases

LEMMA AdoptStep == ASSUME Types, Places, AdoptInv, MuInv, Next PROVE AdoptInv'
<1> USE ActorFacts DEF Go, Types, FieldTypes, PlaceTypes, Places, AdoptInv, MuInv, ByAccept,
                       WorkerAt, ThreadAt, Actors, OpState, lifeVars, opVars, sessVars
<1>1. ASSUME NEW w \in Workers, Taking(w) PROVE AdoptInv'
  BY <1>1 DEF Taking, TakeRecv, TakeSend, Take
<1>2. ASSUME NEW w \in Workers, Greeting(w) PROVE AdoptInv'
  BY <1>2 DEF Greeting, Adopt, Greet, Greeted
<1>3. ASSUME NEW w \in Workers, Serving(w) PROVE AdoptInv'
  BY <1>3 DEF Serving, Lock, Data, Sent, ClosedTest, Unlock, Release, LateDataDropped,
              AfterLastSpan
<1>4. ASSUME NEW w \in Workers, Reading(w) PROVE AdoptInv'
  BY <1>4 DEF Reading, Rearm, RearmFails
<1>5. ASSUME NEW w \in Workers, Burying(w) PROVE AdoptInv'
  BY <1>5 DEF Burying, MarkDead, Disarm, Teardown, TornDown, AliveDropped
<1>6. ASSUME NEW a \in Actors, Sending(a) PROVE AdoptInv'
  BY <1>6 DEF Sending, Append, PostSend, PostSendFails, Returned, MuAfter, SendReference
<1>7. ASSUME NEW a \in Actors, Closing(a) PROVE AdoptInv'
  BY <1>7 DEF Closing, DrainCheck, Drained, HalfClose, Done
<1>8. ASSUME NEW t \in Threads, Asking(t) PROVE AdoptInv'
  BY <1>8 DEF Asking, SendPacket, Post, CloseSession, RequestClose, SeeDispatching, PostGoes
<1>9. ASSUME Kernel PROVE AdoptInv'
  BY <1>9 DEF Kernel, CompleteRecv, CompleteSend
<1>10. ASSUME Stopping PROVE AdoptInv'
  BY <1>10 DEF Stopping, StopCalled, StopCloses, StopEnds, Quiescent, NoPendingAccept
<1> QED BY <1>1, <1>2, <1>3, <1>4, <1>5, <1>6, <1>7, <1>8, <1>9, <1>10, NextCases

LEMMA CloseStep == ASSUME Types, Places, CloseInv, Next PROVE CloseInv'
<1> USE ActorFacts DEF Go, Types, FieldTypes, PlaceTypes, Places, CloseInv, Finishing,
                       ByAccept, WorkerAt, ThreadAt, Actors, OpState, lifeVars, sockVars,
                       cbVars, opVars, chanVars, outVars, sessVars, srvVars
<1>1. ASSUME NEW w \in Workers, Taking(w) PROVE CloseInv'
  BY <1>1 DEF Taking, TakeRecv, TakeSend, Take
<1>2. ASSUME NEW w \in Workers, Greeting(w) PROVE CloseInv'
  BY <1>2 DEF Greeting, Adopt, Greet, Greeted
<1>3. ASSUME NEW w \in Workers, Serving(w) PROVE CloseInv'
  BY <1>3 DEF Serving, Lock, Data, Sent, ClosedTest, Unlock, Release, LateDataDropped,
              AfterLastSpan
<1>4. ASSUME NEW w \in Workers, Reading(w) PROVE CloseInv'
  BY <1>4 DEF Reading, Rearm, RearmFails
<1>5. ASSUME NEW w \in Workers, Burying(w) PROVE CloseInv'
  BY <1>5 DEF Burying, MarkDead, Disarm, Teardown, TornDown, AliveDropped
<1>6. ASSUME NEW a \in Actors, Sending(a) PROVE CloseInv'
  BY <1>6 DEF Sending, Append, PostSend, PostSendFails, Returned, MuAfter, SendReference
<1>7. ASSUME NEW a \in Actors, Closing(a) PROVE CloseInv'
  BY <1>7 DEF Closing, DrainCheck, Drained, HalfClose, Done
<1>8. ASSUME NEW t \in Threads, Asking(t) PROVE CloseInv'
  BY <1>8 DEF Asking, SendPacket, Post, CloseSession, RequestClose, SeeDispatching, PostGoes
<1>9. ASSUME Kernel PROVE CloseInv'
  BY <1>9 DEF Kernel, CompleteRecv, CompleteSend
<1>10. ASSUME Stopping PROVE CloseInv'
  BY <1>10 DEF Stopping, StopCalled, StopCloses, StopEnds, Quiescent, NoPendingAccept
<1> QED BY <1>1, <1>2, <1>3, <1>4, <1>5, <1>6, <1>7, <1>8, <1>9, <1>10, NextCases
-----------------------------------------------------------------------------
(* The two counts.                                                         *)

LEMMA WorkingMoves ==
  ASSUME Types, NEW a \in Actors, NEW y, at' = [at EXCEPT ![a] = y]
  PROVE  /\ a \in Workers /\ at[a] = "idle" /\ y # "idle" =>
              Cardinality(Working') = Cardinality(Working) + 1
         /\ a \in Workers /\ at[a] # "idle" /\ y = "idle" =>
              Cardinality(Working') = Cardinality(Working) - 1
         /\ a \notin Workers \/ (at[a] = "idle" <=> y = "idle") => Working' = Working
<1>1. \A b \in Actors : at'[b] = IF b = a THEN y ELSE at[b]
  BY DEF Types, PlaceTypes
<1>2. Workers \subseteq Actors
  BY DEF Actors
<1>3. ASSUME a \in Workers, at[a] = "idle", y # "idle"
      PROVE  Cardinality(Working') = Cardinality(Working) + 1
  <2>1. Working' = Working \cup {a} /\ a \notin Working
    BY <1>1, <1>2, <1>3 DEF Working
  <2> QED BY <2>1, WorkingFinite, FS_AddElement
<1>4. ASSUME a \in Workers, at[a] # "idle", y = "idle"
      PROVE  Cardinality(Working') = Cardinality(Working) - 1
  <2>1. Working' = Working \ {a} /\ a \in Working
    BY <1>1, <1>2, <1>4 DEF Working
  <2> QED BY <2>1, WorkingFinite, FS_RemoveElement
<1>5. ASSUME a \notin Workers \/ (at[a] = "idle" <=> y = "idle")
      PROVE  Working' = Working
  BY <1>1, <1>2, <1>5 DEF Working
<1> QED BY <1>3, <1>4, <1>5

LEMMA RefsStep ==
  ASSUME Types, Places, DeadInv, MuInv, WriteInv, ReadInv, AdoptInv, RefsInv, Referenced, Next
  PROVE  RefsInv'
<1> DEFINE n == Cardinality(Working)
<1>a. n \in Nat /\ refs \in Nat /\ onCloses \in Nat
  BY WorkingFinite DEF Referenced, Types, FieldTypes
<1>b. ASSUME UNCHANGED <<refs, freed, onCloses>>, n' = n,
             (recvOp' = "none") <=> (recvOp = "none"), (sendOp' = "none") <=> (sendOp = "none")
      PROVE  RefsInv'
  BY <1>b DEF RefsInv, One
<1>1. ASSUME NEW w \in Workers, Taking(w) PROVE RefsInv'
  <2>1. n' = n + 1
    BY <1>1, WorkingMoves DEF Taking, TakeRecv, TakeSend, Take, Go, Actors
  <2>2. /\ UNCHANGED <<refs, freed, onCloses>> /\ ~freed
        /\ \/ recvOp # "none" /\ recvOp' = "none" /\ UNCHANGED sendOp
           \/ sendOp # "none" /\ sendOp' = "none" /\ UNCHANGED recvOp
    BY <1>1 DEF Taking, TakeRecv, TakeSend, Take, Referenced, lifeVars, sessVars
  <2> HIDE DEF n
  <2>3. /\ refs = One(onCloses = 0 /\ ~freed) + n + One(recvOp # "none") + One(sendOp # "none")
        /\ freed <=> refs = 0
    BY DEF RefsInv, n
  <2>4. /\ refs' = One(onCloses = 0 /\ ~freed)' + n' + One(recvOp # "none")' + One(sendOp # "none")'
        /\ freed' <=> refs' = 0
    BY <1>a, <2>1, <2>2, <2>3 DEF One
  <2> QED BY <2>4 DEF RefsInv, n
<1>2. ASSUME NEW w \in Workers, Greeting(w) PROVE RefsInv'
  <2>1. ASSUME Adopt(w), stop # "no" PROVE RefsInv'
    <3>1. Working = {w} /\ recvOp = "none" /\ sendOp = "none"
      BY <2>1 DEF Adopt, Go, AdoptInv, Working
    <3>2. refs' = 0 /\ freed' = TRUE /\ UNCHANGED <<recvOp, sendOp>>
      BY <2>1 DEF Adopt, opVars
    <3>3. at' = [at EXCEPT ![w] = "idle"] /\ at[w] # "idle" /\ w \in Actors
      BY <2>1 DEF Adopt, Go, Actors
    <3>4. n' = n - 1 /\ n = 1
      BY <3>1, <3>3, WorkingMoves, FS_Singleton
    <3> QED BY <3>1, <3>2, <3>4 DEF RefsInv, One
  <2>2. ASSUME \/ Adopt(w) /\ stop = "no"
               \/ \E k \in 0..1, closes \in BOOLEAN : Greet(w, k, closes)
               \/ Greeted(w)
        PROVE  RefsInv'
    <3>1. PICK y : at' = [at EXCEPT ![w] = y] /\ y # "idle" /\ at[w] # "idle"
      BY <2>2 DEF Adopt, Greet, Greeted, Go
    <3>2. n' = n
      BY <3>1, WorkingMoves DEF Actors
    <3> QED BY <1>b, <2>2, <3>2 DEF Adopt, Greet, Greeted, lifeVars, opVars, sessVars
  <2> QED BY <1>2, <2>1, <2>2 DEF Greeting
<1>3. ASSUME NEW w \in Workers, Serving(w) PROVE RefsInv'
  <2>1. CASE Release(w)
    <3>1. at' = [at EXCEPT ![w] = "idle"] /\ at[w] # "idle" /\ w \in Actors
      BY <2>1 DEF Release, Go, Actors
    <3>2. n' = n - 1
      BY <3>1, WorkingMoves
    <3>3. /\ refs' = refs - 1 /\ UNCHANGED <<recvOp, sendOp, onCloses>>
          /\ freed' <=> (freed \/ refs = 1)
      BY <2>1 DEF Release, opVars, sessVars
    <3>4. ~freed /\ (refs = 1 => onCloses # 0) /\ refs > 0
      BY <3>1 DEF Referenced
    <3> HIDE DEF n
    <3>5. /\ refs = One(onCloses = 0 /\ ~freed) + n + One(recvOp # "none") + One(sendOp # "none")
          /\ freed <=> refs = 0
      BY DEF RefsInv, n
    <3>6. One(onCloses = 0 /\ ~freed)' = One(onCloses = 0 /\ ~freed)
      BY <3>3, <3>4 DEF One
    <3>7. /\ refs' = One(onCloses = 0 /\ ~freed)' + n' + One(recvOp # "none")' + One(sendOp # "none")'
          /\ freed' <=> refs' = 0
      BY <1>a, <3>2, <3>3, <3>4, <3>5, <3>6 DEF One
    <3> QED BY <3>7 DEF RefsInv, n
  <2>2. ASSUME \/ Lock(w) \/ ClosedTest(w) \/ Unlock(w)
               \/ (\E k \in 0..1, closes \in BOOLEAN : Data(w, k, closes))
               \/ \E k \in 1..MaxBytes : Sent(w, k)
        PROVE  RefsInv'
    <3>1. PICK y : at' = [at EXCEPT ![w] = y] /\ y # "idle" /\ at[w] # "idle"
      BY <2>2 DEF Lock, LateDataDropped, ClosedTest, Unlock, Data, Sent, AfterLastSpan, Go,
                  Types, PlaceTypes, Places
    <3>2. n' = n
      BY <3>1, WorkingMoves DEF Actors
    <3> QED BY <1>b, <2>2, <3>2 DEF Lock, ClosedTest, Unlock, Data, Sent, lifeVars, opVars, sessVars
  <2> QED BY <1>3, <2>1, <2>2 DEF Serving
<1>4. ASSUME NEW w \in Workers, Reading(w) PROVE RefsInv'
  <2>1. PICK y : at' = [at EXCEPT ![w] = y] /\ y # "idle" /\ at[w] # "idle"
    BY <1>4 DEF Reading, Rearm, RearmFails, Go
  <2>2. n' = n
    BY <2>1, WorkingMoves DEF Actors
  <2>3. CASE Rearm(w)
    <3>1. /\ recvOp = "none" /\ recvOp' = "posted" /\ refs' = refs + 1
          /\ UNCHANGED <<freed, onCloses, sendOp>> /\ ~freed
      BY <2>1, <2>3 DEF Rearm, Go, ReadInv, Reads, Places, Referenced, sessVars
    <3> QED BY <1>a, <2>2, <3>1 DEF RefsInv, One
  <2>4. CASE RearmFails(w)
    BY <1>b, <2>2, <2>4 DEF RearmFails, lifeVars, opVars, sessVars
  <2> QED BY <1>4, <2>3, <2>4 DEF Reading
<1>5. ASSUME NEW w \in Workers, Burying(w) PROVE RefsInv'
  <2>1. PICK y : at' = [at EXCEPT ![w] = y] /\ y # "idle" /\ at[w] # "idle"
    BY <1>5 DEF Burying, MarkDead, TornDown, Disarm, Teardown, Go
  <2>2. n' = n
    BY <2>1, WorkingMoves DEF Actors
  <2>3. CASE Teardown(w)
    <3>1. /\ refs' = refs - 1 /\ onCloses' = onCloses + 1 /\ UNCHANGED <<recvOp, sendOp>>
          /\ freed' <=> (freed \/ refs - 1 = 0)
      BY <2>3 DEF Teardown, AliveDropped, opVars
    <3>2. onCloses = 0 /\ ~freed /\ refs > 1
      BY <2>1, <2>3 DEF Teardown, Go, DeadInv, Ending, Referenced
    <3> QED BY <1>a, <2>2, <3>1, <3>2 DEF RefsInv, One
  <2>4. CASE MarkDead(w) \/ Disarm(w)
    BY <1>b, <2>2, <2>4 DEF MarkDead, Disarm, lifeVars, opVars, sessVars
  <2> QED BY <1>5, <2>3, <2>4 DEF Burying
<1>6. ASSUME NEW a \in Actors, Sending(a) PROVE RefsInv'
  <2>1. PICK y : /\ at' = [at EXCEPT ![a] = y]
                 /\ a \notin Workers \/ (at[a] # "idle" /\ y # "idle")
    BY <1>6, ActorFacts DEF Sending, Append, PostSend, PostSendFails, Returned, Go, Actors
  <2>2. n' = n
    BY <2>1, WorkingMoves
  <2>3. CASE PostSend(a)
    <3>1. /\ sendOp = "none" /\ sendOp' = "posted" /\ refs' = refs + 1
          /\ UNCHANGED <<freed, onCloses, recvOp>>
      BY <2>3 DEF PostSend, SendReference, Go, WriteInv, Writes, sessVars
    <3>2. ~freed
      <4>1. at[a] = "postSend"
        BY <2>3 DEF PostSend, Go
      <4>2. CASE a \in Workers
        BY <4>1, <4>2 DEF Referenced
      <4>3. CASE a \in Threads
        BY <4>1, <4>3 DEF MuInv, Types, FieldTypes
      <4> QED BY <4>2, <4>3 DEF Actors
    <3> QED BY <1>a, <2>2, <3>1, <3>2 DEF RefsInv, One
  <2>4. CASE Append(a) \/ PostSendFails(a)
    BY <1>b, <2>2, <2>4 DEF Append, PostSendFails, lifeVars, opVars, sessVars
  <2> QED BY <1>6, <2>3, <2>4 DEF Sending
<1>7. ASSUME NEW a \in Actors, Closing(a) PROVE RefsInv'
  <2>1. PICK y : /\ at' = [at EXCEPT ![a] = y]
                 /\ a \notin Workers \/ (at[a] # "idle" /\ y # "idle")
    BY <1>7, ActorFacts DEF Closing, DrainCheck, Drained, HalfClose, Done, Go, Actors
  <2>2. n' = n
    BY <2>1, WorkingMoves
  <2> QED BY <1>b, <1>7, <2>2 DEF Closing, DrainCheck, Drained, HalfClose, lifeVars, opVars, sessVars
<1>8. ASSUME NEW t \in Threads, Asking(t) PROVE RefsInv'
  <2>1. t \in Actors /\ t \notin Workers
    BY ActorFacts DEF Actors
  <2>2. PICK y : at' = [at EXCEPT ![t] = y]
    BY <1>8 DEF Asking, SendPacket, Post, CloseSession, RequestClose, SeeDispatching, Go
  <2>3. n' = n
    BY <2>1, <2>2, WorkingMoves
  <2> QED BY <1>b, <1>8, <2>3 DEF Asking, SendPacket, Post, CloseSession, RequestClose,
                                 SeeDispatching, lifeVars, opVars, sessVars
<1>9. ASSUME Kernel PROVE RefsInv'
  <2>1. n' = n
    BY <1>9 DEF Kernel, CompleteRecv, CompleteSend, Working
  <2> QED BY <1>b, <1>9, <2>1 DEF Kernel, CompleteRecv, CompleteSend, lifeVars, sessVars
<1>10. ASSUME Stopping PROVE RefsInv'
  <2>1. n' = n
    BY <1>10 DEF Stopping, StopCalled, StopCloses, StopEnds, Working
  <2> QED BY <1>b, <1>10, <2>1 DEF Stopping, StopCalled, StopCloses, StopEnds, lifeVars, opVars, sessVars
<1> QED BY <1>1, <1>2, <1>3, <1>4, <1>5, <1>6, <1>7, <1>8, <1>9, <1>10, NextCases

Fills == {"send", "append"}

LEMMA FillingMoves ==
  ASSUME Types, NEW a \in Actors, NEW y, at' = [at EXCEPT ![a] = y]
  PROVE  /\ Cardinality(Filling) \in Nat
         /\ at[a] \notin Fills /\ y \in Fills => Cardinality(Filling') = Cardinality(Filling) + 1
         /\ at[a] \in Fills /\ y \notin Fills => Cardinality(Filling') = Cardinality(Filling) - 1
         /\ (at[a] \in Fills <=> y \in Fills) => Filling' = Filling
<1>1. \A b \in Actors : at'[b] = IF b = a THEN y ELSE at[b]
  BY DEF Types, PlaceTypes
<1>2. IsFiniteSet(Filling) /\ Cardinality(Filling) \in Nat
  BY IocpAssumption, FS_Union, FS_Subset, FS_CardinalityType DEF Filling, Actors
<1>3. ASSUME at[a] \notin Fills, y \in Fills
      PROVE  Cardinality(Filling') = Cardinality(Filling) + 1
  <2>1. Filling' = Filling \cup {a} /\ a \notin Filling
    BY <1>1, <1>3 DEF Filling, Fills
  <2> QED BY <2>1, <1>2, FS_AddElement
<1>4. ASSUME at[a] \in Fills, y \notin Fills
      PROVE  Cardinality(Filling') = Cardinality(Filling) - 1
  <2>1. Filling' = Filling \ {a} /\ a \in Filling
    BY <1>1, <1>4 DEF Filling, Fills
  <2> QED BY <2>1, <1>2, FS_RemoveElement
<1>5. ASSUME at[a] \in Fills <=> y \in Fills
      PROVE  Filling' = Filling
  BY <1>1, <1>5 DEF Filling, Fills
<1> QED BY <1>2, <1>3, <1>4, <1>5

LEMMA SpaceStep == ASSUME Types, Places, SpaceInv, Next PROVE SpaceInv'
<1> DEFINE f == Cardinality(Filling)
<1>a. out \in Nat /\ MaxBytes \in Nat
  BY IocpAssumption DEF Types, FieldTypes
<1>b. ASSUME UNCHANGED out, Filling' = Filling PROVE SpaceInv'
  BY <1>b DEF SpaceInv
\* A byte more is on its way, and Space has found room for it.
<1>c. ASSUME NEW a \in Actors, NEW y \in Fills, Space, UNCHANGED out,
             at[a] \notin Fills, at' = [at EXCEPT ![a] = y]
      PROVE  SpaceInv'
  <2>1. f' = f + 1 /\ f \in Nat
    BY <1>c, FillingMoves
  <2>2. out + f < MaxBytes
    BY <1>c DEF Space, Filling
  <2> QED BY <1>a, <1>c, <2>1, <2>2 DEF SpaceInv
\* The same or one less.
<1>d. ASSUME NEW a \in Actors, NEW y, UNCHANGED out, at' = [at EXCEPT ![a] = y],
             y \in Fills => at[a] \in Fills
      PROVE  SpaceInv'
  <2>1. f \in Nat /\ (f' = f \/ f' = f - 1)
    BY <1>d, FillingMoves
  <2> HIDE DEF f
  <2>2. out + f <= MaxBytes
    BY DEF SpaceInv, f
  <2>3. out' = out
    BY <1>d
  <2>4. out' + f' <= MaxBytes
    BY <1>a, <2>1, <2>2, <2>3
  <2> QED BY <2>4 DEF SpaceInv, f
<1>1. ASSUME NEW w \in Workers, Taking(w) PROVE SpaceInv'
  BY <1>1, <1>d DEF Taking, TakeRecv, TakeSend, Take, Go, Fills, Actors, outVars
<1>2. ASSUME NEW w \in Workers, Greeting(w) PROVE SpaceInv'
  <2>1. ASSUME NEW k \in 0..1, NEW closes \in BOOLEAN, Greet(w, k, closes) PROVE SpaceInv'
    <3>1. CASE k > 0
      BY <2>1, <3>1, <1>c DEF Greet, Go, Fills, Actors, outVars
    <3>2. CASE ~(k > 0)
      BY <2>1, <3>2, <1>d DEF Greet, Go, Fills, Actors, outVars
    <3> QED BY <3>1, <3>2
  <2>2. ASSUME Adopt(w) \/ Greeted(w) PROVE SpaceInv'
    <3>1. PICK y : at' = [at EXCEPT ![w] = y] /\ y \notin Fills
      BY <2>2 DEF Adopt, Greeted, Go, Fills
    <3> QED BY <2>2, <3>1, <1>d DEF Adopt, Greeted, Actors, outVars
  <2> QED BY <1>2, <2>1, <2>2 DEF Greeting
<1>3. ASSUME NEW w \in Workers, Serving(w) PROVE SpaceInv'
  <2>1. ASSUME NEW k \in 0..1, NEW closes \in BOOLEAN, Data(w, k, closes) PROVE SpaceInv'
    <3>1. CASE k > 0
      BY <2>1, <3>1, <1>c DEF Data, Go, Fills, Actors, outVars
    <3>2. CASE ~(k > 0)
      BY <2>1, <3>2, <1>d DEF Data, Go, Fills, Actors, outVars
    <3> QED BY <3>1, <3>2
  <2>2. ASSUME NEW k \in 1..MaxBytes, Sent(w, k) PROVE SpaceInv'
    <3> DEFINE y == IF k < out THEN "postSend" ELSE AfterLastSpan
    <3>1. at' = [at EXCEPT ![w] = y] /\ at[w] \notin Fills
      BY <2>2 DEF Sent, Go, Fills
    <3>2. y \notin Fills
      BY DEF AfterLastSpan, Fills
    <3> HIDE DEF y
    <3>4. Filling' = Filling /\ f \in Nat
      BY <3>1, <3>2, FillingMoves DEF Actors
    <3>3. out' = out - k /\ k \in 1..out
      BY <2>2 DEF Sent
    <3> QED BY <1>a, <3>3, <3>4 DEF SpaceInv
  <2>3. ASSUME Lock(w) \/ ClosedTest(w) \/ Unlock(w) \/ Release(w) PROVE SpaceInv'
    <3>1. PICK y : at' = [at EXCEPT ![w] = y] /\ y \notin Fills
      BY <2>3 DEF Lock, LateDataDropped, ClosedTest, Unlock, Release, Go, Fills,
                  Types, FieldTypes, PlaceTypes, Places
    <3> QED BY <2>3, <3>1, <1>d DEF Lock, ClosedTest, Unlock, Release, Actors, outVars
  <2> QED BY <1>3, <2>1, <2>2, <2>3 DEF Serving
<1>4. ASSUME NEW w \in Workers, Reading(w) \/ Burying(w) PROVE SpaceInv'
  <2>1. PICK y : at' = [at EXCEPT ![w] = y] /\ y \notin Fills
    BY <1>4 DEF Reading, Burying, Rearm, RearmFails, MarkDead, Disarm, Teardown, Go, Fills
  <2> QED BY <1>4, <2>1, <1>d DEF Reading, Burying, Rearm, RearmFails, MarkDead, Disarm,
                                 Teardown, Actors, outVars
<1>5. ASSUME NEW a \in Actors, Sending(a) \/ Closing(a) PROVE SpaceInv'
  <2>1. PICK y : at' = [at EXCEPT ![a] = y] /\ y \notin Fills
    BY <1>5 DEF Sending, Closing, Append, PostSend, PostSendFails, DrainCheck, Drained,
                HalfClose, Returned, Done, Go, Fills
  <2>2. CASE Append(a)
    <3>1. f' = f - 1 /\ f \in Nat /\ out' = out + 1
      BY <2>1, <2>2, FillingMoves DEF Append, Go, Fills
    <3> HIDE DEF f
    <3>2. out + f <= MaxBytes
      BY DEF SpaceInv, f
    <3>3. out' + f' <= MaxBytes
      BY <1>a, <3>1, <3>2
    <3> QED BY <3>3 DEF SpaceInv, f
  <2>3. CASE ~Append(a)
    BY <1>5, <2>1, <2>3, <1>d DEF Sending, Closing, PostSend, PostSendFails, DrainCheck,
                                 Drained, HalfClose, outVars
  <2> QED BY <2>2, <2>3
<1>6. ASSUME NEW t \in Threads, Asking(t) PROVE SpaceInv'
  <2>1. CASE SendPacket(t)
    BY <2>1, <1>c DEF SendPacket, Go, Fills, Actors, outVars
  <2>2. CASE ~SendPacket(t)
    <3>1. PICK y : at' = [at EXCEPT ![t] = y] /\ (y \in Fills => at[t] \in Fills)
      BY <1>6, <2>2 DEF Asking, Post, PostGoes, CloseSession, RequestClose, SeeDispatching, Go, Fills
    <3> QED BY <1>6, <2>2, <3>1, <1>d DEF Asking, Post, CloseSession, RequestClose,
                                         SeeDispatching, Actors, outVars
  <2> QED BY <2>1, <2>2
<1>7. ASSUME Kernel \/ Stopping PROVE SpaceInv'
  BY <1>7, <1>b DEF Kernel, Stopping, CompleteRecv, CompleteSend, StopCalled, StopCloses,
                    StopEnds, Filling, outVars
<1> QED BY <1>1, <1>2, <1>3, <1>4, <1>5, <1>6, <1>7, NextCases

-----------------------------------------------------------------------------
LEMMA InitInv == Init => IInv
<1> SUFFICES ASSUME Init PROVE IInv
  OBVIOUS
<1>1. PICK w \in Workers : at = [a \in Actors |-> IF a = w THEN "adopt" ELSE "idle"]
  BY DEF Init
<1>2. \A a \in Actors : at[a] = IF a = w THEN "adopt" ELSE "idle"
  BY <1>1
<1>3. w \in Actors /\ w \notin Threads /\ Workers \subseteq Actors /\ Threads \subseteq Actors
  BY ActorFacts DEF Actors
<1>4. Types
  <2>1. /\ freed \in BOOLEAN /\ dead \in BOOLEAN /\ sendShutdown \in BOOLEAN /\ dispatching \in BOOLEAN
        /\ armed \in BOOLEAN /\ closeRequested \in BOOLEAN /\ writing \in BOOLEAN
        /\ shut \in BOOLEAN /\ known \in BOOLEAN /\ asked \in BOOLEAN /\ adopted \in BOOLEAN
    BY Zenon DEF Init
  <2>2. FieldTypes
    BY <2>1 DEF Init, FieldTypes, OpState
  <2>3. PlaceTypes
    BY <1>1 DEF Init, PlaceTypes, WorkerAt, ThreadAt
  <2> QED BY <2>2, <2>3 DEF Types
<1>5. /\ Places /\ CbInv /\ DeadInv /\ MuInv /\ WriteInv /\ ReadInv /\ AdoptInv /\ CloseInv
  BY <1>2, <1>3, ActorFacts DEF Init, Places, CbInv, DeadInv, MuInv, WriteInv, ReadInv, AdoptInv,
     CloseInv, WorkerAt, ThreadAt, ByAccept, Finishing, Locked, Ending, Writes, Reads
<1>6. RefsInv
  <2>1. Working = {w}
    BY <1>2, <1>3 DEF Working
  <2>2. Cardinality(Working) = 1
    BY <2>1, FS_Singleton
  <2> QED BY <2>2 DEF Init, RefsInv, One
<1>7. SpaceInv
  <2>1. Filling = {}
    BY <1>2 DEF Filling
  <2> QED BY <2>1, FS_EmptySet, IocpAssumption DEF Init, SpaceInv
<1> QED BY <1>4, <1>5, <1>6, <1>7 DEF IInv

LEMMA StepInv == IInv /\ [Next]_vars => IInv'
<1> SUFFICES ASSUME IInv, [Next]_vars PROVE IInv'
  OBVIOUS
<1>1. CASE Next
  <2>1. Referenced
    BY CountSays DEF IInv
  <2> QED BY <1>1, <2>1, FieldTypesStep, PlaceTypesStep, PlacesStep, CbStep, DeadStep, MuStep,
             WriteStep, ReadStep, AdoptStep, RefsStep, SpaceStep, CloseStep DEF IInv, Types
<1>2. CASE UNCHANGED vars
  BY <1>2 DEF IInv, Types, FieldTypes, PlaceTypes, Places, CbInv, DeadInv, MuInv, WriteInv,
     ReadInv, AdoptInv, RefsInv, SpaceInv, CloseInv, Writes, Reads, Working, Filling,
     vars, lifeVars, sockVars, cbVars, opVars, chanVars, outVars, sessVars, srvVars
<1> QED BY <1>1, <1>2

\* The strengthening that the theorems below rest on: the count of
\* references is exact, and who may change it is known.
THEOREM Invariance == Spec => []IInv
BY InitInv, StepInv, PTL DEF Spec

\* Every field keeps its type: the reference count never goes below zero and
\* the bytes queued stay within what the senders were allowed.
THEOREM IocpTypeCorrect == Spec => []TypeOK
<1>1. IInv => TypeOK
  <2> SUFFICES ASSUME IInv PROVE TypeOK
    OBVIOUS
  <2>1. refs \in Nat
    BY CountSays DEF IInv, Referenced
  <2>2. out \in 0..MaxBytes
    <3>1. Cardinality(Filling) \in Nat
      BY IocpAssumption, FS_Union, FS_Subset, FS_CardinalityType DEF Filling, Actors
    <3> QED BY <3>1, IocpAssumption DEF IInv, SpaceInv, Types, FieldTypes
  <2> QED BY <2>1, <2>2 DEF IInv, Types, FieldTypes, PlaceTypes, TypeOK
<1> QED BY <1>1, Invariance, PTL

\* ConnCtx is deleted by its last user: the kernel, the workers and the
\* threads inside post() are done with it by then.
THEOREM ContextOutlivesUsers == Spec => []OutlivesUsers
<1>1. IInv => OutlivesUsers
  <2> SUFFICES ASSUME IInv, freed PROVE OutlivesUsers
    BY DEF OutlivesUsers
  <2>1. /\ recvOp = "none" /\ sendOp = "none" /\ \A w \in Workers : at[w] = "idle"
    BY CountSays DEF IInv, Referenced
  <2>2. \A t \in Threads : at[t] \notin {"append", "postSend"}
    BY DEF IInv, MuInv
  <2> QED BY <2>1, <2>2 DEF OutlivesUsers
<1> QED BY <1>1, Invariance, PTL

\* The callbacks of the session do not overlap, and onClose() is called at
\* most once and followed by no data.
THEOREM CallbacksDoNotOverlap == Spec => []CallbacksSerial
<1>1. IInv => CallbacksSerial
  <2> SUFFICES ASSUME IInv PROVE CallbacksSerial
    OBVIOUS
  <2> DEFINE C == {w \in Workers : at[w] \in InCallback}
  <2>1. C \subseteq {cb}
    BY DEF IInv, CbInv, InCallback, Locked, WorkerAt
  <2>2. Cardinality(C) <= 1
    <3> HIDE DEF C
    <3>1. IsFiniteSet({cb}) /\ Cardinality({cb}) = 1
      BY FS_Singleton
    <3>2. Cardinality(C) <= Cardinality({cb})
      BY <2>1, <3>1, FS_Subset
    <3>3. IsFiniteSet(C) /\ Cardinality(C) \in Nat
      BY <2>1, <3>1, FS_Subset, FS_CardinalityType
    <3> QED BY <3>1, <3>2, <3>3
  <2>3. onCloses <= 1 /\ (onCloses = 1 => \A w \in Workers : at[w] # "data")
    BY DEF IInv, DeadInv, Types, FieldTypes
  <2> QED BY <2>2, <2>3 DEF CallbacksSerial
<1> QED BY <1>1, Invariance, PTL

\* A close asked for inside a callback does not get lost: nobody goes idle
\* with it undone and nothing left to send.
THEOREM CloseIsActedOn == Spec => []CloseActedOn
<1>1. IInv => CloseActedOn
  BY DEF IInv, CloseInv, CloseActedOn, Types, FieldTypes, Finishing, Actors
<1> QED BY <1>1, Invariance, PTL
=============================================================================
