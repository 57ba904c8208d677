---------------------------- MODULE ReactorProofs ---------------------------
(***************************************************************************)
(* The lifetime of a reactor connection, for any number of threads, bytes  *)
(* and requests: until the worker is asked to close it from inside         *)
(* onConnect(), the acceptor owns it up to handoff() and no thread touches *)
(* a deleted Connection.                                                   *)
(***************************************************************************)
EXTENDS ReactorConnection, TLAPS

Handles == {"recv", "flush", "readClosed", "writeDone", "reqClose"}
Before  == {"accept", "connect", "closePush", "greet", "handoff"}

\* The worker's list holds live connections, and only what was handed off.
OwnedInv == registered => conn = "live" /\ ~incoming /\ worker # "add"

\* Until handoff() the acceptor has the connection to itself.
BeforeInv ==
  /\ acceptor \in Before => ~registered /\ ~incoming /\ ~known /\ worker # "add"
  /\ acceptor \in {"connect", "closePush", "greet", "handoff"} => conn = "live"
  /\ acceptor = "closePush" => refused
  /\ acceptor # "closeWake"

\* Handed off, not registered yet: no client byte was read, nobody knows it.
FreshInv ==
  /\ incoming => conn = "live" /\ ~known /\ worker # "add"
  /\ worker = "add" => conn = "live" /\ ~known

\* The worker works on registered connections.
HandlesInv == worker \in Handles => registered

\* Requests come from threads that know the session, and an armed channel
\* that is known leads to a registered connection.
RequestInv ==
  /\ ~known => reqs = 0 /\ reqQueue = 0 /\ at = [t \in Threads |-> "idle"]
  /\ known /\ alive => registered

LInv == OwnedInv /\ BeforeInv /\ FreshInv /\ HandlesInv /\ RequestInv

\* The Closer runs at the end of onConnect(), if at all.
OnceInv == acceptor \in {"accept", "connect", "greet"} => ~refused

Inv  == TypeOK /\ OnceInv /\ (~Asked => LInv)

LEMMA InitInv == Init => Inv
  <1> SUFFICES ASSUME Init PROVE Inv
    OBVIOUS
  <1> USE DEF Init
  <1>1. TypeOK
    <2>1. /\ conn \in {"none", "live", "freed"}
          /\ worker \in WorkerAt /\ from \in Callers /\ acceptor \in AcceptorAt
          /\ stop \in StopAt /\ peer \in {"open", "gone"}
      BY DEF WorkerAt, Callers, AcceptorAt, StopAt
    <2>2. at \in [Threads -> ThreadAt]
      BY DEF ThreadAt
    <2>3. out \in 0..MaxBytes /\ reqQueue \in Nat /\ reqs \in Nat
      BY ReactorAssumption
    <2>4. /\ registered \in BOOLEAN /\ writeArmed \in BOOLEAN /\ drainClose \in BOOLEAN
          /\ alive \in BOOLEAN /\ closeRequested \in BOOLEAN
          /\ incoming \in BOOLEAN /\ woken \in BOOLEAN
          /\ writable \in BOOLEAN /\ wantClose \in BOOLEAN
          /\ shut \in BOOLEAN /\ known \in BOOLEAN /\ onClosed \in BOOLEAN /\ refused \in BOOLEAN
          /\ inbox \in BOOLEAN /\ room \in BOOLEAN
      OBVIOUS
    <2> QED BY <2>1, <2>2, <2>3, <2>4 DEF TypeOK
  <1>2. LInv
    BY DEF LInv, OwnedInv, BeforeInv, FreshInv, HandlesInv, RequestInv, Before, Handles
  <1> QED BY <1>1, <1>2 DEF Inv, OnceInv

\* TypeOK in two halves: the Boolean fields, and the others.
Flags ==
  /\ registered \in BOOLEAN /\ writeArmed \in BOOLEAN /\ drainClose \in BOOLEAN
  /\ alive \in BOOLEAN /\ closeRequested \in BOOLEAN
  /\ incoming \in BOOLEAN /\ woken \in BOOLEAN
  /\ writable \in BOOLEAN /\ wantClose \in BOOLEAN
  /\ shut \in BOOLEAN /\ known \in BOOLEAN /\ onClosed \in BOOLEAN /\ refused \in BOOLEAN
  /\ inbox \in BOOLEAN /\ room \in BOOLEAN

Places ==
  /\ conn \in {"none", "live", "freed"} /\ out \in 0..MaxBytes
  /\ reqQueue \in Nat /\ reqs \in Nat
  /\ worker \in WorkerAt /\ from \in Callers
  /\ acceptor \in AcceptorAt /\ at \in [Threads -> ThreadAt] /\ stop \in StopAt
  /\ peer \in {"open", "gone"}

LEMMA TwoHalves == TypeOK <=> Flags /\ Places
  BY DEF TypeOK, Flags, Places

LEMMA ReturnPoints ==
  ASSUME from \in Callers
  PROVE  /\ AfterClose \in {"incoming", "takeReqs", "nextReq"}
         /\ AfterFlush \in {"readClosed", "writeDone", "takeReqs", "reqClose"}
  <1>1. CASE from \in {"read", "write"}
    BY <1>1 DEF AfterClose, AfterFlush
  <1>2. CASE from = "incoming"
    BY <1>2 DEF AfterClose, AfterFlush
  <1>3. CASE from = "request"
    BY <1>3 DEF AfterClose, AfterFlush
  <1> QED BY <1>1, <1>2, <1>3 DEF Callers

\* The Boolean fields under the steps that change several of them.
LEMMA WaitFlags ==
  ASSUME Flags, Wait
  PROVE  Flags'
  <1>1. woken' \in BOOLEAN /\ writable' \in BOOLEAN
    BY DEF Wait
  <1>2. UNCHANGED <<registered, writeArmed, drainClose, alive, closeRequested, incoming,
                    wantClose, shut, known, onClosed, refused, inbox, room>>
    BY DEF Wait, connVars, chanVars, sessionVars, outsideVars
  <1> QED BY <1>1, <1>2 DEF Flags

LEMMA RecvFlags ==
  ASSUME Flags, NEW n, NEW closes \in BOOLEAN, Recv(n, closes)
  PROVE  Flags'
  <1>1. inbox' \in BOOLEAN /\ shut' \in BOOLEAN /\ known' \in BOOLEAN
    BY DEF Recv
  <1>2. UNCHANGED <<registered, writeArmed, drainClose, alive, closeRequested, incoming, woken,
                    writable, wantClose, onClosed, refused, room>>
    BY DEF Recv, connVars, queueVars
  <1> QED BY <1>1, <1>2 DEF Flags

LEMMA CloseConnFlags ==
  ASSUME Flags, CloseConn
  PROVE  Flags'
  <1>1. alive' \in BOOLEAN /\ onClosed' \in BOOLEAN /\ registered' \in BOOLEAN
    BY DEF CloseConn, Disarmed
  <1>2. UNCHANGED <<writeArmed, drainClose, closeRequested, incoming, woken, writable, wantClose,
                    shut, known, refused, inbox, room>>
    BY DEF CloseConn, queueVars, outsideVars
  <1> QED BY <1>1, <1>2 DEF Flags

LEMMA ShutdownFlags ==
  ASSUME Flags, Shutdown
  PROVE  Flags'
  <1>1. alive' \in BOOLEAN
    <2>1. CASE registered
      BY <2>1 DEF Shutdown
    <2>2. CASE ~registered
      BY <2>2 DEF Shutdown, Flags
    <2> QED BY <2>1, <2>2
  <1>2. registered' \in BOOLEAN
    BY DEF Shutdown
  <1>3. UNCHANGED <<writeArmed, drainClose, closeRequested, incoming, woken, writable, wantClose,
                    shut, known, onClosed, refused, inbox, room>>
    BY DEF Shutdown, queueVars, sessionVars, outsideVars
  <1> QED BY <1>1, <1>2, <1>3 DEF Flags

LEMMA ReapFlags ==
  ASSUME Flags, Reap
  PROVE  Flags'
  <1>1. alive' \in BOOLEAN
    <2>1. CASE incoming
      BY <2>1 DEF Reap, ReapsIncoming
    <2>2. CASE ~incoming
      BY <2>2 DEF Reap, ReapsIncoming, Flags
    <2> QED BY <2>1, <2>2
  <1>2. incoming' \in BOOLEAN
    BY DEF Reap
  <1>3. UNCHANGED <<registered, writeArmed, drainClose, closeRequested, woken, writable, wantClose,
                    shut, known, onClosed, refused, inbox, room>>
    BY DEF Reap, workVars, sessionVars, outsideVars
  <1> QED BY <1>1, <1>2, <1>3 DEF Flags

LEMMA CloseConnTyped == TypeOK /\ CloseConn => TypeOK'
  <1> SUFFICES ASSUME TypeOK, CloseConn PROVE TypeOK'
    OBVIOUS
  <1> USE DEF CloseConn, Disarmed, queueVars, outsideVars
  <1>1. Flags /\ Places
    BY TwoHalves
  <1>2. AfterClose \in {"incoming", "takeReqs", "nextReq"}
    BY <1>1, ReturnPoints DEF Places
  <1>3. Flags'
    BY <1>1, CloseConnFlags
  <1>4. Places'
    BY <1>1, <1>2 DEF Places, WorkerAt
  <1>5. TypeOK'
    BY <1>3, <1>4 DEF TypeOK, Flags, Places
  <1> QED BY <1>5

LEMMA CloseConnKeeps == TypeOK /\ LInv /\ registered /\ CloseConn => LInv'
  <1> SUFFICES ASSUME TypeOK, LInv, registered, CloseConn PROVE LInv'
    OBVIOUS
  <1> USE DEF CloseConn, Disarmed, queueVars, outsideVars
  <1>1. AfterClose \in {"incoming", "takeReqs", "nextReq"}
    BY ReturnPoints DEF TypeOK
  <1>2. conn = "live" /\ ~incoming /\ acceptor \notin Before
        /\ acceptor \notin {"closePush", "closeWake"}
    BY DEF LInv, OwnedInv, BeforeInv, Before
  <1> HIDE DEF AfterClose
  <1>3. OwnedInv' /\ BeforeInv' /\ FreshInv'
    BY <1>1, <1>2 DEF OwnedInv, BeforeInv, FreshInv, Before
  <1>4. HandlesInv'
    BY <1>1 DEF HandlesInv, Handles
  <1>5. RequestInv'
    BY DEF LInv, RequestInv
  <1> QED BY <1>3, <1>4, <1>5 DEF LInv

LEMMA AcceptorTyped == TypeOK /\ (Accept \/ AcceptorStep) => TypeOK'
  <1> SUFFICES ASSUME TypeOK, Accept \/ AcceptorStep PROVE TypeOK'
    OBVIOUS
  <1> USE ReactorAssumption DEF TypeOK, WorkerAt, AcceptorAt, ThreadAt, StopAt, Callers,
          AcceptorGo, WorkerGo, StopGo, ThreadGo,
          connVars, chanVars, queueVars, workVars, sessionVars, outsideVars
  <1>1. CASE Accept
    BY <1>1 DEF Accept, HandedOffYet
  <1>2. CASE Greet
    BY <1>2 DEF Greet
  <1>3. CASE CloseInConnect
    BY <1>3 DEF CloseInConnect
  <1>4. CASE ConnectPush
    BY <1>4 DEF ConnectPush
  <1>5. CASE ConnectWake
    BY <1>5 DEF ConnectWake
  <1>6. CASE AppendGreeting
    BY <1>6 DEF AppendGreeting
  <1>7. CASE Handoff
    BY <1>7 DEF Handoff
  <1>8. CASE HandoffWake
    BY <1>8 DEF HandoffWake
  <1>9. CASE AcceptorExit
    BY <1>9 DEF AcceptorExit, running
  <1> QED BY <1>1, <1>2, <1>3, <1>4, <1>5, <1>6, <1>7, <1>8, <1>9 DEF AcceptorStep

LEMMA WorkerTyped == TypeOK /\ (WorkerStep) => TypeOK'
  <1> SUFFICES ASSUME TypeOK, WorkerStep PROVE TypeOK'
    OBVIOUS
  <1> USE ReactorAssumption DEF TypeOK, WorkerAt, AcceptorAt, ThreadAt, StopAt, Callers,
          AcceptorGo, WorkerGo, StopGo, ThreadGo,
          connVars, chanVars, queueVars, workVars, sessionVars, outsideVars
  <1>1. CASE Wait
    <2>1. Flags /\ Places
      BY TwoHalves
    <2>2. Flags'
      BY <1>1, <2>1, WaitFlags
    <2>3. Places'
      BY <1>1, <2>1 DEF Places, Wait, AfterWait
    <2>4. TypeOK'
      BY <2>2, <2>3 DEF TypeOK, Flags, Places
    <2> QED BY <2>4
  <1>2. CASE RecvEnd
    BY <1>2, CloseConnTyped DEF RecvEnd
  <1>3. CASE FlushDone
    <2>1. Flags /\ Places
      BY TwoHalves
    <2>2. Flags'
      <3>1. writeArmed' \in BOOLEAN
        BY <1>3 DEF FlushDone, BlockedArmed
      <3>2. UNCHANGED <<registered, drainClose, alive, closeRequested, incoming, woken, writable,
                        wantClose, shut, known, onClosed, refused, inbox, room>>
        BY <1>3 DEF FlushDone
      <3> QED BY <2>1, <3>1, <3>2 DEF Flags
    <2>3. Places'
      BY <1>3, <2>1, ReturnPoints DEF Places, FlushDone, BlockedArmed
    <2>4. TypeOK'
      BY <2>2, <2>3 DEF TypeOK, Flags, Places
    <2> QED BY <2>4
  <1>4. CASE FlushFatal
    BY <1>4, CloseConnTyped DEF FlushFatal
  <1>5. CASE ReadClosedNow
    BY <1>5, CloseConnTyped DEF ReadClosedNow
  <1>6. CASE ReadClosed
    BY <1>6 DEF ReadClosed
  <1>7. CASE WriteDoneClose
    BY <1>7, CloseConnTyped DEF WriteDoneClose
  <1>8. CASE WriteDone
    BY <1>8 DEF WriteDone
  <1>9. CASE TakeIncoming
    <2>1. Flags /\ Places
      BY TwoHalves
    <2>2. Flags'
      <3>1. incoming' \in BOOLEAN
        BY <1>9 DEF TakeIncoming
      <3>2. UNCHANGED <<registered, writeArmed, drainClose, alive, closeRequested, woken, writable,
                        wantClose, shut, known, onClosed, refused, inbox, room>>
        BY <1>9 DEF TakeIncoming
      <3> QED BY <2>1, <3>1, <3>2 DEF Flags
    <2>3. Places'
      BY <1>9, <2>1 DEF Places, TakeIncoming
    <2>4. TypeOK'
      BY <2>2, <2>3 DEF TypeOK, Flags, Places
    <2> QED BY <2>4
  <1>10. CASE Add
    BY <1>10 DEF Add
  <1>11. CASE AddFails
    BY <1>11 DEF AddFails
  <1>12. CASE TakeRequests
    BY <1>12 DEF TakeRequests
  <1>13. CASE NextRequest
    BY <1>13 DEF NextRequest, MoreRequests
  <1>14. CASE NoMoreRequests
    BY <1>14 DEF NoMoreRequests
  <1>15. CASE RequestCloseNow
    BY <1>15, CloseConnTyped DEF RequestCloseNow
  <1>16. CASE RequestDone
    BY <1>16 DEF RequestDone, ClosesHere
  <1>17. CASE Shutdown
    <2>1. Flags /\ Places
      BY TwoHalves
    <2>2. Flags'
      BY <1>17, <2>1, ShutdownFlags
    <2>3. Places'
      BY <1>17, <2>1 DEF Places, Shutdown
    <2>4. TypeOK'
      BY <2>2, <2>3 DEF TypeOK, Flags, Places
    <2> QED BY <2>4
  <1>18. ASSUME NEW n \in 0..1, NEW closes \in BOOLEAN, Recv(n, closes) PROVE TypeOK'
    <2>1. Flags /\ Places
      BY TwoHalves
    <2>2. Flags'
      BY <1>18, <2>1, RecvFlags
    <2>3. Places'
      BY <1>18, <2>1 DEF Places, Recv
    <2>4. TypeOK'
      BY <2>2, <2>3 DEF TypeOK, Flags, Places
    <2> QED BY <2>4
  <1>19. ASSUME NEW n \in 1..MaxBytes, SendSome(n) PROVE TypeOK'
    BY <1>19 DEF SendSome
  <1> QED BY <1>1, <1>2, <1>3, <1>4, <1>5, <1>6, <1>7, <1>8, <1>9, <1>10, <1>11, <1>12,
     <1>13, <1>14, <1>15, <1>16, <1>17, <1>18, <1>19 DEF WorkerStep

LEMMA StopTyped == TypeOK /\ (StopCalled \/ StopStep \/ PeerWrites \/ PeerReads \/ PeerLeaves \/ OtherTraffic) => TypeOK'
  <1> SUFFICES ASSUME TypeOK, StopCalled \/ StopStep \/ PeerWrites \/ PeerReads \/ PeerLeaves \/ OtherTraffic PROVE TypeOK'
    OBVIOUS
  <1> USE ReactorAssumption DEF TypeOK, WorkerAt, AcceptorAt, ThreadAt, StopAt, Callers,
          AcceptorGo, WorkerGo, StopGo, ThreadGo,
          connVars, chanVars, queueVars, workVars, sessionVars, outsideVars
  <1>1. CASE StopCalled
    BY <1>1 DEF StopCalled
  <1>2. CASE WakeWorker
    BY <1>2 DEF WakeWorker, StopWakes
  <1>3. CASE Reap
    <2>1. Flags /\ Places
      BY TwoHalves
    <2>2. Flags'
      BY <1>3, <2>1, ReapFlags
    <2>3. Places'
      BY <1>3, <2>1 DEF Places, Reap, ReapsIncoming
    <2>4. TypeOK'
      BY <2>2, <2>3 DEF TypeOK, Flags, Places
    <2> QED BY <2>4
  <1>4. CASE PeerWrites
    BY <1>4 DEF PeerWrites
  <1>5. CASE PeerReads
    BY <1>5 DEF PeerReads
  <1>6. CASE PeerLeaves
    BY <1>6 DEF PeerLeaves
  <1>7. CASE OtherTraffic
    BY <1>7 DEF OtherTraffic
  <1> QED BY <1>1, <1>2, <1>3, <1>4, <1>5, <1>6, <1>7 DEF StopStep

LEMMA ThreadsTyped == TypeOK /\ (\E t \in Threads : SendPacket(t) \/ CloseSession(t) \/ ThreadStep(t)) => TypeOK'
  <1> SUFFICES ASSUME TypeOK, \E t \in Threads : SendPacket(t) \/ CloseSession(t) \/ ThreadStep(t) PROVE TypeOK'
    OBVIOUS
  <1> USE ReactorAssumption DEF TypeOK, WorkerAt, AcceptorAt, ThreadAt, StopAt, Callers,
          AcceptorGo, WorkerGo, StopGo, ThreadGo,
          connVars, chanVars, queueVars, workVars, sessionVars, outsideVars
  <1>1. ASSUME NEW t \in Threads, SendPacket(t) PROVE TypeOK'
    BY <1>1 DEF SendPacket
  <1>2. ASSUME NEW t \in Threads, Post(t) PROVE TypeOK'
    BY <1>2 DEF Post
  <1>3. ASSUME NEW t \in Threads, CloseSession(t) PROVE TypeOK'
    BY <1>3 DEF CloseSession
  <1>4. ASSUME NEW t \in Threads, RequestClose(t) PROVE TypeOK'
    BY <1>4 DEF RequestClose
  <1>5. ASSUME NEW t \in Threads, Push(t) PROVE TypeOK'
    BY <1>5 DEF Push
  <1>6. ASSUME NEW t \in Threads, Wake(t) PROVE TypeOK'
    BY <1>6 DEF Wake
  <1> QED BY <1>1, <1>2, <1>3, <1>4, <1>5, <1>6 DEF ThreadStep

LEMMA AcceptorKeeps == TypeOK /\ LInv /\ ~Asked' /\ (Accept \/ AcceptorStep) => LInv'
  <1> SUFFICES ASSUME TypeOK, LInv, ~Asked', Accept \/ AcceptorStep PROVE LInv'
    OBVIOUS
  <1> USE ReactorAssumption DEF TypeOK, LInv, OwnedInv, BeforeInv, FreshInv, HandlesInv, RequestInv,
          Before, Handles, AcceptorGo, WorkerGo, StopGo, ThreadGo,
          connVars, chanVars, queueVars, workVars, sessionVars, outsideVars
  <1>1. CASE Accept
    BY <1>1 DEF Accept, HandedOffYet
  <1>2. CASE Greet
    BY <1>2 DEF Greet
  <1>3. CASE CloseInConnect
    BY <1>3 DEF CloseInConnect
  <1>4. CASE ConnectPush
    BY <1>4 DEF ConnectPush, Asked
  <1>5. CASE ConnectWake
    BY <1>5 DEF ConnectWake
  <1>6. CASE AppendGreeting
    BY <1>6 DEF AppendGreeting
  <1>7. CASE Handoff
    BY <1>7 DEF Handoff
  <1>8. CASE HandoffWake
    BY <1>8 DEF HandoffWake
  <1>9. CASE AcceptorExit
    BY <1>9 DEF AcceptorExit, running
  <1> QED BY <1>1, <1>2, <1>3, <1>4, <1>5, <1>6, <1>7, <1>8, <1>9 DEF AcceptorStep

LEMMA WorkerKeeps == TypeOK /\ LInv /\ (WorkerStep) => LInv'
  <1> SUFFICES ASSUME TypeOK, LInv, WorkerStep PROVE LInv'
    OBVIOUS
  <1> USE ReactorAssumption DEF TypeOK, LInv, OwnedInv, BeforeInv, FreshInv, HandlesInv, RequestInv,
          Before, Handles, AcceptorGo, WorkerGo, StopGo, ThreadGo,
          connVars, chanVars, queueVars, workVars, sessionVars, outsideVars
  <1>1. CASE Wait
    BY <1>1 DEF Wait, AfterWait, Readable, Writable, running
  <1>2. CASE RecvEnd
    <2>1. registered
      BY <1>2 DEF RecvEnd
    <2> QED BY <1>2, <2>1, CloseConnKeeps DEF RecvEnd
  <1>3. CASE FlushDone
    <2>1. AfterFlush \in {"readClosed", "writeDone", "takeReqs", "reqClose"}
      BY ReturnPoints
    <2>2. registered
      BY <1>3 DEF FlushDone
    <2> QED BY <1>3, <2>1, <2>2 DEF FlushDone
  <1>4. CASE FlushFatal
    <2>1. registered
      BY <1>4 DEF FlushFatal
    <2> QED BY <1>4, <2>1, CloseConnKeeps DEF FlushFatal
  <1>5. CASE ReadClosedNow
    <2>1. registered
      BY <1>5 DEF ReadClosedNow
    <2> QED BY <1>5, <2>1, CloseConnKeeps DEF ReadClosedNow
  <1>6. CASE ReadClosed
    BY <1>6 DEF ReadClosed
  <1>7. CASE WriteDoneClose
    <2>1. registered
      BY <1>7 DEF WriteDoneClose
    <2> QED BY <1>7, <2>1, CloseConnKeeps DEF WriteDoneClose
  <1>8. CASE WriteDone
    BY <1>8 DEF WriteDone
  <1>9. CASE TakeIncoming
    BY <1>9 DEF TakeIncoming
  <1>10. CASE Add
    BY <1>10 DEF Add
  <1>11. CASE AddFails
    BY <1>11 DEF AddFails
  <1>12. CASE TakeRequests
    BY <1>12 DEF TakeRequests
  <1>13. CASE NextRequest
    BY <1>13 DEF NextRequest, MoreRequests
  <1>14. CASE NoMoreRequests
    BY <1>14 DEF NoMoreRequests
  <1>15. CASE RequestCloseNow
    <2>1. registered
      BY <1>15 DEF RequestCloseNow
    <2> QED BY <1>15, <2>1, CloseConnKeeps DEF RequestCloseNow
  <1>16. CASE RequestDone
    BY <1>16 DEF RequestDone, ClosesHere
  <1>17. CASE Shutdown
    BY <1>17 DEF Shutdown
  <1>18. ASSUME NEW n \in 0..1, NEW closes \in BOOLEAN, Recv(n, closes) PROVE LInv'
    BY <1>18 DEF Recv
  <1>19. ASSUME NEW n \in 1..MaxBytes, SendSome(n) PROVE LInv'
    BY <1>19 DEF SendSome
  <1> QED BY <1>1, <1>2, <1>3, <1>4, <1>5, <1>6, <1>7, <1>8, <1>9, <1>10, <1>11, <1>12,
     <1>13, <1>14, <1>15, <1>16, <1>17, <1>18, <1>19 DEF WorkerStep

LEMMA StopKeeps == TypeOK /\ LInv /\ (StopCalled \/ StopStep \/ PeerWrites \/ PeerReads \/ PeerLeaves \/ OtherTraffic) => LInv'
  <1> SUFFICES ASSUME TypeOK, LInv, StopCalled \/ StopStep \/ PeerWrites \/ PeerReads \/ PeerLeaves \/ OtherTraffic PROVE LInv'
    OBVIOUS
  <1> USE ReactorAssumption DEF TypeOK, LInv, OwnedInv, BeforeInv, FreshInv, HandlesInv, RequestInv,
          Before, Handles, AcceptorGo, WorkerGo, StopGo, ThreadGo,
          connVars, chanVars, queueVars, workVars, sessionVars, outsideVars
  <1>1. CASE StopCalled
    BY <1>1 DEF StopCalled
  <1>2. CASE WakeWorker
    BY <1>2 DEF WakeWorker, StopWakes
  <1>3. CASE Reap
    BY <1>3 DEF Reap, ReapsIncoming
  <1>4. CASE PeerWrites
    BY <1>4 DEF PeerWrites
  <1>5. CASE PeerReads
    BY <1>5 DEF PeerReads
  <1>6. CASE PeerLeaves
    BY <1>6 DEF PeerLeaves
  <1>7. CASE OtherTraffic
    BY <1>7 DEF OtherTraffic
  <1> QED BY <1>1, <1>2, <1>3, <1>4, <1>5, <1>6, <1>7 DEF StopStep

LEMMA ThreadsKeep == TypeOK /\ LInv /\ (\E t \in Threads : SendPacket(t) \/ CloseSession(t) \/ ThreadStep(t)) => LInv'
  <1> SUFFICES ASSUME TypeOK, LInv, \E t \in Threads : SendPacket(t) \/ CloseSession(t) \/ ThreadStep(t) PROVE LInv'
    OBVIOUS
  <1> USE ReactorAssumption DEF TypeOK, LInv, OwnedInv, BeforeInv, FreshInv, HandlesInv, RequestInv,
          Before, Handles, AcceptorGo, WorkerGo, StopGo, ThreadGo,
          connVars, chanVars, queueVars, workVars, sessionVars, outsideVars
  <1>1. ASSUME NEW t \in Threads, SendPacket(t) PROVE LInv'
    BY <1>1 DEF SendPacket
  <1>2. ASSUME NEW t \in Threads, Post(t) PROVE LInv'
    BY <1>2 DEF Post
  <1>3. ASSUME NEW t \in Threads, CloseSession(t) PROVE LInv'
    BY <1>3 DEF CloseSession
  <1>4. ASSUME NEW t \in Threads, RequestClose(t) PROVE LInv'
    BY <1>4 DEF RequestClose
  <1>5. ASSUME NEW t \in Threads, Push(t) PROVE LInv'
    BY <1>5 DEF Push
  <1>6. ASSUME NEW t \in Threads, Wake(t) PROVE LInv'
    BY <1>6 DEF Wake
  <1> QED BY <1>1, <1>2, <1>3, <1>4, <1>5, <1>6 DEF ThreadStep

\* What a session did in onConnect() is not taken back, and it does it once.
LEMMA AskedStays ==
  ASSUME OnceInv, [Next]_vars
  PROVE  OnceInv' /\ (Asked => Asked')
  <1> USE DEF OnceInv, Asked, AcceptorGo, sessionVars
  <1>1. CASE Accept \/ AcceptorStep
    BY <1>1 DEF Accept, AcceptorStep, Greet, CloseInConnect, ConnectPush, ConnectWake,
       AppendGreeting, Handoff, HandoffWake, AcceptorExit
  <1>2. CASE WorkerStep
    <2>1. CloseConn => UNCHANGED <<refused, acceptor>>
      BY DEF CloseConn
    <2> QED BY <1>2, <2>1 DEF WorkerStep, Wait, RecvEnd, FlushDone, FlushFatal, ReadClosedNow,
         ReadClosed, WriteDoneClose, WriteDone, TakeIncoming, Add, AddFails, TakeRequests,
         NextRequest, NoMoreRequests, RequestCloseNow, RequestDone, Shutdown, Recv, SendSome
  <1>3. CASE StopCalled \/ StopStep \/ PeerWrites \/ PeerReads \/ PeerLeaves \/ OtherTraffic
    BY <1>3 DEF StopCalled, StopStep, WakeWorker, Reap, PeerWrites, PeerReads, PeerLeaves,
       OtherTraffic
  <1>4. ASSUME NEW t \in Threads, SendPacket(t) \/ CloseSession(t) \/ ThreadStep(t)
        PROVE  UNCHANGED <<refused, acceptor>>
    BY <1>4 DEF SendPacket, CloseSession, ThreadStep, Post, RequestClose, Push, Wake
  <1>5. CASE UNCHANGED vars
    BY <1>5 DEF vars
  <1> QED BY <1>1, <1>2, <1>3, <1>4, <1>5 DEF Next

LEMMA NextKeepsInv == Inv /\ [Next]_vars => Inv'
  <1> SUFFICES ASSUME Inv, [Next]_vars PROVE Inv'
    OBVIOUS
  <1>1. CASE UNCHANGED vars
    BY <1>1 DEF vars, connVars, chanVars, queueVars, workVars, sessionVars, outsideVars, Inv,
       TypeOK, OnceInv, Asked, LInv, OwnedInv, BeforeInv, FreshInv, HandlesInv, RequestInv
  <1>2. CASE Next
    <2>1. TypeOK'
      BY <1>2, AcceptorTyped, WorkerTyped, StopTyped, ThreadsTyped DEF Next, Inv
    <2>2. OnceInv'
      BY <1>2, AskedStays DEF Inv
    <2>3. ASSUME ~Asked' PROVE LInv'
      <3>1. TypeOK /\ LInv
        BY <1>2, <2>3, AskedStays DEF Inv
      <3> QED BY <1>2, <2>3, <3>1, AcceptorKeeps, WorkerKeeps, StopKeeps, ThreadsKeep DEF Next
    <2> QED BY <2>1, <2>2, <2>3 DEF Inv
  <1> QED BY <1>1, <1>2

\* The fields keep their types, whatever sessions do in onConnect().
THEOREM ReactorTypeCorrect == Spec => []TypeOK
  <1>1. Inv => TypeOK
    BY DEF Inv
  <1> QED BY <1>1, InitInv, NextKeepsInv, PTL DEF Spec

\* The lifetime invariant holds until the worker is asked from onConnect().
THEOREM ReactorInvariance == Spec => []Inv
  BY InitInv, NextKeepsInv, PTL DEF Spec

\* No raw pointer outlives its connection: not in an event, not through the
\* channel, not in the incoming list, not with the acceptor -- until a session
\* that closes in onConnect() has asked the worker.
THEOREM NothingFreedIsUsed == Spec => []NoUseAfterFree
  <1>1. Inv => NoUseAfterFree
    BY DEF Inv, LInv, OwnedInv, BeforeInv, FreshInv, HandlesInv, NoUseAfterFree, AcceptorOwns, Before, Handles
  <1> QED BY <1>1, ReactorInvariance, PTL

\* The acceptor's ownership, onConnect() included: the connection is live and
\* the worker has no part in it until handoff() -- or until a request to close
\* it, made inside onConnect(), has reached the worker's queue, and the session
\* that closes there has it up to that very step.
THEOREM AcceptorOwnsUntilAsked == Spec => [](AcceptorOwns \/ Asked)
  <1>1. Inv => AcceptorOwns \/ Asked
    BY DEF Inv, LInv, OwnedInv, BeforeInv, HandlesInv, AcceptorOwns, Before, Handles
  <1> QED BY <1>1, ReactorInvariance, PTL
-----------------------------------------------------------------------------
(* Nothing is stranded, whatever sessions do in onConnect().               *)

Pushing == \E t \in Threads : at[t] = "push"
Waking  == \E t \in Threads : at[t] = "wake"

\* The worker has already looked at the list of new connections, or at the
\* queue of requests, and will not do it again before it waits.
PastIncoming == \/ worker \in {"wait", "add", "takeReqs", "nextReq", "reqClose"}
                \/ worker = "flush" /\ from \in {"incoming", "request"}
PastRequests == \/ worker \in {"wait", "nextReq", "reqClose"}
                \/ worker = "flush" /\ from = "request"

\* from names the caller of flush() where the worker returns from it; the
\* requests it took are dealt with before anything else.
CallerInv ==
  /\ worker \in {"recv", "writeDone"} => from = "write"
  /\ worker = "readClosed" => from = "read"
  /\ worker = "reqClose" => from = "request"
  /\ reqs > 0 => worker \in {"nextReq", "reqClose"} \/ (worker = "flush" /\ from = "request")

WakeInv ==
  /\ PastRequests /\ reqQueue > 0 => woken \/ acceptor = "closeWake" \/ Waking
  /\ PastIncoming /\ incoming => woken \/ acceptor = "wake"

BytesInv ==
  /\ registered /\ out > 0 =>
       \/ writeArmed \/ worker = "flush"
       \/ alive /\ (reqQueue > 0 \/ Pushing \/ reqs > 0)
  /\ acceptor \in {"accept", "connect", "greet"} => ~refused
  /\ worker = "ended" => ~registered

SInv == CallerInv /\ WakeInv /\ BytesInv
\* What of TypeOK the argument needs.
Typed == reqQueue \in Nat /\ reqs \in Nat /\ out \in Nat /\ from \in Callers
         /\ at \in [Threads -> ThreadAt]

LEMMA InvTyped == Inv => Typed
  <1>1. 0..MaxBytes \subseteq Nat
    BY ReactorAssumption
  <1> QED BY <1>1 DEF Inv, TypeOK, Typed

LEMMA InitStranded == Init => SInv
  BY DEF Init, SInv, CallerInv, WakeInv, BytesInv, PastIncoming, PastRequests

LEMMA AcceptorStrands ==
  ASSUME Inv, SInv, Accept \/ AcceptorStep
  PROVE  SInv'
  <1> USE DEF Typed, SInv, CallerInv, WakeInv, BytesInv, PastIncoming, PastRequests,
          Pushing, Waking, AcceptorGo, WorkerGo, StopGo, connVars, chanVars, queueVars, workVars,
          sessionVars, outsideVars
  <1>0. Typed
    BY InvTyped
  <1>1. CASE Accept
    BY <1>0, <1>1 DEF Accept, HandedOffYet
  <1>2. CASE Greet
    BY <1>0, <1>2 DEF Greet
  <1>3. CASE CloseInConnect
    BY <1>0, <1>3 DEF CloseInConnect
  <1>4. CASE ConnectPush
    BY <1>0, <1>4 DEF ConnectPush
  <1>5. CASE ConnectWake
    BY <1>0, <1>5 DEF ConnectWake
  <1>6. CASE AppendGreeting
    <2>1. ~registered
      BY <1>6 DEF AppendGreeting, AcceptorGo, Inv, OnceInv, Asked, LInv, BeforeInv, Before
    <2>2. BytesInv'
      BY <1>6, <2>1 DEF AppendGreeting
    <2>3. CallerInv' /\ WakeInv'
      BY <1>6 DEF AppendGreeting
    <2> QED BY <2>2, <2>3
  <1>7. CASE Handoff
    BY <1>0, <1>7 DEF Handoff
  <1>8. CASE HandoffWake
    BY <1>0, <1>8 DEF HandoffWake
  <1>9. CASE AcceptorExit
    BY <1>0, <1>9 DEF AcceptorExit
  <1> QED BY <1>1, <1>2, <1>3, <1>4, <1>5, <1>6, <1>7, <1>8, <1>9 DEF AcceptorStep

\* A connection that is closed takes its bytes along; the worker goes on from
\* where flush() was called.
LEMMA ClosingStrands ==
  ASSUME Inv, SInv, CloseConn, worker \in {"recv", "flush", "readClosed", "writeDone", "reqClose"}
  PROVE  SInv'
  <1> USE DEF Typed, SInv, CallerInv, WakeInv, BytesInv, PastIncoming, PastRequests,
          Pushing, Waking, queueVars
  <1>0. Typed
    BY InvTyped
  <1>1. \/ from \in {"read", "write"} /\ worker' = "incoming" /\ worker # "reqClose"
        \/ from = "incoming" /\ worker' = "takeReqs" /\ worker = "flush"
        \/ from = "request" /\ worker' = "nextReq" /\ worker \in {"flush", "reqClose"}
    <2>1. CASE from \in {"read", "write"}
      BY <2>1 DEF CloseConn, AfterClose
    <2>2. CASE from = "incoming"
      BY <2>2 DEF CloseConn, AfterClose
    <2>3. CASE from = "request"
      BY <2>3 DEF CloseConn, AfterClose
    <2> QED BY <1>0, <2>1, <2>2, <2>3 DEF Callers
  <1>2. ~registered' /\ UNCHANGED <<from, reqs, reqQueue, woken, incoming, acceptor, at, refused>>
    BY DEF CloseConn
  <1>3. CallerInv'
    BY <1>0, <1>1, <1>2
  <1>4. WakeInv'
    BY <1>1, <1>2
  <1>5. BytesInv'
    BY <1>2
  <1> QED BY <1>3, <1>4, <1>5

LEMMA WorkerStrands ==
  ASSUME Inv, SInv, WorkerStep
  PROVE  SInv'
  <1> USE DEF Typed, SInv, CallerInv, WakeInv, BytesInv, PastIncoming, PastRequests,
          Pushing, Waking, AcceptorGo, WorkerGo, StopGo, connVars, chanVars, queueVars, workVars,
          sessionVars, outsideVars
  <1>0. Typed
    BY InvTyped
  <1>1. CASE Wait
    <2>1. reqs = 0 /\ worker' \in {"recv", "flush", "incoming", "shutdown"} /\ from' = "write"
      BY <1>0, <1>1 DEF Wait, AfterWait
    <2> QED BY <1>1, <2>1 DEF Wait
  <1>2. CASE RecvEnd \/ FlushFatal \/ ReadClosedNow \/ WriteDoneClose \/ RequestCloseNow
    <2>1. CloseConn /\ worker \in {"recv", "flush", "readClosed", "writeDone", "reqClose"}
      BY <1>2 DEF RecvEnd, FlushFatal, ReadClosedNow, WriteDoneClose, RequestCloseNow
    <2> QED BY <2>1, ClosingStrands
  <1>3. CASE FlushDone
    <2>1. \/ from = "read" /\ worker' = "readClosed"
          \/ from = "write" /\ worker' = "writeDone"
          \/ from = "incoming" /\ worker' = "takeReqs"
          \/ from = "request" /\ worker' = "reqClose"
      BY <1>0, <1>3 DEF FlushDone, AfterFlush, Callers
    <2>2. worker = "flush" /\ (out = 0 \/ writeArmed')
          /\ UNCHANGED <<registered, chanVars, queueVars, from, reqs, acceptor, at, refused>>
      BY <1>3 DEF FlushDone, BlockedArmed
    <2>3. CallerInv' /\ WakeInv'
      BY <1>0, <2>1, <2>2
    <2>4. BytesInv'
      BY <1>0, <2>1, <2>2
    <2> QED BY <2>3, <2>4
  <1>4. CASE ReadClosed
    BY <1>0, <1>4 DEF ReadClosed
  <1>5. CASE WriteDone
    BY <1>0, <1>5 DEF WriteDone
  <1>6. CASE TakeIncoming
    BY <1>0, <1>6 DEF TakeIncoming
  <1>7. CASE Add
    BY <1>0, <1>7 DEF Add
  <1>8. CASE AddFails
    BY <1>0, <1>8 DEF AddFails
  <1>9. CASE TakeRequests
    BY <1>0, <1>9 DEF TakeRequests
  <1>10. CASE NextRequest
    BY <1>0, <1>10 DEF NextRequest, MoreRequests
  <1>11. CASE NoMoreRequests
    BY <1>0, <1>11 DEF NoMoreRequests
  <1>12. CASE RequestDone
    BY <1>0, <1>12 DEF RequestDone
  <1>13. CASE Shutdown
    BY <1>0, <1>13 DEF Shutdown
  <1>14. ASSUME NEW n \in 0..1, NEW closes \in BOOLEAN, Recv(n, closes) PROVE SInv'
    BY <1>0, <1>14 DEF Recv
  <1>15. ASSUME NEW n \in 1..MaxBytes, SendSome(n) PROVE SInv'
    BY <1>0, <1>15 DEF SendSome
  <1> QED BY <1>1, <1>2, <1>3, <1>4, <1>5, <1>6, <1>7, <1>8, <1>9, <1>10, <1>11, <1>12,
     <1>13, <1>14, <1>15 DEF WorkerStep

LEMMA StopStrands ==
  ASSUME Inv, SInv, StopCalled \/ StopStep \/ PeerWrites \/ PeerReads \/ PeerLeaves \/ OtherTraffic
  PROVE  SInv'
  <1> USE DEF Typed, SInv, CallerInv, WakeInv, BytesInv, PastIncoming, PastRequests,
          Pushing, Waking, AcceptorGo, WorkerGo, StopGo, connVars, chanVars, queueVars, workVars,
          sessionVars, outsideVars
  <1>1. CASE StopCalled
    BY <1>1 DEF StopCalled
  <1>2. CASE WakeWorker
    BY <1>2 DEF WakeWorker, StopWakes
  <1>3. CASE Reap
    BY <1>3 DEF Reap
  <1>4. CASE PeerWrites \/ PeerReads \/ PeerLeaves \/ OtherTraffic
    BY <1>4 DEF PeerWrites, PeerReads, PeerLeaves, OtherTraffic
  <1> QED BY <1>1, <1>2, <1>3, <1>4 DEF StopStep

\* A thread that appended bytes will push a request, and then wake.
LEMMA ThreadStrands ==
  ASSUME Inv, SInv, NEW t \in Threads, SendPacket(t) \/ CloseSession(t) \/ ThreadStep(t)
  PROVE  SInv'
  <1> USE DEF Typed, SInv, CallerInv, WakeInv, BytesInv, PastIncoming, PastRequests,
          Pushing, Waking, AcceptorGo, WorkerGo, StopGo, connVars, chanVars, queueVars, workVars,
          sessionVars, outsideVars
  <1>0. Typed
    BY InvTyped
  <1>1. \A q : at' = [at EXCEPT ![t] = q] => at'[t] = q /\ \A u \in Threads : u # t => at'[u] = at[u]
    BY <1>0
  <1>2. CASE SendPacket(t)
    BY <1>1, <1>2 DEF SendPacket, ThreadGo
  <1>3. CASE CloseSession(t)
    BY <1>1, <1>3 DEF CloseSession, ThreadGo
  <1>4. CASE Post(t)
    <2>1. \/ alive /\ at'[t] = "push" /\ out' = out + 1
          \/ ~alive /\ at'[t] = "idle" /\ out' = out
      BY <1>0, <1>4 DEF Post, ThreadGo
    <2>2. \A u \in Threads : u # t => at'[u] = at[u]
      BY <1>0, <1>4 DEF Post, ThreadGo
    <2>3. at[t] = "send"
          /\ UNCHANGED <<registered, writeArmed, alive, queueVars, workVars, acceptor, refused>>
      BY <1>4 DEF Post, ThreadGo
    <2>4. (Waking => Waking') /\ (Pushing => Pushing')
      BY <2>2, <2>3
    <2>5. CallerInv' /\ WakeInv'
      BY <2>3, <2>4
    <2>6. BytesInv'
      BY <2>1, <2>3, <2>4
    <2> QED BY <2>5, <2>6
  <1>5. CASE RequestClose(t)
    <2>1. /\ at[t] = "ask" /\ \A u \in Threads : u # t => at'[u] = at[u]
          /\ UNCHANGED <<registered, writeArmed, alive, out, queueVars, workVars, acceptor, refused>>
      BY <1>0, <1>5 DEF RequestClose, ThreadGo
    <2>2. (Waking => Waking') /\ (Pushing => Pushing')
      BY <2>1
    <2> QED BY <2>1, <2>2
  <1>6. CASE Push(t)
    <2>1. /\ at[t] = "push" /\ at'[t] = "wake" /\ reqQueue' = reqQueue + 1 /\ reqQueue' > 0
          /\ UNCHANGED <<registered, writeArmed, alive, out, incoming, woken, workVars, acceptor, refused>>
      BY <1>0, <1>1, <1>6 DEF Push, ThreadGo
    <2>2. Waking'
      BY <2>1
    <2> QED BY <2>1, <2>2
  <1>7. CASE Wake(t)
    <2>1. /\ at[t] = "wake" /\ woken' /\ \A u \in Threads : u # t => at'[u] = at[u]
          /\ UNCHANGED <<registered, writeArmed, alive, out, incoming, reqQueue, workVars, acceptor, refused>>
      BY <1>0, <1>1, <1>7 DEF Wake, ThreadGo
    <2>2. Pushing => Pushing'
      BY <2>1
    <2> QED BY <2>1, <2>2
  <1> QED BY <1>2, <1>3, <1>4, <1>5, <1>6, <1>7 DEF ThreadStep

LEMMA StrandedStep == Inv /\ SInv /\ [Next]_vars => SInv'
  <1> SUFFICES ASSUME Inv, SInv, [Next]_vars PROVE SInv'
    OBVIOUS
  <1>1. CASE UNCHANGED vars
    BY <1>1 DEF vars, connVars, chanVars, queueVars, workVars, sessionVars, SInv, CallerInv, WakeInv,
       BytesInv, PastIncoming, PastRequests, Pushing, Waking
  <1>2. CASE Next
    BY <1>2, AcceptorStrands, WorkerStrands, StopStrands, ThreadStrands DEF Next
  <1> QED BY <1>1, <1>2

\* The worker never sleeps on queued bytes, requests or a new connection
\* that nothing will wake it for.
THEOREM WorkIsRemembered == Spec => []WorkRemembered
  <1>1. Inv /\ SInv => WorkRemembered
    <2> SUFFICES ASSUME Inv, SInv, worker = "wait" PROVE WorkRemembered
      BY DEF WorkRemembered
    <2>1. ~(reqs > 0)
      BY DEF SInv, CallerInv
    <2> QED BY <2>1 DEF SInv, WakeInv, BytesInv, PastIncoming, PastRequests, Pushing, Waking, WorkRemembered
  <1> QED BY <1>1, InitInv, NextKeepsInv, InitStranded, StrandedStep, PTL DEF Spec
-----------------------------------------------------------------------------
(* A close is not forgotten, whatever sessions do in onConnect().          *)

\* Only a session that has closed asks for it, and only who knows the session
\* does so after onConnect().
AskedInv ==
  /\ closeRequested \/ (\E t \in Threads : at[t] = "ask") => shut
  /\ wantClose => closeRequested
  /\ ~known => \A t \in Threads : at[t] = "idle"
  /\ acceptor = "accept" => conn = "none"

\* Until it is registered, a connection has no part in what its clients and
\* its threads do: a close can only come from onConnect(), which queues no
\* bytes then.
EarlyInv == conn # "freed" =>
  /\ conn = "live" => alive
  /\ acceptor \in {"accept", "connect", "closePush", "closeWake", "greet", "handoff"} =>
       ~registered /\ ~incoming /\ worker # "add"
  /\ acceptor \in {"accept", "connect"} => out = 0
  /\ acceptor \in {"accept", "connect", "greet"} => ~closeRequested
  /\ incoming => ~registered /\ worker # "add"
  /\ worker = "add" => ~registered
  /\ worker \in {"recv", "readClosed", "writeDone"} => registered
  /\ worker = "flush" => registered \/ from = "request"
  /\ ~registered => ~known /\ ~drainClose /\ (closeRequested => out = 0)
  /\ worker = "flush" /\ from = "incoming" => ~drainClose

\* Where the close is: in a request somebody is making, in the queue, in the
\* worker's hands, or in closeAfterDrain, with bytes to wait for or with the
\* worker on its way to look at it.
AtRequest == worker = "reqClose" \/ (worker = "flush" /\ from = "request")
Closing   == worker \in {"writeDone", "readClosed", "reqClose"}
             \/ (worker = "flush" /\ from # "incoming")

Remembered == conn = "live" /\ closeRequested =>
  \/ reqQueue > 0 \/ acceptor = "closePush" \/ Pushing \/ reqs > 0
  \/ AtRequest /\ wantClose
  \/ drainClose /\ (out > 0 \/ Closing)

MInv == AskedInv /\ EarlyInv /\ Remembered

LEMMA InitMemory == Init => MInv
  BY DEF Init, MInv, AskedInv, EarlyInv, Remembered

LEMMA AcceptorMemory ==
  ASSUME Inv, SInv, MInv, Accept \/ AcceptorStep
  PROVE  MInv'
  <1> USE DEF Typed, MInv, AskedInv, EarlyInv, Remembered, AtRequest, Closing, Pushing, AcceptorGo,
          connVars, chanVars, queueVars, workVars, sessionVars, outsideVars
  <1>0. Typed
    BY InvTyped
  <1>1. CASE Accept
    <2>1. conn = "none" /\ acceptor = "accept" /\ acceptor' = "connect" /\ conn' = "live" /\ alive'
          /\ ~incoming'
      BY <1>1 DEF Accept, HandedOffYet
    <2> QED BY <1>0, <1>1, <2>1 DEF Accept
  <1>2. CASE Greet
    BY <1>0, <1>2 DEF Greet
  <1>3. CASE CloseInConnect
    BY <1>0, <1>3 DEF CloseInConnect
  <1>4. CASE ConnectPush
    BY <1>0, <1>4 DEF ConnectPush
  <1>5. CASE ConnectWake
    BY <1>0, <1>5 DEF ConnectWake
  <1>6. CASE AppendGreeting
    BY <1>0, <1>6 DEF AppendGreeting
  <1>7. CASE Handoff
    BY <1>0, <1>7 DEF Handoff
  <1>8. CASE HandoffWake
    BY <1>0, <1>8 DEF HandoffWake
  <1>9. CASE AcceptorExit
    BY <1>0, <1>9 DEF AcceptorExit
  <1> QED BY <1>1, <1>2, <1>3, <1>4, <1>5, <1>6, <1>7, <1>8, <1>9 DEF AcceptorStep

\* Before the accept the worker has nothing in its hands.
LEMMA NothingYet ==
  ASSUME Inv, SInv, acceptor = "accept"
  PROVE  worker \notin Handles \cup {"add"}
  BY DEF Inv, Asked, LInv, BeforeInv, HandlesInv, SInv, BytesInv, Before

LEMMA ClosingMemory ==
  ASSUME Inv, SInv, MInv, CloseConn, worker \in Handles
  PROVE  MInv'
  <1>1. conn' = "freed" /\ acceptor # "accept"
        /\ UNCHANGED <<closeRequested, shut, wantClose, known, at, acceptor>>
    BY NothingYet DEF CloseConn
  <1> QED BY <1>1 DEF MInv, AskedInv, EarlyInv, Remembered

LEMMA WorkerMemory ==
  ASSUME Inv, SInv, MInv, WorkerStep
  PROVE  MInv'
  <1> USE DEF Typed, MInv, AskedInv, EarlyInv, Remembered, AtRequest, Closing, Pushing, CallerInv,
          WorkerGo, connVars, chanVars, queueVars, workVars, sessionVars, outsideVars
  <1>0. Typed /\ CallerInv
    BY InvTyped DEF SInv
  <1>1. CASE Wait
    <2>1. /\ reqs = 0 /\ worker' \in {"recv", "flush", "incoming", "shutdown"} /\ from' = "write"
          /\ worker = "wait" /\ (worker' \in {"recv", "flush"} => registered)
      BY <1>0, <1>1 DEF Wait, AfterWait, Readable, Writable
    <2> QED BY <1>0, <1>1, <2>1 DEF Wait
  <1>2. CASE RecvEnd \/ FlushFatal \/ ReadClosedNow \/ WriteDoneClose \/ RequestCloseNow
    <2>1. CloseConn /\ worker \in Handles
      BY <1>2 DEF RecvEnd, FlushFatal, ReadClosedNow, WriteDoneClose, RequestCloseNow, Handles
    <2> HIDE DEF MInv
    <2> QED BY <2>1, ClosingMemory
  <1>3. CASE FlushDone
    <2>1. \/ from = "read" /\ worker' = "readClosed"
          \/ from = "write" /\ worker' = "writeDone"
          \/ from = "incoming" /\ worker' = "takeReqs"
          \/ from = "request" /\ worker' = "reqClose"
      BY <1>0, <1>3 DEF FlushDone, AfterFlush, Callers
    <2>2. worker = "flush"
          /\ UNCHANGED <<conn, registered, drainClose, chanVars, queueVars, from, reqs, wantClose,
                         sessionVars, acceptor, at>>
      BY <1>3 DEF FlushDone
    <2> QED BY <1>0, <2>1, <2>2
  <1>4. CASE ReadClosed
    <2>1. worker = "readClosed" /\ (shut => out > 0)
      BY <1>0, <1>4 DEF ReadClosed
    <2> QED BY <1>0, <1>4, <2>1 DEF ReadClosed
  <1>5. CASE WriteDone
    BY <1>0, <1>5 DEF WriteDone, DrainedAndAsked
  <1>6. CASE TakeIncoming
    BY <1>0, <1>6 DEF TakeIncoming
  <1>7. CASE Add
    BY <1>0, <1>7 DEF Add
  <1>8. CASE AddFails
    <2>1. acceptor # "accept"
      BY <1>8, NothingYet DEF AddFails
    <2> QED BY <1>0, <1>8, <2>1 DEF AddFails
  <1>9. CASE TakeRequests
    BY <1>0, <1>9 DEF TakeRequests
  <1>10. CASE NextRequest
    BY <1>0, <1>10 DEF NextRequest, MoreRequests
  <1>11. CASE NoMoreRequests
    BY <1>0, <1>11 DEF NoMoreRequests
  <1>12. CASE RequestDone
    <2>1. /\ worker = "reqClose" /\ worker' = "nextReq" /\ (drainClose \/ wantClose => out > 0)
          /\ drainClose' = (drainClose \/ wantClose)
          /\ UNCHANGED <<conn, registered, chanVars, queueVars, from, reqs, wantClose,
                         sessionVars, acceptor, at>>
      BY <1>0, <1>12 DEF RequestDone, ClosesHere
    <2>2. AskedInv'
      BY <2>1
    <2>3. ASSUME conn # "freed", ~registered
          PROVE  ~drainClose'
      <3>1. ~drainClose /\ (closeRequested => out = 0)
        BY <2>3
      <3>2. ~wantClose
        BY <2>1, <3>1
      <3> QED BY <2>1, <3>1, <3>2
    <2>4. EarlyInv'
      BY <2>1, <2>3
    <2>5. Remembered'
      BY <2>1
    <2> QED BY <2>2, <2>4, <2>5
  <1>13. CASE Shutdown
    BY <1>0, <1>13 DEF Shutdown
  <1>14. ASSUME NEW n \in 0..1, NEW closes \in BOOLEAN, Recv(n, closes) PROVE MInv'
    BY <1>0, <1>14 DEF Recv
  <1>15. ASSUME NEW n \in 1..MaxBytes, SendSome(n) PROVE MInv'
    BY <1>0, <1>15 DEF SendSome
  <1> QED BY <1>1, <1>2, <1>3, <1>4, <1>5, <1>6, <1>7, <1>8, <1>9, <1>10, <1>11, <1>12,
     <1>13, <1>14, <1>15 DEF WorkerStep

LEMMA StopMemory ==
  ASSUME Inv, SInv, MInv,
         StopCalled \/ StopStep \/ PeerWrites \/ PeerReads \/ PeerLeaves \/ OtherTraffic
  PROVE  MInv'
  <1> USE DEF MInv, AskedInv, EarlyInv, Remembered, AtRequest, Closing, Pushing, StopGo,
          connVars, chanVars, queueVars, workVars, sessionVars, outsideVars
  <1>1. CASE StopCalled
    BY <1>1 DEF StopCalled
  <1>2. CASE WakeWorker
    BY <1>2 DEF WakeWorker
  <1>3. CASE Reap
    BY <1>3 DEF Reap, ReapsIncoming
  <1>4. CASE PeerWrites \/ PeerReads \/ PeerLeaves \/ OtherTraffic
    BY <1>4 DEF PeerWrites, PeerReads, PeerLeaves, OtherTraffic
  <1> QED BY <1>1, <1>2, <1>3, <1>4 DEF StopStep

LEMMA ThreadMemory ==
  ASSUME Inv, SInv, MInv, NEW t \in Threads, SendPacket(t) \/ CloseSession(t) \/ ThreadStep(t)
  PROVE  MInv'
  <1> USE DEF MInv, AskedInv, EarlyInv, Remembered, AtRequest, Closing, Pushing,
          connVars, chanVars, queueVars, workVars, sessionVars, outsideVars
  <1>0. Typed
    BY InvTyped
  <1>1. /\ \A u \in Threads \ {t} : at'[u] = at[u]
        /\ known \/ at[t] # "idle" => known
        /\ UNCHANGED <<known, acceptor>>
    BY <1>0 DEF SendPacket, CloseSession, ThreadStep, Post, RequestClose, Push, Wake, ThreadGo,
                Typed
  <1>2. known
    BY <1>1 DEF SendPacket, CloseSession, ThreadStep, Post, RequestClose, Push, Wake, ThreadGo
  <1>3. CASE SendPacket(t)
    BY <1>0, <1>1, <1>2, <1>3 DEF SendPacket, ThreadGo, Typed
  <1>4. CASE CloseSession(t)
    BY <1>0, <1>1, <1>2, <1>4 DEF CloseSession, ThreadGo, Typed
  <1>5. CASE Post(t)
    BY <1>0, <1>1, <1>2, <1>5 DEF Post, ThreadGo, Typed
  <1>6. CASE RequestClose(t)
    <2>1. /\ at[t] = "ask" /\ at'[t] = (IF alive THEN "push" ELSE "idle")
          /\ closeRequested' = (closeRequested \/ alive)
          /\ UNCHANGED <<connVars, alive, out, queueVars, workVars, sessionVars, acceptor>>
      BY <1>0, <1>6 DEF RequestClose, ThreadGo, Typed
    <2>2. Remembered'
      BY <1>1, <2>1
    <2>3. EarlyInv'
      BY <1>2, <2>1
    <2>4. AskedInv'
      <3>1. shut' /\ known'
        BY <1>2, <2>1
      <3> QED BY <1>1, <1>2, <2>1, <3>1
    <2> QED BY <2>2, <2>3, <2>4
  <1>7. CASE Push(t)
    BY <1>0, <1>1, <1>2, <1>7 DEF Push, ThreadGo, Typed
  <1>8. CASE Wake(t)
    BY <1>0, <1>1, <1>2, <1>8 DEF Wake, ThreadGo, Typed
  <1> QED BY <1>3, <1>4, <1>5, <1>6, <1>7, <1>8 DEF ThreadStep

LEMMA MemoryStep == Inv /\ SInv /\ MInv /\ [Next]_vars => MInv'
  <1> SUFFICES ASSUME Inv, SInv, MInv, [Next]_vars PROVE MInv'
    OBVIOUS
  <1>1. CASE UNCHANGED vars
    BY <1>1 DEF vars, connVars, chanVars, queueVars, workVars, sessionVars, MInv, AskedInv,
       EarlyInv, Remembered, AtRequest, Closing, Pushing
  <1>2. CASE Next
    BY <1>2, AcceptorMemory, WorkerMemory, StopMemory, ThreadMemory DEF Next
  <1> QED BY <1>1, <1>2

\* The worker never sleeps on a close it was asked for, unless a backlog is
\* on its way out, which wakes it.  CloseHonoured rests on it.
THEOREM ClosesAreRemembered == Spec => []CloseRemembered
  <1>1. Inv /\ SInv /\ MInv => CloseRemembered
    <2> SUFFICES ASSUME Inv, SInv, MInv, worker = "wait", conn = "live", closeRequested
                 PROVE  CloseRemembered
      BY DEF CloseRemembered
    <2>1. ~(reqs > 0) /\ ~AtRequest /\ ~Closing
      BY DEF SInv, CallerInv, AtRequest, Closing
    <2> QED BY <2>1 DEF MInv, Remembered, Pushing, CloseRemembered
  <1> QED BY <1>1, InitInv, NextKeepsInv, InitStranded, StrandedStep, InitMemory, MemoryStep,
             PTL DEF Spec

\* Neither a write, a request nor a close is slept over.
THEOREM NothingIsStranded == Spec => []NothingStranded
  BY WorkIsRemembered, ClosesAreRemembered, PTL DEF NothingStranded
=============================================================================
