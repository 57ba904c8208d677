---------------------------- MODULE SessionProofs ----------------------------
(***************************************************************************)
(* Proofs about the two halves of a world session, for any number of       *)
(* connections, accounts, sessions and sockets: SecondStream, how it gets  *)
(* its second stream, and SessionLifecycle, how it is listed, queued,      *)
(* seated and deleted.                                                     *)
(***************************************************************************)
EXTENDS SessionLifecycle, SecondStream, FiniteSetTheorems, SequenceTheorems, TLAPS

-----------------------------------------------------------------------------
(***************************************************************************)
(* SecondStream.  The inductive invariant says who may still become the    *)
(* stream of a session: a ticket of it in the registry or one socket that  *)
(* has claimed it, never both, and neither while a new generation is       *)
(* announced and has no redirect yet.                                      *)
(***************************************************************************)

\* The address has one ticket at most, of a session that exists.
TicketInv ==
  /\ \A t, u \in registry : t = u
  /\ \A t \in registry : pc[t.session] # "gone"

\* A session on its way to a redirect has an attempt left.
BudgetInv == \A s \in Sessions :
  pc[s] \in {"expect", "withdraw", "open", "build"} => attempts[s] < MaxAttempts

\* A socket of which more than the connection is known has claimed a ticket.
BoundInv == \A c \in Sockets :
  at[c] \in {"staging", "live"} \/ current[c] => bound[c] \in Sessions

\* What may still become the stream of s.
SocketFree(s) == \A c \in Sockets : ~(bound[c] = s /\ current[c])
TicketFree(s) == \A t \in registry : ~(t.session = s /\ t.current)

\* Between the new generation and its redirect nothing is current.
CandidateInv == \A s \in Sessions :
  /\ pc[s] \in {"withdraw", "open"} => SocketFree(s) /\ TicketFree(s)
  /\ SocketFree(s) \/ TicketFree(s)
  /\ \A c, d \in Sockets :
       bound[c] = s /\ bound[d] = s /\ current[c] /\ current[d] => c = d

\* A socket that took the slot is past its claim, which was for its opener.
SlotInv == \A s \in Sessions : one[s] # Nobody =>
  /\ at[one[s]] # "new"
  /\ bound[one[s]] = s /\ opener[one[s]] = s

StreamInv == StreamTypeOK /\ TicketInv /\ BudgetInv /\ BoundInv /\ CandidateInv /\ SlotInv

LEMMA InitStreamInv == StreamInit => StreamInv
  <1> SUFFICES ASSUME StreamInit PROVE StreamInv
    OBVIOUS
  <1> USE StreamAssumption DEF StreamInit
  <1>1. StreamTypeOK
    BY DEF StreamTypeOK, Ticket
  <1>2. TicketInv /\ BudgetInv /\ BoundInv /\ SlotInv
    BY DEF TicketInv, BudgetInv, BoundInv, SlotInv
  <1>3. CandidateInv
    BY DEF CandidateInv, SocketFree, TicketFree
  <1> QED BY <1>1, <1>2, <1>3 DEF StreamInv

\* A redirect that Expect voided is a ticket still, of the same session.
LEMMA Voided ==
  ASSUME registry \subseteq Ticket, NEW s \in Sessions
  PROVE  /\ TicketsVoid(s) \subseteq Ticket
         /\ \A u \in TicketsVoid(s) : /\ \E t \in registry : u.session = t.session
                                                             /\ (u.current => t.current)
                                      /\ u.session = s => ~u.current
         /\ (\A t, u \in registry : t = u) => \A t, u \in TicketsVoid(s) : t = u
  <1> DEFINE V(t) == [t EXCEPT !.current = @ /\ t.session # s]
  <1>1. ASSUME NEW t \in registry
        PROVE  /\ V(t) \in Ticket /\ V(t).session = t.session
               /\ V(t).current = (t.current /\ t.session # s)
    <2>1. /\ t.session \in Sessions /\ t.current \in BOOLEAN
          /\ t = [session |-> t.session, current |-> t.current]
      BY DEF Ticket
    <2>2. V(t) = [session |-> t.session, current |-> (t.current /\ t.session # s)]
      BY <2>1
    <2>3. (t.current /\ t.session # s) \in BOOLEAN
      OBVIOUS
    <2> QED BY <2>1, <2>2, <2>3 DEF Ticket
  <1>2. TicketsVoid(s) = {V(t) : t \in registry}
    BY DEF TicketsVoid
  <1> HIDE DEF V
  <1> QED BY <1>1, <1>2

LEMMA NewTicket ==
  ASSUME NEW s \in Sessions
  PROVE  LET t == [session |-> s, current |-> TRUE]
         IN t \in Ticket /\ t.session = s
  BY DEF Ticket

-----------------------------------------------------------------------------
LEMMA StreamTypeStep ==
  ASSUME StreamTypeOK, BudgetInv, BoundInv, StreamNext
  PROVE  StreamTypeOK'
  <1> USE StreamAssumption DEF StreamTypeOK, socket, login, stream
  <1>1. ASSUME NEW s \in Sessions, SendLogin(s) \/ ConnectToFailed(s) \/ LoseZero(s)
        PROVE  StreamTypeOK'
    <2>1. CASE SendLogin(s)
      BY <2>1 DEF SendLogin
    <2>2. CASE ConnectToFailed(s)
      BY <2>2 DEF ConnectToFailed
    <2>3. CASE LoseZero(s)
      BY <2>3 DEF LoseZero
    <2> QED BY <1>1, <2>1, <2>2, <2>3
  <1>2. ASSUME NEW s \in Sessions, DeferLogin(s) \/ RunLogin(s) \/ Loaded(s) \/ LogoutPlayer(s)
        PROVE  StreamTypeOK'
    <2>1. CASE DeferLogin(s)
      BY <2>1 DEF DeferLogin, BeginSecondStream
    <2>2. CASE RunLogin(s)
      BY <2>2 DEF RunLogin
    <2>3. CASE Loaded(s)
      BY <2>3 DEF Loaded
    <2>4. CASE LogoutPlayer(s)
      BY <2>4 DEF LogoutPlayer
    <2> QED BY <1>2, <2>1, <2>2, <2>3, <2>4
  <1>3. ASSUME NEW s \in Sessions, NotLoaded(s) \/ GiveUp(s)
        PROVE  StreamTypeOK'
    <2>1. CASE NotLoaded(s)
      BY <2>1 DEF NotLoaded, Kick
    <2>2. CASE GiveUp(s)
      BY <2>2 DEF GiveUp, Kick
    <2> QED BY <1>3, <2>1, <2>2
  <1>4. ASSUME NEW s \in Sessions, Recovered(s) \/ StartRecovery(s) \/ TryAgain(s) \/ SeeStream(s)
        PROVE  StreamTypeOK'
    <2>1. CASE Recovered(s)
      BY <2>1 DEF Recovered
    <2>2. CASE StartRecovery(s)
      BY <2>2 DEF StartRecovery
    <2>3. CASE TryAgain(s)
      BY <2>3 DEF TryAgain
    <2>4. CASE SeeStream(s)
      BY <2>4 DEF SeeStream
    <2> QED BY <1>4, <2>1, <2>2, <2>3, <2>4
  <1>5. ASSUME NEW s \in Sessions, Expect(s)
        PROVE  StreamTypeOK'
    <2>1. registry' \subseteq Ticket
      BY <1>5, Voided DEF Expect
    <2>2. current' \in [Sockets -> BOOLEAN]
      BY <1>5 DEF Expect, SocketsVoid
    <2> QED BY <1>5, <2>1, <2>2 DEF Expect
  <1>6. ASSUME NEW s \in Sessions, Withdraw(s) \/ Relog(s) \/ EndSession(s) \/ TimePasses(s)
        PROVE  StreamTypeOK'
    <2>1. CASE Withdraw(s)
      BY <2>1 DEF Withdraw, Withdrawn
    <2>2. CASE Relog(s)
      BY <2>2 DEF Relog, WantedNow, Withdrawn
    <2>3. CASE EndSession(s)
      BY <2>3 DEF EndSession, AfterSession, Withdrawn
    <2>4. CASE TimePasses(s)
      BY <2>4 DEF TimePasses
    <2> QED BY <1>6, <2>1, <2>2, <2>3, <2>4
  <1>7. ASSUME NEW s \in Sessions, Open(s)
        PROVE  StreamTypeOK'
    <2>1. registry' \subseteq Ticket
      BY <1>7, NewTicket DEF Open
    <2>2. pc' \in [Sessions -> {"idle", "relog", "expect", "withdraw", "open", "build", "gone"}]
      BY <1>7 DEF Open
    <2> QED BY <1>7, <2>1, <2>2 DEF Open
  <1>8. ASSUME NEW s \in Sessions, Send(s) \/ CannotSign(s)
        PROVE  StreamTypeOK'
    <2>1. attempts[s] + 1 \in 0..MaxAttempts
      BY <1>8 DEF Send, CannotSign, BudgetInv
    <2> QED BY <1>8, <2>1 DEF Send, CannotSign, AfterFailure, Withdrawn
  <1>9. ASSUME NEW c \in Sockets, NEW s \in Sessions, Claim(c, s) \/ NoTicket(c, s)
        PROVE  StreamTypeOK'
    <2>1. CASE Claim(c, s)
      BY <2>1 DEF Claim, AfterClaim, Ticket
    <2>2. CASE NoTicket(c, s)
      BY <2>2 DEF NoTicket
    <2> QED BY <1>9, <2>1, <2>2
  <1>10. ASSUME NEW c \in Sockets, Promote(c) \/ Refuse(c) \/ Die(c) \/ Detach(c)
         PROVE  StreamTypeOK'
    BY <1>10 DEF Promote, Refuse, Die, Detach, BoundInv
  <1>11. ASSUME NEW t \in registry, Lapse(t)
         PROVE  StreamTypeOK'
    BY <1>11 DEF Lapse
  <1> QED BY <1>1, <1>2, <1>3, <1>4, <1>5, <1>6, <1>7, <1>8, <1>9, <1>10, <1>11
          DEF StreamNext, UpdateStep, AnswerSocket

LEMMA TicketStep ==
  ASSUME StreamTypeOK, TicketInv, StreamNext
  PROVE  TicketInv'
  <1> USE DEF StreamTypeOK, TicketInv
  <1>1. ASSUME NEW s \in Sessions, Expect(s)
        PROVE  TicketInv'
    <2>1. \A t \in registry' : pc[t.session] # "gone"
      BY <1>1, Voided DEF Expect
    <2>2. \A r \in Sessions : pc'[r] = "gone" => pc[r] = "gone"
      BY <1>1 DEF Expect
    <2> QED BY <1>1, <2>1, <2>2, Voided DEF Expect, Ticket
  <1>2. ASSUME NEW s \in Sessions, Open(s)
        PROVE  TicketInv'
    <2>1. \A r \in Sessions : pc'[r] = "gone" => pc[r] = "gone"
      BY <1>2 DEF Open
    <2>2. CASE AddressFree
      <3>1. registry' = {[session |-> s, current |-> TRUE]} /\ pc'[s] = "build"
        BY <1>2, <2>2 DEF Open, AddressFree
      <3> QED BY <3>1
    <2>3. CASE ~AddressFree
      BY <1>2, <2>1, <2>3 DEF Open, Ticket
    <2> QED BY <2>2, <2>3
  <1>3. ASSUME NEW s \in Sessions, Withdraw(s) \/ CannotSign(s) \/ Relog(s) \/ EndSession(s)
        PROVE  TicketInv'
    BY <1>3 DEF Withdraw, CannotSign, Relog, EndSession, AfterSession, Withdrawn, Ticket
  <1>4. ASSUME NEW s \in Sessions, StartRecovery(s) \/ TryAgain(s) \/ Send(s) \/ SeeStream(s)
        PROVE  TicketInv'
    BY <1>4 DEF StartRecovery, TryAgain, Send, SeeStream, Ticket
  <1>5. ASSUME NEW c \in Sockets, NEW s \in Sessions, Claim(c, s)
        PROVE  TicketInv'
    BY <1>5 DEF Claim, AfterClaim
  <1>6. ASSUME NEW t \in registry, Lapse(t)
        PROVE  TicketInv'
    BY <1>6 DEF Lapse
  <1>7. ASSUME UNCHANGED <<registry, pc>>
        PROVE  TicketInv'
    BY <1>7
  <1>8. ASSUME NEW s \in Sessions,
               \/ SendLogin(s) \/ ConnectToFailed(s) \/ LoseZero(s) \/ DeferLogin(s)
               \/ RunLogin(s) \/ Loaded(s) \/ NotLoaded(s) \/ LogoutPlayer(s) \/ Recovered(s)
               \/ GiveUp(s) \/ TimePasses(s)
        PROVE  UNCHANGED <<registry, pc>>
    BY <1>8 DEF SendLogin, ConnectToFailed, LoseZero, DeferLogin, RunLogin, Loaded, NotLoaded,
                LogoutPlayer, Recovered, GiveUp, TimePasses
  <1>9. ASSUME NEW c \in Sockets,
               \/ Promote(c) \/ Refuse(c) \/ Die(c) \/ Detach(c)
               \/ \E s \in Sessions : NoTicket(c, s)
        PROVE  UNCHANGED <<registry, pc>>
    BY <1>9 DEF Promote, Refuse, Die, Detach, NoTicket
  <1> QED BY <1>1, <1>2, <1>3, <1>4, <1>5, <1>6, <1>7, <1>8, <1>9 DEF StreamNext, UpdateStep, AnswerSocket

LEMMA BudgetStep ==
  ASSUME StreamTypeOK, BudgetInv, StreamNext
  PROVE  BudgetInv'
  <1> USE StreamAssumption DEF StreamTypeOK, BudgetInv
  <1>1. ASSUME NEW s \in Sessions, StartRecovery(s) \/ TryAgain(s) \/ DeferLogin(s)
        PROVE  BudgetInv'
    <2>1. CASE StartRecovery(s)
      BY <2>1 DEF StartRecovery
    <2>2. CASE TryAgain(s)
      BY <2>2 DEF TryAgain, Waited, BudgetLeft, stream, login
    <2>3. CASE DeferLogin(s)
      BY <2>3 DEF DeferLogin, BeginSecondStream
    <2> QED BY <1>1, <2>1, <2>2, <2>3
  <1>2. ASSUME NEW s \in Sessions,
               \/ Expect(s) \/ Withdraw(s) \/ Open(s) \/ Send(s) \/ CannotSign(s)
               \/ SeeStream(s) \/ Relog(s) \/ EndSession(s)
        PROVE  BudgetInv'
    BY <1>2 DEF Expect, Withdraw, Open, Send, CannotSign, SeeStream, Relog, EndSession, login, stream
  <1>3. ASSUME UNCHANGED <<pc, attempts>>
        PROVE  BudgetInv'
    BY <1>3
  <1>4. ASSUME NEW s \in Sessions,
               \/ SendLogin(s) \/ ConnectToFailed(s) \/ LoseZero(s) \/ RunLogin(s) \/ Loaded(s)
               \/ NotLoaded(s) \/ LogoutPlayer(s) \/ Recovered(s) \/ GiveUp(s) \/ TimePasses(s)
        PROVE  UNCHANGED <<pc, attempts>>
    BY <1>4 DEF SendLogin, ConnectToFailed, LoseZero, RunLogin, Loaded, NotLoaded, LogoutPlayer,
                Recovered, GiveUp, TimePasses, stream
  <1>5. ASSUME NEW c \in Sockets,
               \/ Promote(c) \/ Refuse(c) \/ Die(c) \/ Detach(c)
               \/ \E s \in Sessions : Claim(c, s) \/ NoTicket(c, s)
        PROVE  UNCHANGED <<pc, attempts>>
    BY <1>5 DEF Promote, Refuse, Die, Detach, Claim, NoTicket, stream
  <1>6. ASSUME NEW t \in registry, Lapse(t)
        PROVE  UNCHANGED <<pc, attempts>>
    BY <1>6 DEF Lapse, stream
  <1> QED BY <1>1, <1>2, <1>3, <1>4, <1>5, <1>6 DEF StreamNext, UpdateStep, AnswerSocket

\* The steps that touch no socket and no slot, seen from the sockets.
LEMMA SocketsKept ==
  ASSUME NEW s \in Sessions, UpdateStep(s) \/ Loaded(s) \/ NotLoaded(s) \/ LogoutPlayer(s) \/ TimePasses(s)
                             \/ SendLogin(s) \/ ConnectToFailed(s) \/ LoseZero(s),
         ~Expect(s)
  PROVE  /\ UNCHANGED <<bound, opener, current>>
         /\ UNCHANGED at \/ at' = [at EXCEPT ![one[s]] = "dying"]
         /\ UNCHANGED one \/ one' = [one EXCEPT ![s] = Nobody]
  BY DEF UpdateStep, DeferLogin, RunLogin, Recovered, StartRecovery, TryAgain, GiveUp, Withdraw,
         Open, Send, CannotSign, SeeStream, Relog, EndSession, Loaded, NotLoaded, LogoutPlayer,
         TimePasses, SendLogin, ConnectToFailed, LoseZero, Kick, socket

LEMMA BoundStep ==
  ASSUME StreamTypeOK, BoundInv, StreamNext
  PROVE  BoundInv'
  <1> USE DEF StreamTypeOK, BoundInv
  <1>1. ASSUME NEW s \in Sessions, UpdateStep(s) \/ Loaded(s) \/ NotLoaded(s) \/ LogoutPlayer(s)
                                   \/ TimePasses(s) \/ SendLogin(s) \/ ConnectToFailed(s)
                                   \/ LoseZero(s), ~Expect(s)
        PROVE  BoundInv'
    BY <1>1, SocketsKept
  <1>2. ASSUME NEW s \in Sessions, Expect(s)
        PROVE  BoundInv'
    BY <1>2 DEF Expect, SocketsVoid
  <1>3. ASSUME NEW c \in Sockets, NEW s \in Sessions, Claim(c, s) \/ NoTicket(c, s)
        PROVE  BoundInv'
    BY <1>3 DEF Claim, NoTicket, Ticket
  <1>4. ASSUME NEW c \in Sockets, Promote(c) \/ Refuse(c) \/ Die(c) \/ Detach(c)
        PROVE  BoundInv'
    BY <1>4 DEF Promote, Refuse, Die, Detach
  <1>5. ASSUME NEW t \in registry, Lapse(t)
        PROVE  BoundInv'
    BY <1>5 DEF Lapse, socket
  <1> QED BY <1>1, <1>2, <1>3, <1>4, <1>5 DEF StreamNext, AnswerSocket

LEMMA SlotStep ==
  ASSUME StreamTypeOK, BoundInv, SlotInv, StreamNext
  PROVE  SlotInv'
  <1> USE DEF StreamTypeOK, SlotInv
  <1>1. ASSUME NEW s \in Sessions, UpdateStep(s) \/ Loaded(s) \/ NotLoaded(s) \/ LogoutPlayer(s)
                                   \/ TimePasses(s) \/ SendLogin(s) \/ ConnectToFailed(s)
                                   \/ LoseZero(s), ~Expect(s)
        PROVE  SlotInv'
    BY <1>1, SocketsKept
  <1>2. ASSUME NEW s \in Sessions, Expect(s)
        PROVE  SlotInv'
    BY <1>2 DEF Expect
  <1>3. ASSUME NEW c \in Sockets, NEW s \in Sessions, Claim(c, s) \/ NoTicket(c, s)
        PROVE  SlotInv'
    BY <1>3 DEF Claim, NoTicket
  <1>4. ASSUME NEW c \in Sockets, Promote(c)
        PROVE  SlotInv'
    BY <1>4 DEF Promote, Continued, Proven, BoundInv
  <1>5. ASSUME NEW c \in Sockets, Refuse(c) \/ Die(c) \/ Detach(c)
        PROVE  SlotInv'
    BY <1>5 DEF Refuse, Die, Detach
  <1>6. ASSUME NEW t \in registry, Lapse(t)
        PROVE  SlotInv'
    BY <1>6 DEF Lapse, socket
  <1> QED BY <1>1, <1>2, <1>3, <1>4, <1>5, <1>6 DEF StreamNext, AnswerSocket

\* A claim turns a current ticket into a current socket; only Open makes a
\* current ticket, when its session has neither.
LEMMA CandidateStep ==
  ASSUME StreamTypeOK, TicketInv, BoundInv, CandidateInv, StreamNext
  PROVE  CandidateInv'
  <1> USE DEF StreamTypeOK, CandidateInv, SocketFree, TicketFree
  <1>1. ASSUME NEW s \in Sessions, Expect(s)
        PROVE  CandidateInv'
    <2>1. /\ \A c \in Sockets : current'[c] <=> current[c] /\ bound[c] # s
          /\ UNCHANGED bound
      BY <1>1 DEF Expect, SocketsVoid
    <2>2. \A r \in Sessions : SocketFree(r) => SocketFree(r)'
      BY <2>1
    <2>3. \A r \in Sessions : TicketFree(r) => TicketFree(r)'
      BY <1>1, Voided DEF Expect
    <2>4. SocketFree(s)' /\ TicketFree(s)'
      BY <1>1, <2>1, Voided DEF Expect
    <2>5. \A r \in Sessions : r # s => pc'[r] = pc[r]
      BY <1>1 DEF Expect
    <2> QED BY <2>1, <2>2, <2>3, <2>4, <2>5
  <1>2. ASSUME NEW s \in Sessions, Open(s)
        PROVE  CandidateInv'
    <2>1. UNCHANGED <<bound, current>>
      BY <1>2 DEF Open, socket
    <2>2. \A t \in registry' : t \in registry \/ t = [session |-> s, current |-> TRUE]
      BY <1>2 DEF Open
    <2>3. SocketFree(s) /\ \A r \in Sessions : r # s => pc'[r] = pc[r] /\ (TicketFree(r) => TicketFree(r)')
      BY <1>2, <2>2 DEF Open
    <2>4. pc'[s] \in {"build", "idle"}
      BY <1>2 DEF Open
    <2> QED BY <2>1, <2>3, <2>4
  <1>3. ASSUME NEW s \in Sessions,
               \/ Withdraw(s) \/ CannotSign(s) \/ Relog(s) \/ EndSession(s)
               \/ StartRecovery(s) \/ TryAgain(s) \/ Send(s) \/ SeeStream(s)
        PROVE  CandidateInv'
    BY <1>3 DEF Withdraw, CannotSign, Relog, EndSession, AfterSession, Withdrawn, StartRecovery,
                TryAgain, Send, SeeStream, socket
  <1>4. ASSUME NEW c \in Sockets, NEW s \in Sessions, Claim(c, s)
        PROVE  CandidateInv'
    BY <1>4 DEF Claim, AfterClaim, TicketInv, Ticket
  <1>5. ASSUME NEW t \in registry, Lapse(t)
        PROVE  CandidateInv'
    BY <1>5 DEF Lapse, socket
  <1>6. ASSUME UNCHANGED <<registry, bound, current, pc>>
        PROVE  CandidateInv'
    BY <1>6
  <1>7. ASSUME NEW s \in Sessions,
               \/ SendLogin(s) \/ ConnectToFailed(s) \/ LoseZero(s) \/ DeferLogin(s)
               \/ RunLogin(s) \/ Loaded(s) \/ NotLoaded(s) \/ LogoutPlayer(s) \/ Recovered(s)
               \/ GiveUp(s) \/ TimePasses(s)
        PROVE  UNCHANGED <<registry, bound, current, pc>>
    BY <1>7 DEF SendLogin, ConnectToFailed, LoseZero, DeferLogin, RunLogin, Loaded, NotLoaded,
                LogoutPlayer, Recovered, GiveUp, TimePasses, socket
  <1>8. ASSUME NEW c \in Sockets,
               \/ Promote(c) \/ Refuse(c) \/ Die(c) \/ Detach(c)
               \/ \E s \in Sessions : NoTicket(c, s)
        PROVE  UNCHANGED <<registry, bound, current, pc>>
    BY <1>8 DEF Promote, Refuse, Die, Detach, NoTicket
  <1> QED BY <1>1, <1>2, <1>3, <1>4, <1>5, <1>6, <1>7, <1>8 DEF StreamNext, UpdateStep, AnswerSocket

-----------------------------------------------------------------------------
\* The inductive invariant holds in every reachable state.
THEOREM StreamInvariance == StreamSpec => []StreamInv
  <1>1. StreamInv /\ [StreamNext]_streamVars => StreamInv'
    <2>1. ASSUME StreamInv, UNCHANGED streamVars
          PROVE  StreamInv'
      BY <2>1 DEF streamVars, socket, login, stream, StreamInv, StreamTypeOK, TicketInv,
                  BudgetInv, BoundInv, CandidateInv, SocketFree, TicketFree, SlotInv
    <2> QED BY <2>1, StreamTypeStep, TicketStep, BudgetStep, BoundStep, SlotStep,
              CandidateStep DEF StreamInv
  <1> QED BY <1>1, InitStreamInv, PTL DEF StreamSpec

\* The second stream of a session is always a socket that its own client
\* opened, whichever tickets the sockets of one address claim.
THEOREM StreamNeverForeign == StreamSpec => []StreamIsOurs
  <1>1. StreamInv => StreamIsOurs
    BY DEF StreamInv, SlotInv, StreamIsOurs
  <1> QED BY <1>1, StreamInvariance, PTL

\* A set without two different members has one at most.
LEMMA AtMostOne ==
  ASSUME NEW S, \A x, y \in S : x = y
  PROVE  /\ Cardinality(S) \in Nat /\ Cardinality(S) <= 1
         /\ S = {} => Cardinality(S) = 0
  <1>1. CASE S = {}
    BY <1>1, FS_EmptySet
  <1>2. CASE S # {}
    <2>1. PICK x \in S : S = {x}
      BY <1>2
    <2> QED BY <1>2, <2>1, FS_Singleton
  <1> QED BY <1>1, <1>2

\* An address has one redirect in flight at most, of a session that exists,
\* and a session one ticket or socket at most that may become its stream.
THEOREM OneTicketOneCandidate == StreamSpec => []TicketsSingle
  <1>1. StreamInv => TicketsSingle
    <2> SUFFICES ASSUME StreamInv PROVE TicketsSingle
      OBVIOUS
    <2> USE DEF StreamInv
    <2>1. OneRedirectInFlight
      BY AtMostOne DEF TicketInv, OneRedirectInFlight
    <2>2. ASSUME NEW s \in Sessions
          PROVE  Cardinality({t \in registry : t.session = s /\ t.current})
                   + Cardinality({c \in Sockets : bound[c] = s /\ current[c]}) <= 1
      <3> DEFINE T == {t \in registry : t.session = s /\ t.current}
                 C == {c \in Sockets : bound[c] = s /\ current[c]}
      <3>1. \A t, u \in T : t = u
        BY DEF TicketInv
      <3>2. \A c, d \in C : c = d
        BY DEF CandidateInv
      <3>3. T = {} \/ C = {}
        BY DEF CandidateInv, SocketFree, TicketFree
      <3> HIDE DEF T, C
      <3>4. /\ Cardinality(T) \in Nat /\ Cardinality(T) <= 1 /\ (T = {} => Cardinality(T) = 0)
            /\ Cardinality(C) \in Nat /\ Cardinality(C) <= 1 /\ (C = {} => Cardinality(C) = 0)
        BY <3>1, <3>2, AtMostOne
      <3>5. Cardinality(T) + Cardinality(C) <= 1
        BY <3>3, <3>4
      <3> QED BY <3>5 DEF T, C
    <2> QED BY <2>1, <2>2 DEF TicketsSingle, OneCandidate
  <1> QED BY <1>1, StreamInvariance, PTL

-----------------------------------------------------------------------------
(***************************************************************************)
(* SessionLifecycle.  What the registry promises of its queue needs to     *)
(* know where a session can be at once (waiting to be listed, or listed,   *)
(* or deleted), which account's turn it is, and that only a listed session *)
(* outside the queue has asked for a login.  The limit is counted on sets: *)
(* who is listed and does not queue.                                       *)
(***************************************************************************)

Distinct(q) == \A i, j \in DOMAIN q : q[i] = q[j] => i = j

\* A session is listed under its account, after it was added and before it is
\* deleted; it waits to be listed once, and not while it is.
PlaceInv ==
  /\ \A a \in Accounts : sessions[a] # None => AccountOf[sessions[a]] = a
  /\ Distinct(addQueue)
  /\ \A c \in Elems(addQueue) : c \notin Listed /\ net[c] # "auth"
  /\ \A c \in Conns : net[c] = "auth" => c \notin Listed /\ c \notin freed

\* The world thread updates a listed session, each account at most once.
TurnInv ==
  /\ world = "session" => cur \in Listed /\ AccountOf[cur] \notin turn
  /\ world # "session" => cur = None
  /\ world \in {"update", "session"} => \A a \in turn : sessions[a] # None

\* The queue holds listed sessions, each once; those in it know it, and those
\* that believe it are in it unless KickAll() has emptied it.
QueueInv ==
  /\ Distinct(queued)
  /\ \A c \in Elems(queued) : c \in Listed /\ inQueue[c]
  /\ \A c \in Listed : (link[c] # "closed" \/ ~kicked) /\ inQueue[c] => c \in Elems(queued)

\* A login is asked for by a session that is listed and not queued.
AskedInv ==
  \A c \in Conns :
    /\ c \notin Listed /\ c \notin freed => ~loading[c] /\ c \notin asked
    /\ c \in Listed /\ c \in asked => ~inQueue[c]

IInv == /\ TypeOK /\ PlaceInv /\ TurnInv /\ QueueInv
        /\ AskedInv /\ SeatedByItsRequest /\ NothingLeftInside

-----------------------------------------------------------------------------
\* A sequence of different elements has as many as it is long.
LEMMA CountElems ==
  ASSUME NEW S, NEW q \in Seq(S), Distinct(q)
  PROVE  IsFiniteSet(Elems(q)) /\ Cardinality(Elems(q)) = Len(q)
  <1>1. Len(q) \in Nat /\ DOMAIN q = 1..Len(q)
    BY LenProperties
  <1>2. q \in Bijection(1..Len(q), Elems(q))
    BY <1>1, LenProperties DEF Elems, Distinct, Bijection, Injection, Surjection, IsInjective
  <1>3. ExistsBijection(1..Len(q), Elems(q))
    BY <1>2 DEF ExistsBijection
  <1> QED BY <1>1, <1>3, FS_CountingElements, FS_NatBijection

\* The rest of a sequence of different elements lacks its first one.
LEMMA TailElems ==
  ASSUME NEW S, NEW q \in Seq(S), q # <<>>, Distinct(q)
  PROVE  /\ Tail(q) \in Seq(S) /\ Len(Tail(q)) = Len(q) - 1 /\ Distinct(Tail(q))
         /\ Head(q) = q[1] /\ 1 \in DOMAIN q /\ Head(q) \in Elems(q)
         /\ \A x : x \in Elems(Tail(q)) <=> x \in Elems(q) /\ x # Head(q)
  <1>1. Len(q) \in Nat /\ Len(q) > 0 /\ DOMAIN q = 1..Len(q)
    BY LenProperties, EmptySeq
  <1>2. /\ Tail(q) \in Seq(S) /\ Len(Tail(q)) = Len(q) - 1
        /\ \A i \in 1..Len(q) - 1 : Tail(q)[i] = q[i + 1]
    BY HeadTailProperties
  <1>3. DOMAIN Tail(q) = 1..Len(q) - 1
    BY <1>2, LenProperties
  <1>4. Distinct(Tail(q))
    BY <1>1, <1>2, <1>3 DEF Distinct
  <1>5. Head(q) = q[1]
    BY <1>1
  <1>6. ASSUME NEW x
        PROVE  x \in Elems(Tail(q)) <=> x \in Elems(q) /\ x # Head(q)
    <2>1. ASSUME x \in Elems(Tail(q)) PROVE x \in Elems(q) /\ x # Head(q)
      <3>1. PICK i \in 1..Len(q) - 1 : x = q[i + 1]
        BY <2>1, <1>2, <1>3 DEF Elems
      <3>2. i + 1 \in DOMAIN q /\ 1 \in DOMAIN q /\ i + 1 # 1
        BY <1>1
      <3> QED BY <3>1, <3>2, <1>5 DEF Elems, Distinct
    <2>2. ASSUME x \in Elems(q), x # Head(q) PROVE x \in Elems(Tail(q))
      <3>1. PICK i \in 1..Len(q) : x = q[i]
        BY <2>2, <1>1 DEF Elems
      <3>2. i - 1 \in 1..Len(q) - 1 /\ (i - 1) + 1 = i
        BY <1>1, <3>1, <2>2, <1>5
      <3>3. Tail(q)[i - 1] = x
        BY <1>2, <3>1, <3>2
      <3> QED BY <1>3, <3>2, <3>3 DEF Elems
    <2> QED BY <2>1, <2>2
  <1> QED BY <1>1, <1>2, <1>4, <1>5, <1>6 DEF Elems

\* An element that is not in a sequence may join it at the end.
LEMMA AppendElems ==
  ASSUME NEW S, NEW q \in Seq(S), NEW c \in S, c \notin Elems(q), Distinct(q)
  PROVE  /\ Append(q, c) \in Seq(S) /\ Len(Append(q, c)) = Len(q) + 1
         /\ Append(q, c) # <<>> /\ Distinct(Append(q, c))
         /\ \A x : x \in Elems(Append(q, c)) <=> x \in Elems(q) \/ x = c
  <1>1. Len(q) \in Nat /\ DOMAIN q = 1..Len(q)
    BY LenProperties
  <1>2. /\ Append(q, c) \in Seq(S) /\ Len(Append(q, c)) = Len(q) + 1
        /\ \A i \in 1..Len(q) : Append(q, c)[i] = q[i]
        /\ Append(q, c)[Len(q) + 1] = c
    BY <1>1
  <1>3. DOMAIN Append(q, c) = 1..Len(q) + 1
    BY <1>2, LenProperties
  <1>4. Distinct(Append(q, c))
    BY <1>1, <1>2, <1>3 DEF Distinct, Elems
  <1>5. \A x : x \in Elems(Append(q, c)) <=> x \in Elems(q) \/ x = c
    BY <1>1, <1>2, <1>3 DEF Elems
  <1>6. Append(q, c) # <<>>
    BY <1>1, <1>2, EmptySeq
  <1> QED BY <1>2, <1>4, <1>5, <1>6

\* Leaving the queue closes the gap.
LEMMA WithoutElems ==
  ASSUME NEW S, queued \in Seq(S), Distinct(queued), NEW c
  PROVE  /\ Without(c) \in Seq(S) /\ Distinct(Without(c))
         /\ Len(Without(c)) = IF c \in Elems(queued) THEN Len(queued) - 1 ELSE Len(queued)
         /\ \A x : x \in Elems(Without(c)) <=> x \in Elems(queued) /\ x # c
  <1>1. Len(queued) \in Nat /\ DOMAIN queued = 1..Len(queued) /\ \A i \in 1..Len(queued) : queued[i] \in S
    BY LenProperties, ElementOfSeq
  <1>2. CASE c \notin Elems(queued)
    BY <1>2 DEF Without
  <1>3. CASE c \in Elems(queued)
    <2>1. Place(c) \in 1..Len(queued) /\ queued[Place(c)] = c
      BY <1>1, <1>3 DEF Place, Elems
    <2> DEFINE p == Place(c)
               n == Len(queued) - 1
               w == Without(c)
               j(i) == IF i < p THEN i ELSE i + 1
    <2>2. p \in Nat /\ n \in Nat /\ p \in 1..n + 1
      BY <1>1, <2>1
    <2>3. \A i \in 1..n : j(i) \in 1..n + 1 /\ j(i) # p
      BY <2>2
    <2>4. w = [i \in 1..n |-> queued[j(i)]]
      BY <1>3 DEF Without
    <2>5. w \in [1..n -> S]
      BY <1>1, <2>3, <2>4
    <2>6. w \in Seq(S) /\ Len(w) = n /\ DOMAIN w = 1..n
      BY <2>2, <2>5
    <2>7. \A i, k \in 1..n : j(i) = j(k) => i = k
      BY <2>2
    <2>8. Distinct(w)
      BY <1>1, <2>3, <2>4, <2>6, <2>7 DEF Distinct
    <2>9. \A i \in 1..n + 1 : i # p => (IF i < p THEN i ELSE i - 1) \in 1..n
                                       /\ j(IF i < p THEN i ELSE i - 1) = i
      BY <2>2
    <2>10. ASSUME NEW x
           PROVE  x \in Elems(w) <=> x \in Elems(queued) /\ x # c
      <3>1. ASSUME x \in Elems(w) PROVE x \in Elems(queued) /\ x # c
        <4>1. PICK i \in 1..n : x = queued[j(i)]
          BY <3>1, <2>4, <2>6 DEF Elems
        <4>2. j(i) \in DOMAIN queued /\ p \in DOMAIN queued /\ j(i) # p
          BY <1>1, <2>1, <2>3
        <4> QED BY <4>1, <4>2, <2>1 DEF Elems, Distinct
      <3>2. ASSUME x \in Elems(queued), x # c PROVE x \in Elems(w)
        <4>1. PICK i \in 1..n + 1 : x = queued[i]
          BY <3>2, <1>1 DEF Elems
        <4>2. i # p
          BY <4>1, <3>2, <2>1
        <4>3. PICK k \in 1..n : j(k) = i
          BY <2>9, <4>2
        <4>4. w[k] = x
          BY <2>4, <4>1, <4>3
        <4> QED BY <2>6, <4>4 DEF Elems
      <3> QED BY <3>1, <3>2
    <2> QED BY <1>3, <2>6, <2>8, <2>10
  <1> QED BY <1>2, <1>3

\* RemoveQueued(c): c is out of the queue, and so is who is let in.
LEMMA LeaveQueue ==
  ASSUME NEW S, queued \in Seq(S), Distinct(queued), NEW c
  PROVE  /\ StillQueued(c) \in Seq(S) /\ Distinct(StillQueued(c))
         /\ \A x : x \in Elems(StillQueued(c)) <=> x \in Elems(queued) /\ x # c /\ x \notin LetIn(c)
         /\ LetIn(c) \subseteq Elems(queued) \ {c}
         /\ LetIn(c) # {} => \E x : LetIn(c) = {x}
         /\ Len(StillQueued(c)) = IF LetIn(c) = {} THEN Len(Without(c)) ELSE Len(Without(c)) - 1
  <1>1. /\ Without(c) \in Seq(S) /\ Distinct(Without(c))
        /\ \A x : x \in Elems(Without(c)) <=> x \in Elems(queued) /\ x # c
    BY WithoutElems
  <1>2. CASE LetIn(c) = {}
    BY <1>1, <1>2 DEF StillQueued
  <1>3. CASE LetIn(c) # {}
    <2>1. LetIn(c) = {Head(Without(c))} /\ Without(c) # <<>>
      BY <1>3 DEF LetIn
    <2>2. StillQueued(c) = Tail(Without(c))
      BY <1>3 DEF StillQueued
    <2> DEFINE w == Without(c)
    <2>3. /\ Tail(w) \in Seq(S) /\ Len(Tail(w)) = Len(w) - 1 /\ Distinct(Tail(w))
          /\ Head(w) \in Elems(w)
          /\ \A x : x \in Elems(Tail(w)) <=> x \in Elems(w) /\ x # Head(w)
      BY <1>1, <2>1, TailElems
    <2> HIDE DEF w
    <2>4. \A x : x \in Elems(Tail(w)) <=> x \in Elems(queued) /\ x # c /\ x \notin LetIn(c)
      BY <1>1, <2>1, <2>3 DEF w
    <2>5. LetIn(c) \subseteq Elems(queued) \ {c}
      BY <1>1, <2>1, <2>3 DEF w
    <2> QED BY <1>3, <2>1, <2>2, <2>3, <2>4, <2>5 DEF w
  <1> QED BY <1>2, <1>3

\* A listed session is found under its account.
LEMMA ListedWhere ==
  ASSUME TypeOK, PlaceInv
  PROVE  \A c : c \in Listed <=> c \in Conns /\ sessions[AccountOf[c]] = c
  <1> USE LifecycleAssumption DEF TypeOK, PlaceInv, Listed
  <1>1. ASSUME NEW c, c \in Listed
        PROVE  c \in Conns /\ sessions[AccountOf[c]] = c
    <2>1. PICK a \in Accounts : sessions[a] = c /\ c # None
      BY <1>1
    <2> QED BY <2>1
  <1>2. ASSUME NEW c \in Conns, sessions[AccountOf[c]] = c
        PROVE  c \in Listed
    BY <1>2
  <1> QED BY <1>1, <1>2

\* Listing c in the place of its account's old session, if it has one.
LEMMA ListedIn ==
  ASSUME TypeOK, PlaceInv, NEW c \in Conns, c \notin Listed,
         sessions' = [sessions EXCEPT ![AccountOf[c]] = c]
  PROVE  /\ \A x : x \in Listed' <=> x = c \/ (x \in Listed /\ x # sessions[AccountOf[c]])
         /\ \A a \in Accounts : sessions'[a] # None => AccountOf[sessions'[a]] = a
  <1> USE LifecycleAssumption DEF TypeOK, PlaceInv
  <1>1. \A a \in Accounts : sessions'[a] = IF a = AccountOf[c] THEN c ELSE sessions[a]
    OBVIOUS
  <1>2. ASSUME NEW x, x \in Listed'
        PROVE  x = c \/ (x \in Listed /\ x # sessions[AccountOf[c]])
    <2>1. PICK a \in Accounts : sessions'[a] = x /\ x # None
      BY <1>2 DEF Listed
    <2>2. CASE a = AccountOf[c]
      BY <2>1, <2>2, <1>1
    <2>3. CASE a # AccountOf[c]
      <3>1. sessions[a] = x /\ AccountOf[x] = a
        BY <2>1, <2>3, <1>1
      <3>2. x \in Listed
        BY <2>1, <3>1 DEF Listed
      <3>3. x # sessions[AccountOf[c]]
        BY <2>1, <2>3, <3>1
      <3> QED BY <3>2, <3>3
    <2> QED BY <2>2, <2>3
  <1>3. c \in Listed'
    BY <1>1 DEF Listed
  <1>4. ASSUME NEW x \in Listed, x # sessions[AccountOf[c]]
        PROVE  x \in Listed'
    BY <1>4, <1>1 DEF Listed
  <1>5. \A a \in Accounts : sessions'[a] # None => AccountOf[sessions'[a]] = a
    BY <1>1
  <1> QED BY <1>2, <1>3, <1>4, <1>5

\* The removal of c from the list.
LEMMA ListedOut ==
  ASSUME TypeOK, PlaceInv, NEW c \in Listed,
         sessions' = [sessions EXCEPT ![AccountOf[c]] = None]
  PROVE  /\ \A x : x \in Listed' <=> x \in Listed /\ x # c
         /\ \A a \in Accounts : sessions'[a] # None => AccountOf[sessions'[a]] = a
  <1> USE LifecycleAssumption DEF TypeOK, PlaceInv
  <1>0. c \in Conns /\ sessions[AccountOf[c]] = c
    BY ListedWhere
  <1>1. \A a \in Accounts : sessions'[a] = IF a = AccountOf[c] THEN None ELSE sessions[a]
    BY <1>0
  <1>2. ASSUME NEW x, x \in Listed'
        PROVE  x \in Listed /\ x # c
    <2>1. PICK a \in Accounts : sessions'[a] = x /\ x # None
      BY <1>2 DEF Listed
    <2>2. a # AccountOf[c] /\ sessions[a] = x /\ AccountOf[x] = a
      BY <2>1, <1>1
    <2> QED BY <2>1, <2>2 DEF Listed
  <1>3. ASSUME NEW x \in Listed, x # c
        PROVE  x \in Listed'
    <2>1. PICK a \in Accounts : sessions[a] = x /\ x # None
      BY <1>3 DEF Listed
    <2>2. a # AccountOf[c]
      BY <1>0, <1>3, <2>1
    <2> QED BY <2>1, <2>2, <1>1 DEF Listed
  <1>4. \A a \in Accounts : sessions'[a] # None => AccountOf[sessions'[a]] = a
    BY <1>1
  <1> QED BY <1>2, <1>3, <1>4

\* The queue after List(): the newcomer is in it or not, the old session and
\* who is let in are not.
LEMMA Admitted ==
  ASSUME TypeOK, Distinct(queued), NEW c \in Conns, c \notin Elems(queued),
         NEW old \in Conns \cup {None}, Admit(c, old), None \notin Elems(queued), c # old
  PROVE  /\ queued' \in Seq(Conns) /\ Distinct(queued')
         /\ inQueue' \in [Conns -> BOOLEAN]
         /\ \E N \in SUBSET Elems(queued) :
              /\ \A x : x \in Elems(queued') <=>
                          \/ x = c /\ inQueue'[c]
                          \/ x \in Elems(queued) /\ x # old /\ x \notin N
              /\ \A x \in Conns \ {c} : inQueue'[x] <=> inQueue[x] /\ x # old /\ x \notin N
  <1> USE DEF TypeOK
  <1> DEFINE N == IF old = None THEN {} ELSE LetIn(old)
             q == QueueAfter(old)
             total == Cardinality(Listed) + (IF old = None THEN 1 ELSE 0)
             waits == Limit > 0 /\ total - Counted(old) >= Limit /\ ~IsStaff(c)
  <1>1. /\ queued' = IF waits THEN Append(q, c) ELSE q
        /\ inQueue' = [s \in Conns |-> IF s = c THEN waits ELSE inQueue[s] /\ s \notin N \cup {old}]
    BY DEF Admit
  <1>2. waits \in BOOLEAN
    OBVIOUS
  <1>3. /\ q \in Seq(Conns) /\ Distinct(q)
        /\ N \subseteq Elems(queued)
        /\ \A x : x \in Elems(q) <=> x \in Elems(queued) /\ x # old /\ x \notin N
    <2>1. CASE old = None
      BY <2>1 DEF QueueAfter
    <2>2. CASE old # None
      BY <2>2, LeaveQueue DEF QueueAfter
    <2> QED BY <2>1, <2>2
  <1> HIDE DEF N, q, waits
  <1>4. c \notin Elems(q)
    BY <1>3
  <1>5. inQueue'[c] = waits
    BY <1>1
  <1>6. CASE waits
    <2>1. /\ queued' \in Seq(Conns) /\ Distinct(queued')
          /\ \A x : x \in Elems(queued') <=> x \in Elems(q) \/ x = c
      BY <1>1, <1>3, <1>4, <1>6, AppendElems
    <2>2. inQueue' \in [Conns -> BOOLEAN] /\ inQueue'[c]
      BY <1>1, <1>2, <1>5, <1>6
    <2>3. \A x \in Conns \ {c} : inQueue'[x] <=> inQueue[x] /\ x # old /\ x \notin N
      BY <1>1
    <2> QED BY <1>3, <2>1, <2>2, <2>3
  <1>7. CASE ~waits
    <2>1. queued' = q
      BY <1>1, <1>7
    <2>2. inQueue' \in [Conns -> BOOLEAN] /\ ~inQueue'[c]
      BY <1>1, <1>2, <1>5, <1>7
    <2>3. \A x \in Conns \ {c} : inQueue'[x] <=> inQueue[x] /\ x # old /\ x \notin N
      BY <1>1
    <2> QED BY <1>3, <2>1, <2>2, <2>3
  <1> QED BY <1>6, <1>7


-----------------------------------------------------------------------------
(* The three outcomes of List(), and Reap().                               *)

ListsFresh(c) ==
  /\ sessions[AccountOf[c]] = None /\ Admit(c, None)
  /\ UNCHANGED <<link, boxVars, sessionVars, freed>>

ListsInstead(c) ==
  LET old == sessions[AccountOf[c]] IN
  /\ old # None /\ MayReplace(old) /\ Admit(c, old) /\ Delete(old)

RefusesToList(c) ==
  LET old == sessions[AccountOf[c]] IN
  /\ old # None /\ ~MayReplace(old) /\ Delete(c)
  /\ UNCHANGED listVars

\* What List() takes is not listed and in no other place.
LEMMA ListCases ==
  ASSUME TypeOK, PlaceInv, TurnInv, List
  PROVE  /\ world = "list" /\ cur = None /\ UNCHANGED <<netVars, worldVars>>
         /\ \E c \in Conns \ freed :
              /\ c \notin Listed /\ net[c] # "auth" /\ c \in Elems(addQueue)
              /\ addQueue' \in Seq(Conns \ freed) /\ Distinct(addQueue')
              /\ \A x : x \in Elems(addQueue') <=> x \in Elems(addQueue) /\ x # c
              /\ sessions[AccountOf[c]] \in (Conns \ freed) \cup {None}
              /\ sessions[AccountOf[c]] # c
              /\ sessions[AccountOf[c]] # None => sessions[AccountOf[c]] \in Listed
              /\ ListsFresh(c) \/ ListsInstead(c) \/ RefusesToList(c)
  <1> USE LifecycleAssumption DEF TypeOK, PlaceInv, TurnInv
  <1> DEFINE c == Head(addQueue)
  <1>1. world = "list" /\ cur = None /\ addQueue # <<>> /\ addQueue' = Tail(addQueue)
        /\ UNCHANGED <<netVars, worldVars>>
    BY DEF List
  <1>2. Distinct(addQueue)
    OBVIOUS
  <1>3. /\ addQueue' \in Seq(Conns \ freed) /\ Distinct(addQueue')
        /\ \A x : x \in Elems(addQueue') <=> x \in Elems(addQueue) /\ x # c
        /\ c = addQueue[1] /\ 1 \in DOMAIN addQueue /\ c \in Elems(addQueue)
    BY <1>1, <1>2, TailElems
  <1>4. c \in Conns \ freed
    BY <1>1, HeadTailProperties
  <1>5. c \notin Listed /\ net[c] # "auth"
    BY <1>3
  <1>6. sessions[AccountOf[c]] # c
    BY <1>4, <1>5, ListedWhere
  <1>7. sessions[AccountOf[c]] \in (Conns \ freed) \cup {None}
    BY <1>4
  <1>8. sessions[AccountOf[c]] # None => sessions[AccountOf[c]] \in Listed
    BY <1>4 DEF Listed
  <1>9. ListsFresh(c) \/ ListsInstead(c) \/ RefusesToList(c)
    BY DEF List, ListsFresh, ListsInstead, RefusesToList
  <1> HIDE DEF c
  <1> QED BY <1>1, <1>3, <1>4, <1>5, <1>6, <1>7, <1>8, <1>9

LEMMA SeqMissing ==
  ASSUME NEW S, NEW q \in Seq(S), NEW x, x \notin Elems(q)
  PROVE  q \in Seq(S \ {x})
  <1>1. Len(q) \in Nat /\ DOMAIN q = 1..Len(q) /\ \A i \in 1..Len(q) : q[i] \in S
    BY LenProperties, ElementOfSeq
  <1>2. \A i \in 1..Len(q) : q[i] \in S \ {x}
    BY <1>1 DEF Elems
  <1>3. q \in [1..Len(q) -> S \ {x}]
    BY <1>1, <1>2, LenProperties
  <1> QED BY <1>1, <1>3

\* The fields of a deleted session.
LEMMA DeleteTypes ==
  ASSUME TypeOK, NEW c \in Conns, Delete(c)
  PROVE  /\ link' \in [Conns -> {"none", "open", "closed"}]
         /\ box' \in [Conns -> Seq(Packet)] /\ boxClosed' \in [Conns -> BOOLEAN]
         /\ player' \in [Conns -> Conns \cup {None}]
         /\ UNCHANGED <<loading, leaving, asked>>
         /\ freed' = freed \cup {c} /\ freed' \subseteq Conns
  <1> USE DEF TypeOK, Delete, LinkClosed
  <1>1. box' \in [Conns -> Seq(Packet)]
    <2>1. <<>> \in Seq(Packet)
      BY EmptySeq
    <2> QED BY <2>1
  <1> QED BY <1>1

\* A listed session is freed once, and is nowhere else.
LEMMA TypeStep ==
  ASSUME TypeOK, PlaceInv, TurnInv, QueueInv, Next
  PROVE  TypeOK'
  <1> USE LifecycleAssumption DEF TypeOK
  <1>1. ASSUME NEW c \in Conns, Attach(c) \/ Lose(c) \/ EmptyBox(c)
        PROVE  TypeOK'
    <2>1. CASE Attach(c)
      <3>1. c \notin freed
        BY <2>1 DEF Attach, NetGo, PlaceInv
      <3>2. addQueue' \in Seq(Conns \ freed')
        BY <2>1, <3>1 DEF Attach
      <3> QED BY <2>1, <3>2 DEF Attach, NetGo, NetAt, boxVars, listVars, sessionVars, worldVars
    <2>2. CASE Lose(c)
      BY <2>2 DEF Lose, NetGo, NetAt, listVars, sessionVars, worldVars
    <2>3. CASE EmptyBox(c)
      <3>1. box[c] # <<>> => Tail(box[c]) \in Seq(Packet)
        BY HeadTailProperties
      <3>2. box' \in [Conns -> Seq(Packet)] /\ net' \in [Conns -> NetAt]
        <4>1. CASE box[c] = <<>>
          BY <2>3, <4>1 DEF EmptyBox, NetAt
        <4>2. CASE box[c] # <<>>
          <5>1. box' = [box EXCEPT ![c] = Tail(box[c])] /\ net' = net
            BY <2>3, <4>2 DEF EmptyBox
          <5> QED BY <3>1, <4>2, <5>1
        <4> QED BY <4>1, <4>2
      <3> QED BY <2>3, <3>2 DEF EmptyBox, listVars, sessionVars, worldVars
    <2> QED BY <1>1, <2>1, <2>2, <2>3
  <1>2. ASSUME NEW c \in Conns, NEW p \in Packet, Route(c, p)
        PROVE  TypeOK'
    BY <1>2 DEF Route, boxVars, listVars, sessionVars, worldVars
  <1>3. ASSUME NEW c \in Conns, Enqueue(c)
        PROVE  TypeOK'
    <2>1. Append(box[c], hand[c]) \in Seq(Packet)
      BY <1>3 DEF Enqueue
    <2>2. box' \in [Conns -> Seq(Packet)]
      BY <1>3, <2>1 DEF Enqueue
    <2> QED BY <1>3, <2>2 DEF Enqueue, listVars, sessionVars, worldVars
  <1>4. ASSUME NEW c \in Conns, MapInput(c) \/ Answer(c)
        PROVE  TypeOK'
    <2>1. CASE MapInput(c)
      <3>1. Tail(box[c]) \in Seq(Packet)
        BY <2>1, HeadTailProperties DEF MapInput
      <3>2. box' \in [Conns -> Seq(Packet)]
        BY <2>1, <3>1 DEF MapInput
      <3>3. link' \in [Conns -> {"none", "open", "closed"}]
        <4>1. link' = link \/ link' = [link EXCEPT ![c] = "closed"]
          BY <2>1 DEF MapInput
        <4> QED BY <4>1
      <3> QED BY <2>1, <3>2, <3>3 DEF MapInput, netVars, listVars, sessionVars, worldVars
    <2>2. CASE Answer(c)
      <3>1. Requester(c) \in {c, None}
        BY DEF Requester
      <3>2. /\ link' \in [Conns -> {"none", "open", "closed"}]
            /\ loading' \in [Conns -> BOOLEAN] /\ asked' \subseteq Conns
            /\ player' \in [Conns -> Conns \cup {None}]
        <4>1. /\ link' = link \/ link' = [link EXCEPT ![c] = "closed"]
              /\ loading' = loading \/ loading' = [loading EXCEPT ![c] = FALSE]
              /\ player' = player \/ player' = [player EXCEPT ![c] = c]
              /\ asked' = asked \ {c}
          BY <2>2, <3>1 DEF Answer
        <4>2. link' \in [Conns -> {"none", "open", "closed"}]
          BY <4>1
        <4>3. loading' \in [Conns -> BOOLEAN]
          BY <4>1
        <4>4. player' \in [Conns -> Conns \cup {None}]
          <5>1. CASE player' = player
            BY <5>1
          <5>2. CASE player' = [player EXCEPT ![c] = c]
            BY <5>2
          <5> QED BY <4>1, <5>1, <5>2
        <4>5. asked' \subseteq Conns
          BY <4>1
        <4> QED BY <4>2, <4>3, <4>4, <4>5
      <3> QED BY <2>2, <3>2 DEF Answer, netVars, boxVars, listVars, worldVars
    <2> QED BY <1>4, <2>1, <2>2
  <1>5. CASE KickAll
    <2>1. queued' \in Seq(Conns)
      BY <1>5 DEF KickAll
    <2> QED BY <1>5, <2>1 DEF KickAll, WorldGo, WorldAt, netVars, boxVars, sessionVars
  <1>6. CASE StartUpdate \/ AllListed \/ AllUpdated
    BY <1>6 DEF StartUpdate, AllListed, AllUpdated, WorldGo, WorldAt, ToUpdate, netVars, boxVars,
                listVars, sessionVars
  <1>7. ASSUME NEW a \in Accounts, Turn(a)
        PROVE  TypeOK'
    BY <1>7 DEF Turn, WorldGo, WorldAt, netVars, boxVars, listVars, sessionVars
  <1>8. CASE NextPacket
    <2>1. cur \in Conns
      BY <1>8 DEF NextPacket, WorldGo, TurnInv, Listed
    <2>2. Tail(box[cur]) \in Seq(Packet)
      BY <1>8, <2>1, HeadTailProperties DEF NextPacket, TakesPacket
    <2>3. /\ loading' \in [Conns -> BOOLEAN] /\ player' \in [Conns -> Conns \cup {None}]
          /\ leaving' \in [Conns -> BOOLEAN] /\ asked' \subseteq Conns
      <3>1. CASE Login(cur)
        BY <2>1, <3>1 DEF Login, sessionVars
      <3>2. CASE Logout(cur)
        BY <2>1, <3>2 DEF Logout, sessionVars
      <3>3. CASE UNCHANGED sessionVars
        BY <3>3 DEF sessionVars
      <3>4. Head(box[cur]) \in Packet
        BY <1>8, <2>1, HeadTailProperties DEF NextPacket, TakesPacket
      <3> QED BY <1>8, <3>1, <3>2, <3>3, <3>4 DEF NextPacket, Handle, Packet
    <2> QED BY <1>8, <2>1, <2>2, <2>3 DEF NextPacket, WorldGo, WorldAt, netVars, listVars
  <1>9. CASE LiveOn
    <2>1. cur \in Conns
      BY <1>9 DEF LiveOn, WorldGo, TurnInv, Listed
    <2> QED BY <1>9, <2>1 DEF LiveOn, WorldGo, WorldAt, netVars, boxVars, listVars, sessionVars
  <1> DEFINE Queued == Distinct(queued) /\ Elems(queued) \subseteq Listed
  <1>10. Queued /\ None \notin Listed
    BY DEF QueueInv, Listed
  <1>11. CASE List
    <2>1. PICK c \in Conns \ freed :
              /\ c \notin Listed /\ c \in Elems(addQueue)
              /\ addQueue' \in Seq(Conns \ freed)
              /\ \A x : x \in Elems(addQueue') <=> x \in Elems(addQueue) /\ x # c
              /\ sessions[AccountOf[c]] \in (Conns \ freed) \cup {None}
              /\ sessions[AccountOf[c]] # c
              /\ sessions[AccountOf[c]] # None => sessions[AccountOf[c]] \in Listed
              /\ ListsFresh(c) \/ ListsInstead(c) \/ RefusesToList(c)
      BY <1>11, ListCases
    <2>2. cur = None /\ UNCHANGED <<netVars, worldVars>>
      BY <1>11, ListCases
    <2> DEFINE old == sessions[AccountOf[c]]
    <2>3. CASE ListsFresh(c)
      <3>1. queued' \in Seq(Conns) /\ inQueue' \in [Conns -> BOOLEAN]
        BY <1>10, <2>1, <2>3, Admitted DEF ListsFresh
      <3>2. sessions' = [sessions EXCEPT ![AccountOf[c]] = c]
        BY <2>3 DEF ListsFresh, Admit
      <3> QED BY <2>1, <2>2, <2>3, <3>1, <3>2 DEF ListsFresh, netVars, worldVars, boxVars, sessionVars
    <2>4. CASE ListsInstead(c)
      <3>1. old \in Listed /\ old \in Conns /\ Admit(c, old) /\ Delete(old)
        BY <2>1, <2>4 DEF ListsInstead
      <3>2. queued' \in Seq(Conns) /\ inQueue' \in [Conns -> BOOLEAN]
        BY <1>10, <2>1, <3>1, Admitted
      <3>3. \A a \in Accounts : sessions'[a] = IF a = AccountOf[c] THEN c ELSE sessions[a]
        BY <3>1 DEF Admit
      <3>4. \A a \in Accounts : sessions[a] = old => a = AccountOf[c]
        BY <2>1, <3>1 DEF PlaceInv, Listed
      <3>5. sessions' \in [Accounts -> (Conns \ (freed \cup {old})) \cup {None}]
        BY <2>1, <3>1, <3>3, <3>4 DEF Admit
      <3>6. old \notin Elems(addQueue)
        BY <3>1 DEF PlaceInv, Elems
      <3>7. addQueue' \in Seq(Conns \ (freed \cup {old}))
        <4>1. addQueue' \in Seq((Conns \ freed) \ {old})
          BY <2>1, <3>6, SeqMissing
        <4>2. (Conns \ freed) \ {old} = Conns \ (freed \cup {old})
          OBVIOUS
        <4> QED BY <4>1, <4>2
      <3> HIDE DEF old
      <3> QED BY <2>2, <3>1, <3>2, <3>5, <3>7, DeleteTypes DEF netVars, worldVars
    <2>5. CASE RefusesToList(c)
      <3>1. addQueue' \in Seq(Conns \ (freed \cup {c}))
        <4>1. addQueue' \in Seq((Conns \ freed) \ {c})
          BY <2>1, SeqMissing
        <4>2. (Conns \ freed) \ {c} = Conns \ (freed \cup {c})
          OBVIOUS
        <4> QED BY <4>1, <4>2
      <3>2. Delete(c) /\ UNCHANGED listVars
        BY <2>5 DEF RefusesToList
      <3>3. sessions' \in [Accounts -> (Conns \ (freed \cup {c})) \cup {None}]
        BY <2>1, <3>2 DEF Listed, listVars
      <3> QED BY <2>1, <2>2, <3>1, <3>2, <3>3, DeleteTypes DEF netVars, worldVars, listVars
    <2> QED BY <2>1, <2>3, <2>4, <2>5
  <1>12. CASE Reap
    <2>1. cur \in Listed /\ cur \in Conns /\ sessions[AccountOf[cur]] = cur
      BY <1>12, ListedWhere DEF Reap, WorldGo, TurnInv
    <2>2. queued' \in Seq(Conns)
      BY <1>10, <1>12, LeaveQueue DEF Reap, Reaped
    <2>3. \A a \in Accounts : sessions'[a] = IF a = AccountOf[cur] THEN None ELSE sessions[a]
      BY <1>12, <2>1 DEF Reap, Reaped
    <2>4. sessions' \in [Accounts -> (Conns \ (freed \cup {cur})) \cup {None}]
      BY <1>12, <2>1, <2>3 DEF PlaceInv, Reap, Reaped
    <2>5. addQueue' \in Seq(Conns \ (freed \cup {cur}))
      <3>1. cur \notin Elems(addQueue)
        BY <2>1 DEF PlaceInv, Elems
      <3>2. addQueue \in Seq((Conns \ freed) \ {cur})
        BY <3>1, SeqMissing
      <3>3. (Conns \ freed) \ {cur} = Conns \ (freed \cup {cur})
        OBVIOUS
      <3> QED BY <1>12, <3>2, <3>3 DEF Reap
    <2>6. inQueue' \in [Conns -> BOOLEAN]
      BY <1>12 DEF Reap, Reaped
    <2> QED BY <1>12, <2>1, <2>2, <2>4, <2>5, <2>6, DeleteTypes DEF Reap, WorldGo, WorldAt, netVars
  <1> QED BY <1>1, <1>2, <1>3, <1>4, <1>5, <1>6, <1>7, <1>8, <1>9, <1>11, <1>12
          DEF Next, NetOn, WorldOn


\* Who is listed, waits to be listed or is deleted, changes in few steps.
LEMMA PlaceStep ==
  ASSUME TypeOK, PlaceInv, TurnInv, QueueInv, Next
  PROVE  PlaceInv'
  <1> USE LifecycleAssumption DEF TypeOK
  <1>1. ASSUME UNCHANGED <<sessions, addQueue, freed>>,
               \A c \in Conns : net'[c] = "auth" <=> net[c] = "auth"
        PROVE  PlaceInv'
    <2>1. Elems(addQueue) \subseteq Conns
      BY ElementOfSeq, LenProperties DEF Elems
    <2> QED BY <1>1, <2>1 DEF PlaceInv, Listed
  <1>2. ASSUME NEW c \in Conns, Lose(c) \/ EmptyBox(c)
        PROVE  PlaceInv'
    <2>1. CASE Lose(c)
      BY <1>1, <2>1 DEF Lose, NetGo, listVars
    <2>2. CASE EmptyBox(c)
      <3>1. net' = net \/ (net[c] = "emptying" /\ net' = [net EXCEPT ![c] = "gone"])
        BY <2>2 DEF EmptyBox
      <3> QED BY <1>1, <2>2, <3>1 DEF EmptyBox, listVars
    <2> QED BY <1>2, <2>1, <2>2
  <1>3. ASSUME NEW c \in Conns, Enqueue(c) \/ MapInput(c) \/ Answer(c) \/ \E p \in Packet : Route(c, p)
        PROVE  UNCHANGED <<sessions, addQueue, freed, net>>
    BY <1>3 DEF Enqueue, MapInput, Answer, Route, netVars, listVars
  <1>4. ASSUME KickAll \/ StartUpdate \/ AllListed \/ AllUpdated \/ NextPacket \/ LiveOn
               \/ \E a \in Accounts : Turn(a)
        PROVE  UNCHANGED <<sessions, addQueue, freed, net>>
    BY <1>4 DEF KickAll, StartUpdate, AllListed, AllUpdated, NextPacket, LiveOn, Turn, netVars, listVars
  <1>5. ASSUME NEW c \in Conns, Attach(c)
        PROVE  PlaceInv'
    <2>1. net[c] = "auth" /\ net' = [net EXCEPT ![c] = "live"] /\ addQueue' = Append(addQueue, c)
          /\ UNCHANGED <<sessions, freed>>
      BY <1>5 DEF Attach, NetGo, listVars
    <2>2. c \notin Elems(addQueue) /\ c \notin Listed /\ c \notin freed
      BY <2>1 DEF PlaceInv
    <2>3. /\ Distinct(addQueue')
          /\ \A x : x \in Elems(addQueue') <=> x \in Elems(addQueue) \/ x = c
      BY <2>1, <2>2, AppendElems DEF PlaceInv
    <2>4. Listed' = Listed
      BY <2>1 DEF Listed
    <2>5. \A x \in Elems(addQueue) : x \in Conns
      BY ElementOfSeq, LenProperties DEF Elems
    <2> QED BY <2>1, <2>2, <2>3, <2>4, <2>5 DEF PlaceInv
  <1>6. CASE List
    <2>1. PICK c \in Conns \ freed :
              /\ c \notin Listed /\ net[c] # "auth" /\ c \in Elems(addQueue)
              /\ Distinct(addQueue')
              /\ \A x : x \in Elems(addQueue') <=> x \in Elems(addQueue) /\ x # c
              /\ sessions[AccountOf[c]] # None => sessions[AccountOf[c]] \in Listed
              /\ ListsFresh(c) \/ ListsInstead(c) \/ RefusesToList(c)
      BY <1>6, ListCases
    <2>2. net' = net
      BY <1>6, ListCases DEF netVars
    <2>3. CASE RefusesToList(c)
      <3>1. sessions' = sessions /\ freed' = freed \cup {c} /\ Listed' = Listed
        BY <2>3 DEF RefusesToList, Delete, LinkClosed, listVars, Listed
      <3> QED BY <2>1, <2>2, <3>1 DEF PlaceInv
    <2>4. CASE ListsFresh(c) \/ ListsInstead(c)
      <3>1. sessions' = [sessions EXCEPT ![AccountOf[c]] = c]
        BY <2>4 DEF ListsFresh, ListsInstead, Admit
      <3>2. \/ freed' = freed
            \/ sessions[AccountOf[c]] \in Listed /\ freed' = freed \cup {sessions[AccountOf[c]]}
        BY <2>1, <2>4 DEF ListsFresh, ListsInstead, Delete, LinkClosed
      <3>3. /\ \A x : x \in Listed' => x = c \/ x \in Listed
            /\ \A a \in Accounts : sessions'[a] # None => AccountOf[sessions'[a]] = a
        BY <2>1, <3>1, ListedIn
      <3> QED BY <2>1, <2>2, <3>2, <3>3 DEF PlaceInv
    <2> QED BY <2>1, <2>3, <2>4
  <1>7. CASE Reap
    <2>1. cur \in Listed
      BY <1>7 DEF Reap, WorldGo, TurnInv
    <2>2. /\ sessions' = [sessions EXCEPT ![AccountOf[cur]] = None]
          /\ UNCHANGED <<net, addQueue>> /\ freed' = freed \cup {cur}
      BY <1>7 DEF Reap, Reaped, Delete, LinkClosed, netVars
    <2>3. /\ \A x : x \in Listed' => x \in Listed
          /\ \A a \in Accounts : sessions'[a] # None => AccountOf[sessions'[a]] = a
      BY <2>1, <2>2, ListedOut
    <2> QED BY <2>1, <2>2, <2>3 DEF PlaceInv
  <1> QED BY <1>1, <1>2, <1>3, <1>4, <1>5, <1>6, <1>7 DEF Next, NetOn, WorldOn

LEMMA TurnStep ==
  ASSUME TypeOK, PlaceInv, TurnInv, Next
  PROVE  TurnInv'
  <1> USE LifecycleAssumption DEF TypeOK
  <1>1. ASSUME UNCHANGED <<sessions, world, turn, cur>>
        PROVE  TurnInv'
    BY <1>1 DEF TurnInv, Listed
  <1>2. ASSUME NEW c \in Conns, Attach(c) \/ NetOn(c) \/ Lose(c) \/ MapInput(c) \/ Answer(c)
                                \/ \E p \in Packet : Route(c, p)
        PROVE  UNCHANGED <<sessions, world, turn, cur>>
    BY <1>2 DEF Attach, NetOn, Enqueue, EmptyBox, Lose, MapInput, Answer, Route, listVars, worldVars
  <1>3. CASE KickAll \/ StartUpdate \/ AllListed \/ AllUpdated
    BY <1>3 DEF KickAll, StartUpdate, AllListed, AllUpdated, WorldGo, ToUpdate, TurnInv, listVars
  <1>4. CASE List
    <2>1. world = "list" /\ UNCHANGED <<world, turn, cur>>
      BY <1>4 DEF List, worldVars
    <2> QED BY <2>1 DEF TurnInv
  <1>5. ASSUME NEW a \in Accounts, Turn(a)
        PROVE  TurnInv'
    <2>1. /\ world' = "session" /\ world = "update" /\ a \in turn /\ turn' = turn \ {a}
          /\ cur' = sessions[a] /\ sessions' = sessions
      BY <1>5 DEF Turn, WorldGo, listVars
    <2>2. sessions[a] # None /\ AccountOf[sessions[a]] = a
      BY <2>1 DEF TurnInv, PlaceInv
    <2> QED BY <2>1, <2>2 DEF TurnInv, Listed
  <1>6. CASE NextPacket
    BY <1>1, <1>6 DEF NextPacket, WorldGo, listVars
  <1>7. CASE Reap
    <2>1. /\ world = "session" /\ world' = "update" /\ cur' = None /\ turn' = turn
          /\ sessions' = [sessions EXCEPT ![AccountOf[cur]] = None]
      BY <1>7 DEF Reap, Reaped, WorldGo
    <2>2. AccountOf[cur] \notin turn
      BY <2>1 DEF TurnInv
    <2>3. \A a \in Accounts : a # AccountOf[cur] => sessions'[a] = sessions[a]
      BY <2>1
    <2> QED BY <2>1, <2>2, <2>3 DEF TurnInv
  <1>8. CASE LiveOn
    BY <1>8 DEF LiveOn, WorldGo, TurnInv, listVars
  <1> QED BY <1>1, <1>2, <1>3, <1>4, <1>5, <1>6, <1>7, <1>8 DEF Next, WorldOn

\* Who is let in leaves the queue and learns it in the same step.  A link is
\* opened when its session is made, and only closed later.
LEMMA QueueStep ==
  ASSUME TypeOK, PlaceInv, TurnInv, QueueInv, Next
  PROVE  QueueInv'
  <1> USE LifecycleAssumption DEF TypeOK
  <1>1. ASSUME UNCHANGED <<sessions, queued, inQueue, kicked>>,
               \A c \in Listed : link'[c] # "closed" => link[c] # "closed"
        PROVE  QueueInv'
    BY <1>1 DEF QueueInv, Listed
  <1>0. Elems(queued) \subseteq Listed /\ Listed \subseteq Conns /\ None \notin Listed
    BY DEF QueueInv, Listed
  <1>2. ASSUME NEW c \in Conns, Attach(c)
        PROVE  QueueInv'
    <2>1. c \notin Listed /\ link' = [link EXCEPT ![c] = "open"]
      BY <1>2 DEF Attach, NetGo, PlaceInv
    <2>2. UNCHANGED <<sessions, queued, inQueue, kicked>>
      BY <1>2 DEF Attach, listVars, worldVars
    <2> QED BY <1>0, <1>1, <2>1, <2>2
  <1>3. ASSUME NEW c \in Conns, NetOn(c) \/ Lose(c) \/ \E p \in Packet : Route(c, p)
        PROVE  QueueInv'
    <2>1. UNCHANGED <<sessions, queued, inQueue, kicked>>
      BY <1>3 DEF NetOn, Enqueue, EmptyBox, Lose, Route, listVars, worldVars
    <2>2. link' = link \/ link' = [link EXCEPT ![c] = "closed"]
      BY <1>3 DEF NetOn, Enqueue, EmptyBox, Lose, Route
    <2> QED BY <1>0, <1>1, <2>1, <2>2
  <1>4. ASSUME NEW c \in Conns, MapInput(c) \/ Answer(c)
        PROVE  QueueInv'
    <2>1. UNCHANGED <<sessions, queued, inQueue, kicked>>
      BY <1>4 DEF MapInput, Answer, listVars, worldVars
    <2>2. link' = link \/ link' = [link EXCEPT ![c] = "closed"]
      BY <1>4 DEF MapInput, Answer, Requester
    <2> QED BY <1>0, <1>1, <2>1, <2>2
  <1>5. CASE StartUpdate \/ AllListed \/ AllUpdated \/ NextPacket \/ LiveOn
             \/ \E a \in Accounts : Turn(a)
    <2>1. UNCHANGED <<sessions, queued, inQueue, kicked, link>>
      BY <1>5 DEF StartUpdate, AllListed, AllUpdated, NextPacket, LiveOn, Turn, listVars
    <2> QED BY <1>1, <2>1
  <1>6. CASE KickAll
    <2>1. /\ queued' = <<>> /\ kicked' = TRUE /\ Listed' = Listed
          /\ \A c \in Listed : link'[c] = "closed"
      BY <1>0, <1>6 DEF KickAll, Listed
    <2>2. Elems(queued') = {} /\ Distinct(queued')
      BY <2>1 DEF Elems, Distinct
    <2> QED BY <2>1, <2>2 DEF QueueInv
  <1>7. CASE List
    <2>1. PICK c \in Conns \ freed :
              /\ c \notin Listed
              /\ sessions[AccountOf[c]] # c
              /\ sessions[AccountOf[c]] # None => sessions[AccountOf[c]] \in Listed
              /\ ListsFresh(c) \/ ListsInstead(c) \/ RefusesToList(c)
      BY <1>7, ListCases
    <2>2. kicked' = kicked
      BY <1>7, ListCases DEF worldVars
    <2>3. CASE RefusesToList(c)
      <3>1. UNCHANGED <<sessions, queued, inQueue>> /\ link' = [link EXCEPT ![c] = "closed"]
        BY <2>3 DEF RefusesToList, Delete, LinkClosed, listVars
      <3> QED BY <1>0, <1>1, <2>1, <2>2, <3>1
    <2>4. CASE ListsFresh(c) \/ ListsInstead(c)
      <3> DEFINE old == sessions[AccountOf[c]]
      <3>1. /\ Admit(c, old)
            /\ link' = link \/ link' = [link EXCEPT ![old] = "closed"]
        BY <2>4 DEF ListsFresh, ListsInstead, Delete, LinkClosed
      <3>2. old \in Conns \cup {None} /\ c # old /\ c \notin Elems(queued) /\ None \notin Elems(queued)
        BY <1>0, <2>1
      <3> HIDE DEF old
      <3>3. /\ Distinct(queued')
            /\ \E N \in SUBSET Elems(queued) :
                 /\ \A x : x \in Elems(queued') <=>
                             \/ x = c /\ inQueue'[c]
                             \/ x \in Elems(queued) /\ x # old /\ x \notin N
                 /\ \A x \in Conns \ {c} : inQueue'[x] <=> inQueue[x] /\ x # old /\ x \notin N
        <4>1. Distinct(queued)
          BY DEF QueueInv
        <4> HIDE DEF TypeOK
        <4> QED BY <2>1, <3>1, <3>2, <4>1, Admitted
      <3>4. \A x : x \in Listed' <=> x = c \/ (x \in Listed /\ x # old)
        BY <2>1, <3>1, ListedIn DEF Admit, old
      <3>5. \A x \in Listed : link'[x] # "closed" => link[x] # "closed"
        BY <1>0, <3>1
      <3>6. \A x \in Elems(queued') : x \in Listed' /\ inQueue'[x]
        <4>1. \A x \in Elems(queued) : x \in Listed /\ x \in Conns \ {c} /\ inQueue[x]
          BY <1>0, <2>1 DEF QueueInv
        <4>2. \A x \in Elems(queued') : x # c => x \in Elems(queued) /\ x # old /\ inQueue'[x]
          BY <3>3, <4>1
        <4>3. c \in Elems(queued') => inQueue'[c]
          BY <2>1, <3>2, <3>3
        <4> QED BY <3>4, <4>1, <4>2, <4>3
      <3>7. ASSUME NEW x \in Listed', link'[x] # "closed" \/ ~kicked', inQueue'[x]
            PROVE  x \in Elems(queued')
        <4>1. CASE x = c
          BY <3>3, <3>7, <4>1
        <4>2. CASE x # c
          <5>1. x \in Listed /\ x # old /\ x \in Conns \ {c}
            BY <1>0, <3>4, <4>2
          <5>2. inQueue[x] /\ (link[x] # "closed" \/ ~kicked)
            BY <2>2, <3>3, <3>5, <3>7, <5>1
          <5> QED BY <3>3, <3>7, <5>1, <5>2 DEF QueueInv
        <4> QED BY <4>1, <4>2
      <3> QED BY <3>3, <3>6, <3>7 DEF QueueInv
    <2> QED BY <2>1, <2>3, <2>4
  <1>8. CASE Reap
    <2>1. cur \in Listed
      BY <1>8 DEF Reap, WorldGo, TurnInv
    <2>2. /\ sessions' = [sessions EXCEPT ![AccountOf[cur]] = None]
          /\ queued' = StillQueued(cur)
          /\ inQueue' = [s \in Conns |-> inQueue[s] /\ s \notin LetIn(cur) \cup {cur}]
          /\ link' = [link EXCEPT ![cur] = "closed"]
          /\ kicked' = kicked
      BY <1>8 DEF Reap, Reaped, Delete, LinkClosed
    <2>3. \A x : x \in Listed' <=> x \in Listed /\ x # cur
      BY <2>1, <2>2, ListedOut
    <2>4. /\ Distinct(queued')
          /\ \A x : x \in Elems(queued') <=> x \in Elems(queued) /\ x # cur /\ x \notin LetIn(cur)
      BY <2>2, LeaveQueue DEF QueueInv
    <2>5. \A x \in Conns : inQueue'[x] <=> inQueue[x] /\ x # cur /\ x \notin LetIn(cur)
      BY <2>2
    <2>6. \A x \in Listed : link'[x] # "closed" => link[x] # "closed"
      BY <1>0, <2>2
    <2> QED BY <1>0, <2>2, <2>3, <2>4, <2>5, <2>6 DEF QueueInv
  <1> QED BY <1>2, <1>3, <1>4, <1>5, <1>6, <1>7, <1>8 DEF Next, WorldOn


\* A session is listed before it asks for anything, and its answer is its own.
LEMMA SeatStep ==
  ASSUME TypeOK, PlaceInv, TurnInv, QueueInv, AskedInv, SeatedByItsRequest, Next
  PROVE  AskedInv' /\ SeatedByItsRequest'
  <1> USE LifecycleAssumption DEF TypeOK
  <1>0. Elems(queued) \subseteq Listed /\ Listed \subseteq Conns /\ None \notin Listed /\ None \notin Conns
    BY DEF QueueInv, Listed
  <1>1. ASSUME UNCHANGED <<sessions, freed, inQueue, loading, player, asked>>
        PROVE  AskedInv' /\ SeatedByItsRequest'
    BY <1>1 DEF AskedInv, SeatedByItsRequest, Listed
  <1>2. ASSUME NEW c \in Conns, Attach(c) \/ NetOn(c) \/ Lose(c) \/ MapInput(c)
                                \/ \E p \in Packet : Route(c, p)
        PROVE  UNCHANGED <<sessions, freed, inQueue, loading, player, asked>>
    BY <1>2 DEF Attach, NetOn, Enqueue, EmptyBox, Lose, MapInput, Route, listVars, sessionVars
  <1>3. ASSUME KickAll \/ StartUpdate \/ AllListed \/ AllUpdated \/ \E a \in Accounts : Turn(a)
        PROVE  UNCHANGED <<sessions, freed, inQueue, loading, player, asked>>
    BY <1>3 DEF KickAll, StartUpdate, AllListed, AllUpdated, Turn, listVars, sessionVars
  <1>4. ASSUME NEW c \in Conns, Answer(c)
        PROVE  AskedInv' /\ SeatedByItsRequest'
    <2>1. UNCHANGED <<sessions, freed, inQueue>> /\ c \in asked /\ asked' = asked \ {c}
          /\ Listed' = Listed
      BY <1>4 DEF Answer, listVars, Listed
    <2>2. CASE sessions[AccountOf[c]] = c
      <3>1. c \in Listed
        BY <2>2, ListedWhere
      <3>2. /\ loading' = [loading EXCEPT ![c] = FALSE]
            /\ player' = player \/ player' = [player EXCEPT ![c] = c]
        BY <1>0, <1>4, <2>2 DEF Answer, Requester
      <3>3. ~inQueue[c]
        BY <2>1, <3>1 DEF AskedInv
      <3> QED BY <2>1, <3>1, <3>2, <3>3 DEF AskedInv, SeatedByItsRequest
    <2>3. CASE sessions[AccountOf[c]] # c
      <3>1. c \notin Listed
        BY <2>3, ListedWhere
      <3>2. UNCHANGED <<loading, player>>
        BY <1>4, <2>3 DEF Answer, Requester
      <3> QED BY <2>1, <3>1, <3>2 DEF AskedInv, SeatedByItsRequest
    <2> QED BY <2>2, <2>3
  <1>5. CASE NextPacket
    <2>1. cur \in Listed /\ cur \in Conns
      BY <1>0, <1>5 DEF NextPacket, WorldGo, TurnInv
    <2>2. UNCHANGED <<sessions, freed, inQueue>> /\ Listed' = Listed
      BY <1>5 DEF NextPacket, listVars, Listed
    <2>3. CASE UNCHANGED sessionVars
      BY <1>1, <2>2, <2>3 DEF sessionVars
    <2>4. CASE Login(cur) /\ ~UNCHANGED sessionVars
      <3>1. /\ ~inQueue[cur] /\ ~loading[cur] /\ player[cur] = None
            /\ loading' = [loading EXCEPT ![cur] = TRUE] /\ asked' = asked \cup {cur}
            /\ player' = player
        BY <2>4 DEF Login
      <3> QED BY <1>0, <2>1, <2>2, <3>1 DEF AskedInv, SeatedByItsRequest
    <2>5. CASE Logout(cur) /\ ~UNCHANGED sessionVars
      <3>1. /\ UNCHANGED <<loading, asked>>
            /\ player' = player \/ player' = [player EXCEPT ![cur] = None]
        BY <2>5 DEF Logout
      <3> QED BY <1>0, <2>1, <2>2, <3>1 DEF AskedInv, SeatedByItsRequest
    <2>6. Head(box[cur]) \in Packet
      BY <1>5, <2>1, HeadTailProperties DEF NextPacket, TakesPacket
    <2> QED BY <1>5, <2>3, <2>4, <2>5, <2>6 DEF NextPacket, Handle, Packet
  <1>6. CASE LiveOn
    <2>1. /\ UNCHANGED <<sessions, freed, inQueue, loading, asked>> /\ Listed' = Listed
          /\ player' = player \/ player' = [player EXCEPT ![cur] = None]
      BY <1>6 DEF LiveOn, listVars, sessionVars, Listed
    <2> QED BY <1>0, <2>1 DEF AskedInv, SeatedByItsRequest
  <1>7. CASE List
    <2>1. PICK c \in Conns \ freed :
              /\ c \notin Listed
              /\ sessions[AccountOf[c]] # c
              /\ sessions[AccountOf[c]] # None => sessions[AccountOf[c]] \in Listed
              /\ ListsFresh(c) \/ ListsInstead(c) \/ RefusesToList(c)
      BY <1>7, ListCases
    <2>2. ~loading[c] /\ c \notin asked /\ player[c] = None
      BY <1>0, <2>1 DEF AskedInv, SeatedByItsRequest
    <2>3. CASE RefusesToList(c)
      <3>1. /\ UNCHANGED <<sessions, inQueue, loading, asked>> /\ Listed' = Listed
            /\ freed' = freed \cup {c} /\ player' = [player EXCEPT ![c] = None]
        BY <2>3 DEF RefusesToList, Delete, LinkClosed, listVars, Listed
      <3> QED BY <1>0, <2>1, <2>2, <3>1 DEF AskedInv, SeatedByItsRequest
    <2>4. CASE ListsFresh(c) \/ ListsInstead(c)
      <3> DEFINE old == sessions[AccountOf[c]]
      <3>1. /\ Admit(c, old)
            /\ UNCHANGED <<loading, asked>>
            /\ \/ old = None /\ freed' = freed /\ player' = player
               \/ old # None /\ freed' = freed \cup {old} /\ player' = [player EXCEPT ![old] = None]
        BY <2>4 DEF ListsFresh, ListsInstead, Delete, LinkClosed, sessionVars
      <3>2. \A x : x \in Listed' <=> x = c \/ (x \in Listed /\ x # old)
        BY <2>1, <3>1, ListedIn DEF Admit
      <3>3. \A x \in Conns \ {c} : inQueue'[x] => inQueue[x]
        BY <3>1 DEF Admit
      <3>4. old \in Conns \cup {None} /\ (old # None => old \in Listed) /\ old # c
        BY <1>0, <2>1
      <3> HIDE DEF old
      <3>5. AskedInv'
        BY <1>0, <2>1, <2>2, <3>1, <3>2, <3>3, <3>4 DEF AskedInv
      <3>6. ASSUME NEW x \in Conns
            PROVE  /\ player'[x] \in {x, None}
                   /\ player'[x] = x => x \in Listed' /\ ~inQueue'[x] /\ ~loading'[x]
                   /\ x \in Listed' => (loading'[x] <=> x \in asked')
        <4>1. CASE x = c
          BY <1>0, <2>2, <3>1, <3>4, <4>1
        <4>2. CASE x # c
          BY <1>0, <3>1, <3>2, <3>3, <3>4, <4>2 DEF SeatedByItsRequest
        <4> QED BY <4>1, <4>2
      <3> QED BY <3>5, <3>6 DEF SeatedByItsRequest
    <2> QED BY <2>1, <2>3, <2>4
  <1>8. CASE Reap
    <2>1. cur \in Listed
      BY <1>8 DEF Reap, WorldGo, TurnInv
    <2>2. /\ sessions' = [sessions EXCEPT ![AccountOf[cur]] = None]
          /\ inQueue' = [s \in Conns |-> inQueue[s] /\ s \notin LetIn(cur) \cup {cur}]
          /\ UNCHANGED <<loading, asked>> /\ freed' = freed \cup {cur}
          /\ player' = [player EXCEPT ![cur] = None]
      BY <1>8 DEF Reap, Reaped, Delete, LinkClosed
    <2>3. \A x : x \in Listed' <=> x \in Listed /\ x # cur
      BY <2>1, <2>2, ListedOut
    <2>4. \A x \in Conns : inQueue'[x] => inQueue[x]
      BY <2>2
    <2> QED BY <1>0, <2>1, <2>2, <2>3, <2>4 DEF AskedInv, SeatedByItsRequest
  <1> QED BY <1>1, <1>2, <1>3, <1>4, <1>5, <1>6, <1>7, <1>8 DEF Next, WorldOn

\* Nobody puts a packet into a closed mailbox, and who closes it empties it.
LEMMA InsideStep ==
  ASSUME TypeOK, NothingLeftInside, Next
  PROVE  NothingLeftInside'
  <1> USE DEF TypeOK
  <1>1. ASSUME UNCHANGED <<boxClosed, net, box>>
        PROVE  NothingLeftInside'
    BY <1>1 DEF NothingLeftInside
  <1>2. ASSUME NEW c \in Conns, Answer(c) \/ \E p \in Packet : Route(c, p)
        PROVE  UNCHANGED <<boxClosed, net, box>>
    BY <1>2 DEF Answer, Route, boxVars, netVars
  <1>3. ASSUME KickAll \/ StartUpdate \/ AllListed \/ AllUpdated \/ LiveOn \/ \E a \in Accounts : Turn(a)
        PROVE  UNCHANGED <<boxClosed, net, box>>
    BY <1>3 DEF KickAll, StartUpdate, AllListed, AllUpdated, LiveOn, Turn, boxVars, netVars
  <1>4. ASSUME NEW c \in Conns, Attach(c)
        PROVE  NothingLeftInside'
    BY <1>4 DEF Attach, NetGo, boxVars, NothingLeftInside
  <1>5. ASSUME NEW c \in Conns, Enqueue(c)
        PROVE  NothingLeftInside'
    BY <1>5 DEF Enqueue, Accepted, NothingLeftInside
  <1>6. ASSUME NEW c \in Conns, Lose(c)
        PROVE  NothingLeftInside'
    BY <1>6 DEF Lose, NetGo, NothingLeftInside
  <1>7. ASSUME NEW c \in Conns, EmptyBox(c)
        PROVE  NothingLeftInside'
    <2>1. CASE box[c] = <<>>
      BY <1>7, <2>1 DEF EmptyBox, NothingLeftInside
    <2>2. CASE box[c] # <<>>
      BY <1>7, <2>2 DEF EmptyBox, NothingLeftInside
    <2> QED BY <2>1, <2>2
  <1>8. ASSUME NEW c \in Conns, MapInput(c)
        PROVE  NothingLeftInside'
    <2>1. /\ ~boxClosed[c] /\ UNCHANGED <<boxClosed, net>>
          /\ box' = [box EXCEPT ![c] = Tail(@)]
      BY <1>8 DEF MapInput, netVars
    <2> QED BY <2>1 DEF NothingLeftInside
  <1>9. CASE NextPacket
    <2>1. /\ ~boxClosed[cur] /\ UNCHANGED <<boxClosed, net>>
          /\ box' = [box EXCEPT ![cur] = Tail(@)]
      BY <1>9 DEF NextPacket, TakesPacket, netVars
    <2> QED BY <2>1 DEF NothingLeftInside
  <1>10. ASSUME NEW c, Delete(c), net' = net
         PROVE  NothingLeftInside'
    <2>1. /\ boxClosed' = [boxClosed EXCEPT ![c] = TRUE]
          /\ box' = IF boxClosed[c] THEN box ELSE [box EXCEPT ![c] = <<>>]
      BY <1>10 DEF Delete, LinkClosed
    <2> QED BY <1>10, <2>1 DEF NothingLeftInside
  <1>11. CASE Reap
    BY <1>10, <1>11 DEF Reap, netVars
  <1>12. CASE List
    <2>1. net' = net
      BY <1>12 DEF List, netVars
    <2>2. UNCHANGED boxVars \/ \E c : Delete(c)
      BY <1>12 DEF List
    <2> QED BY <1>1, <1>10, <2>1, <2>2 DEF boxVars
  <1> QED BY <1>1, <1>2, <1>3, <1>4, <1>5, <1>6, <1>7, <1>8, <1>9, <1>11, <1>12
          DEF Next, NetOn, WorldOn

-----------------------------------------------------------------------------
(* The limit.                                                              *)

\* Inside, of those listed, is who does not queue.
Inside(L, q) == {c \in L : c \notin Elems(q)}
Held(S)      == {c \in S : ~IsStaff(c)}

\* LimitKept, of any list and any queue.
KeptFor(L, q) == /\ q # <<>> => Cardinality(Inside(L, q)) >= Limit
                 /\ Cardinality(Held(Inside(L, q))) <= Limit

\* The list is finite.
LEMMA FiniteListed ==
  ASSUME TypeOK
  PROVE  IsFiniteSet(Listed) /\ Cardinality(Listed) \in Nat
  <1>1. Listed \in SUBSET Conns
    BY DEF TypeOK, Listed
  <1> QED BY <1>1, LifecycleAssumption, FS_Subset, FS_CardinalityType

\* So are its parts, and they are no larger.
LEMMA FiniteInside ==
  ASSUME NEW L, IsFiniteSet(L), NEW q
  PROVE  /\ IsFiniteSet(Inside(L, q)) /\ Cardinality(Inside(L, q)) \in Nat
         /\ Cardinality(Inside(L, q)) <= Cardinality(L)
         /\ IsFiniteSet(Held(Inside(L, q))) /\ Cardinality(Held(Inside(L, q))) \in Nat
         /\ Cardinality(Held(Inside(L, q))) <= Cardinality(Inside(L, q))
         /\ Cardinality(L) \in Nat
  <1>1. Inside(L, q) \in SUBSET L /\ Held(Inside(L, q)) \in SUBSET Inside(L, q)
    BY DEF Inside, Held
  <1>2. IsFiniteSet(Inside(L, q)) /\ Cardinality(Inside(L, q)) <= Cardinality(L)
    BY <1>1, FS_Subset
  <1>3. IsFiniteSet(Held(Inside(L, q))) /\ Cardinality(Held(Inside(L, q))) <= Cardinality(Inside(L, q))
    BY <1>1, <1>2, FS_Subset
  <1> QED BY <1>2, <1>3, FS_CardinalityType

\* Nobody is counted twice: the queue holds listed sessions, each once.
LEMMA CountInside ==
  ASSUME NEW L, IsFiniteSet(L), NEW q \in Seq(Conns), Distinct(q), Elems(q) \subseteq L
  PROVE  Cardinality(Inside(L, q)) = Cardinality(L) - Len(q)
  <1>1. IsFiniteSet(Elems(q)) /\ Cardinality(Elems(q)) = Len(q)
    BY CountElems
  <1>2. L \cap Elems(q) = Elems(q)
    OBVIOUS
  <1>3. Inside(L, q) = L \ Elems(q)
    BY DEF Inside
  <1>4. Cardinality(L \ Elems(q)) = Cardinality(L) - Cardinality(L \cap Elems(q))
    BY FS_Difference
  <1> QED BY <1>1, <1>2, <1>3, <1>4

\* Active is the number of sessions inside.
LEMMA ActiveInside ==
  ASSUME TypeOK, QueueInv
  PROVE  Active = Cardinality(Inside(Listed, queued)) /\ Active \in Nat
  <1>1. IsFiniteSet(Listed) /\ Elems(queued) \subseteq Listed
    BY FiniteListed DEF QueueInv
  <1>2. queued \in Seq(Conns) /\ Distinct(queued)
    BY DEF TypeOK, QueueInv
  <1> QED BY <1>1, <1>2, CountInside, FiniteInside DEF Active

\* LimitKept before a step, as a fact about the list and the queue.
LEMMA LimitBefore ==
  ASSUME TypeOK, QueueInv, LimitKept, Limit > 0, ~kicked
  PROVE  KeptFor(Listed, queued)
  <1>1. Held(Inside(Listed, queued)) = {c \in Listed \ Elems(queued) : ~IsStaff(c)}
    BY DEF Inside, Held
  <1> QED BY <1>1, ActiveInside DEF LimitKept, KeptFor

\* The same fact after the step gives LimitKept back.
LEMMA LimitAfter ==
  ASSUME TypeOK', QueueInv', Limit > 0 /\ ~kicked' => KeptFor(Listed', queued')
  PROVE  LimitKept'
  <1>1. Listed' \in SUBSET Conns
    BY DEF TypeOK, Listed
  <1>2. IsFiniteSet(Listed') /\ Elems(queued') \subseteq Listed'
    BY <1>1, LifecycleAssumption, FS_Subset DEF QueueInv
  <1>3. queued' \in Seq(Conns) /\ Distinct(queued')
    BY DEF TypeOK, QueueInv
  <1>4. Active' = Cardinality(Inside(Listed', queued'))
    BY <1>2, <1>3, CountInside DEF Active
  <1>5. Held(Inside(Listed', queued')) = {c \in Listed' \ Elems(queued') : ~IsStaff(c)}
    BY DEF Inside, Held
  <1> QED BY <1>4, <1>5 DEF LimitKept, KeptFor

\* A newcomer waits when the limit is reached, staff never.
LEMMA JoinKept ==
  ASSUME NEW L, IsFiniteSet(L), NEW q, NEW c, c \notin L, c \notin Elems(q), KeptFor(L, q),
         NEW M, \A x : x \in M <=> x \in L \/ x = c,
         NEW waits, waits <=> Cardinality(L) >= Limit /\ ~IsStaff(c),
         NEW r, waits => \A x : x \in Elems(r) <=> x \in Elems(q) \/ x = c,
         ~waits => r = q
  PROVE  KeptFor(M, r)
  <1> DEFINE J == Inside(L, q)
  <1>1. /\ IsFiniteSet(J) /\ Cardinality(J) \in Nat /\ Cardinality(J) <= Cardinality(L)
        /\ IsFiniteSet(Held(J)) /\ Cardinality(Held(J)) \in Nat
        /\ Cardinality(Held(J)) <= Cardinality(J) /\ Cardinality(L) \in Nat /\ Limit \in Nat
    BY FiniteInside, LifecycleAssumption
  <1>2. CASE waits
    <2>1. Inside(M, r) = J
      BY <1>2 DEF Inside
    <2>2. Cardinality(J) >= Limit
      <3>1. CASE q # <<>>
        BY <3>1 DEF KeptFor
      <3>2. CASE q = <<>>
        <4>1. J = L
          BY <3>2 DEF Inside, Elems
        <4> QED BY <1>2, <4>1
      <3> QED BY <3>1, <3>2
    <2> QED BY <2>1, <2>2 DEF KeptFor
  <1>3. CASE ~waits
    <2>1. Inside(M, r) = J \cup {c} /\ c \notin J
      BY <1>3 DEF Inside
    <2>2. IsFiniteSet(J \cup {c}) /\ Cardinality(J \cup {c}) = Cardinality(J) + 1
      BY <1>1, <2>1, FS_AddElement
    <2>3. Cardinality(Held(J \cup {c})) <= Limit
      <3>1. CASE IsStaff(c)
        <4>1. Held(J \cup {c}) = Held(J)
          BY <3>1 DEF Held
        <4> QED BY <4>1 DEF KeptFor
      <3>2. CASE ~IsStaff(c)
        <4>1. ~(Cardinality(L) >= Limit)
          BY <1>3, <3>2
        <4>2. Held(J \cup {c}) \in SUBSET (J \cup {c})
          BY DEF Held
        <4>3. Cardinality(Held(J \cup {c})) <= Cardinality(J \cup {c}) /\ Cardinality(Held(J \cup {c})) \in Nat
          BY <2>2, <4>2, FS_Subset, FS_CardinalityType
        <4> HIDE DEF J
        <4> QED BY <1>1, <2>2, <4>1, <4>3
      <3> QED BY <3>1, <3>2
    <2>4. r = q /\ (q # <<>> => Cardinality(J) >= Limit)
      BY <1>3 DEF KeptFor
    <2>5. r # <<>> => Cardinality(J \cup {c}) >= Limit
      <3> HIDE DEF J
      <3> QED BY <1>1, <2>2, <2>4
    <2> QED BY <2>1, <2>3, <2>5 DEF KeptFor
  <1> QED BY <1>2, <1>3

\* Whoever leaves makes room for one of the queue at most, and only for a
\* session that was inside.
LEMMA LeaveKept ==
  ASSUME TypeOK, QueueInv, Limit > 0, KeptFor(Listed, queued), NEW c \in Listed,
         NEW L, \A x : x \in L <=> x \in Listed /\ x # c
  PROVE  /\ KeptFor(L, StillQueued(c))
         /\ IsFiniteSet(L) /\ Cardinality(L) = Cardinality(Listed) - 1
         /\ c \in Elems(queued) => Cardinality(L) >= Limit
  <1> DEFINE I == Inside(Listed, queued)
             J == Inside(L, StillQueued(c))
  <1>1. /\ IsFiniteSet(Listed) /\ IsFiniteSet(I) /\ Cardinality(I) \in Nat
        /\ IsFiniteSet(Held(I)) /\ Cardinality(Held(I)) \in Nat /\ Limit \in Nat
        /\ Active = Cardinality(I)
    BY FiniteListed, FiniteInside, ActiveInside, LifecycleAssumption
  <1>2. L = Listed \ {c}
    OBVIOUS
  <1>3. IsFiniteSet(L) /\ Cardinality(L) = Cardinality(Listed) - 1
    BY <1>1, <1>2, FS_RemoveElement
  <1>4. /\ \A x : x \in Elems(StillQueued(c)) <=> x \in Elems(queued) /\ x # c /\ x \notin LetIn(c)
        /\ LetIn(c) \subseteq Elems(queued) \ {c}
        /\ LetIn(c) # {} => \E x : LetIn(c) = {x}
    BY LeaveQueue DEF TypeOK, QueueInv
  <1>5. queued # <<>> => Cardinality(I) >= Limit
    BY DEF KeptFor
  <1>6. Elems(queued) \subseteq Listed /\ (queued = <<>> => Elems(queued) = {})
    BY DEF QueueInv, Elems
  <1>7. CASE c \in Elems(queued)
    <2>1. queued # <<>>
      BY <1>6, <1>7
    <2>2. LetIn(c) = {}
      BY <1>1, <1>5, <1>7, <2>1 DEF LetIn, HasRoom, Rest
    <2>3. J = I
      BY <1>2, <1>4, <1>7, <2>2 DEF Inside
    <2>4. Cardinality(L) >= Cardinality(I)
      <3>1. I \in SUBSET L
        BY <1>2, <1>7 DEF Inside
      <3> QED BY <1>3, <3>1, FS_Subset
    <2>5. Cardinality(L) >= Limit
      <3>1. Cardinality(L) \in Nat
        BY <1>3, FS_CardinalityType
      <3> HIDE DEF I
      <3> QED BY <1>1, <1>5, <2>1, <2>4, <3>1
    <2> QED BY <1>3, <1>5, <2>1, <2>3, <2>5 DEF KeptFor
  <1>8. CASE c \notin Elems(queued)
    <2>1. c \in I
      BY <1>8 DEF Inside
    <2>2. /\ IsFiniteSet(I \ {c}) /\ Cardinality(I \ {c}) = Cardinality(I) - 1 /\ Cardinality(I) > 0
      <3>1. IsFiniteSet(I \ {c}) /\ Cardinality(I \ {c}) = Cardinality(I) - 1 /\ Cardinality(I \ {c}) \in Nat
        BY <1>1, <2>1, FS_RemoveElement, FS_CardinalityType
      <3> HIDE DEF I
      <3> QED BY <1>1, <3>1
    <2>3. Rest(c) = Cardinality(I) - 1 /\ Without(c) = queued
      <3> HIDE DEF I
      <3> QED BY <1>1, <1>8, <2>2 DEF Rest, Without
    <2>4. J = (I \ {c}) \cup LetIn(c)
      BY <1>2, <1>4, <1>6, <1>8 DEF Inside
    <2>5. CASE LetIn(c) = {}
      <3>1. J = I \ {c} /\ StillQueued(c) = queued
        BY <2>3, <2>4, <2>5 DEF StillQueued
      <3>2. Held(J) \in SUBSET Held(I)
        BY <3>1 DEF Held
      <3>3. Cardinality(Held(J)) <= Cardinality(Held(I)) /\ Cardinality(Held(J)) \in Nat
        BY <1>1, <3>2, FS_Subset, FS_CardinalityType
      <3>4. Cardinality(Held(J)) <= Limit
        <4>1. Cardinality(Held(I)) <= Limit
          BY DEF KeptFor
        <4> HIDE DEF I, J
        <4> QED BY <1>1, <3>3, <4>1
      <3>5. ASSUME queued # <<>> PROVE Cardinality(J) >= Limit
        <4>1. ~HasRoom(Cardinality(I) - 1)
          BY <2>3, <2>5, <3>5 DEF LetIn
        <4>2. Cardinality(J) = Cardinality(I) - 1
          BY <2>2, <3>1
        <4> HIDE DEF I, J
        <4> QED BY <1>1, <2>2, <4>1, <4>2 DEF HasRoom
      <3> QED BY <1>3, <1>8, <3>1, <3>4, <3>5 DEF KeptFor
    <2>6. CASE LetIn(c) # {}
      <3>1. PICK h : LetIn(c) = {h} /\ h \in Elems(queued)
        BY <1>4, <2>6
      <3>2. queued # <<>> /\ HasRoom(Cardinality(I) - 1)
        BY <2>3, <2>6 DEF LetIn
      <3>3. Cardinality(I) = Limit
        <4> HIDE DEF I
        <4> QED BY <1>1, <1>5, <3>2 DEF HasRoom
      <3>4. h \notin I \ {c}
        BY <3>1 DEF Inside
      <3>5. IsFiniteSet(J) /\ Cardinality(J) = Limit
        <4>1. /\ IsFiniteSet((I \ {c}) \cup {h})
              /\ Cardinality((I \ {c}) \cup {h}) = Cardinality(I \ {c}) + 1
          BY <2>2, <3>4, FS_AddElement
        <4>2. J = (I \ {c}) \cup {h}
          BY <2>4, <3>1
        <4> HIDE DEF I, J
        <4> QED BY <1>1, <2>2, <3>3, <4>1, <4>2
      <3>6. Held(J) \in SUBSET J
        BY DEF Held
      <3>7. Cardinality(Held(J)) <= Limit
        BY <3>5, <3>6, FS_Subset
      <3>8. Cardinality(J) >= Limit
        <4> HIDE DEF J
        <4> QED BY <1>1, <3>5
      <3> QED BY <1>3, <1>8, <3>7, <3>8 DEF KeptFor
    <2> QED BY <2>5, <2>6
  <1> QED BY <1>7, <1>8

\* Who is counted when a session is listed: everybody listed but its
\* account's old session.
LEMMA AdmitQueue ==
  ASSUME TypeOK, NEW c, NEW old, Admit(c, old), NEW n \in Nat,
         old = None \/ old \in Elems(queued) => n = Cardinality(Listed),
         old # None /\ old \notin Elems(queued) => n = Cardinality(Listed) - 1
  PROVE  queued' = IF Limit > 0 /\ n >= Limit /\ ~IsStaff(c)
                   THEN Append(QueueAfter(old), c) ELSE QueueAfter(old)
  <1> DEFINE total == Cardinality(Listed) + (IF old = None THEN 1 ELSE 0)
             m     == total - Counted(old)
  <1>1. queued' = IF Limit > 0 /\ m >= Limit /\ ~IsStaff(c)
                  THEN Append(QueueAfter(old), c) ELSE QueueAfter(old)
    BY DEF Admit
  <1>2. Cardinality(Listed) \in Nat
    BY FiniteListed
  <1>3. m = n
    <2>1. CASE old = None
      <3>1. total = Cardinality(Listed) + 1 /\ Counted(old) = 1
        BY <2>1 DEF Counted
      <3> HIDE DEF total
      <3> QED BY <1>2, <2>1, <3>1
    <2>2. CASE old # None
      <3>1. total = Cardinality(Listed) + 0
            /\ Counted(old) = IF old \in Elems(queued) THEN 0 ELSE 1
        BY <2>2 DEF Counted
      <3> HIDE DEF total
      <3> QED BY <1>2, <2>2, <3>1
    <2> QED BY <2>1, <2>2
  <1> HIDE DEF m
  <1> QED BY <1>1, <1>3

\* RemoveQueued() and List() keep the limit, and nothing else touches the list
\* or the queue while the world is up.
LEMMA LimitStep ==
  ASSUME TypeOK, PlaceInv, TurnInv, QueueInv, LimitKept, Next, TypeOK', QueueInv'
  PROVE  LimitKept'
  <1> SUFFICES ASSUME Limit > 0, ~kicked'
               PROVE  KeptFor(Listed', queued')
    BY LimitAfter
  <1>0. Elems(queued) \subseteq Listed /\ Listed \subseteq Conns /\ None \notin Listed
        /\ Limit \in Nat /\ queued \in Seq(Conns) /\ Distinct(queued)
    BY LifecycleAssumption DEF QueueInv, Listed, TypeOK
  <1> HIDE DEF TypeOK, QueueInv, PlaceInv, TurnInv
  <1>1. ASSUME UNCHANGED <<sessions, queued, kicked>>
        PROVE  KeptFor(Listed', queued')
    <2>1. Listed' = Listed /\ queued' = queued /\ ~kicked
      BY <1>1 DEF Listed
    <2> QED BY <2>1, LimitBefore
  <1>2. ASSUME NEW c \in Conns, Attach(c) \/ NetOn(c) \/ Lose(c) \/ MapInput(c) \/ Answer(c)
                                \/ \E p \in Packet : Route(c, p)
        PROVE  UNCHANGED <<sessions, queued, kicked>>
    BY <1>2 DEF Attach, NetOn, Enqueue, EmptyBox, Lose, MapInput, Answer, Route, listVars, worldVars
  <1>3. ASSUME StartUpdate \/ AllListed \/ AllUpdated \/ NextPacket \/ LiveOn
               \/ \E a \in Accounts : Turn(a)
        PROVE  UNCHANGED <<sessions, queued, kicked>>
    BY <1>3 DEF StartUpdate, AllListed, AllUpdated, NextPacket, LiveOn, Turn, listVars
  <1>4. ~KickAll
    BY DEF KickAll
  <1>5. CASE List
    <2>1. PICK c \in Conns \ freed :
              /\ c \notin Listed
              /\ sessions[AccountOf[c]] # c
              /\ sessions[AccountOf[c]] # None => sessions[AccountOf[c]] \in Listed
              /\ sessions[AccountOf[c]] \in (Conns \ freed) \cup {None}
              /\ ListsFresh(c) \/ ListsInstead(c) \/ RefusesToList(c)
      BY <1>5, ListCases
    <2>2. kicked' = kicked
      BY <1>5, ListCases DEF worldVars
    <2>3. KeptFor(Listed, queued)
      BY <2>2, LimitBefore
    <2>4. IsFiniteSet(Listed) /\ Cardinality(Listed) \in Nat /\ c \notin Elems(queued)
      BY <1>0, <2>1, FiniteListed
    <2> DEFINE old == sessions[AccountOf[c]]
    <2>5. CASE RefusesToList(c)
      BY <1>1, <2>2, <2>5 DEF RefusesToList, listVars
    <2>6. CASE ListsFresh(c)
      <3> DEFINE waits == Limit > 0 /\ Cardinality(Listed) >= Limit /\ ~IsStaff(c)
      <3>1. old = None /\ Admit(c, None) /\ sessions' = [sessions EXCEPT ![AccountOf[c]] = c]
        BY <2>6 DEF ListsFresh, Admit
      <3>2. queued' = IF waits THEN Append(queued, c) ELSE queued
        BY <2>4, <3>1, AdmitQueue DEF QueueAfter
      <3>3. \A x : x \in Listed' <=> x \in Listed \/ x = c
        BY <1>0, <2>1, <3>1, ListedIn
      <3>4. waits <=> Cardinality(Listed) >= Limit /\ ~IsStaff(c)
        OBVIOUS
      <3>5. waits => \A x : x \in Elems(queued') <=> x \in Elems(queued) \/ x = c
        BY <1>0, <2>4, <3>2, AppendElems
      <3>6. ~waits => queued' = queued
        BY <3>2
      <3> HIDE DEF waits
      <3> QED BY <2>1, <2>3, <2>4, <3>3, <3>4, <3>5, <3>6, JoinKept
    <2>7. CASE ListsInstead(c)
      <3> DEFINE q == StillQueued(old)
                 n == IF old \in Elems(queued) THEN Cardinality(Listed) ELSE Cardinality(Listed) - 1
                 waits == Limit > 0 /\ n >= Limit /\ ~IsStaff(c)
                 L == Listed \ {old}
      <3>1. /\ old \in Listed /\ old # None /\ Admit(c, old)
            /\ sessions' = [sessions EXCEPT ![AccountOf[c]] = c]
        BY <2>1, <2>7 DEF ListsInstead, Admit
      <3>2. queued' = IF waits THEN Append(q, c) ELSE q
        <4>1. n \in Nat
          <5>1. Cardinality(Listed \ {old}) = Cardinality(Listed) - 1 /\ Cardinality(Listed \ {old}) \in Nat
            BY <2>4, <3>1, FS_RemoveElement, FS_CardinalityType
          <5> QED BY <2>4, <5>1
        <4>2. QueueAfter(old) = q
          BY <3>1 DEF QueueAfter
        <4> HIDE DEF old, q
        <4> QED BY <3>1, <4>1, <4>2, AdmitQueue
      <3>3. /\ KeptFor(L, q) /\ IsFiniteSet(L) /\ Cardinality(L) = Cardinality(Listed) - 1
            /\ old \in Elems(queued) => Cardinality(L) >= Limit
        <4>1. \A x : x \in L <=> x \in Listed /\ x # old
          OBVIOUS
        <4> HIDE DEF L, old
        <4> QED BY <2>3, <3>1, <4>1, LeaveKept
      <3>4. q \in Seq(Conns) /\ Distinct(q) /\ c \notin Elems(q)
        BY <1>0, <2>4, LeaveQueue
      <3>5. \A x : x \in Listed' <=> x \in L \/ x = c
        BY <2>1, <3>1, ListedIn
      <3>6. c \notin L
        BY <2>1
      <3> HIDE DEF L, q, old
      <3>7. waits <=> Cardinality(L) >= Limit /\ ~IsStaff(c)
        BY <1>0, <2>4, <3>3
      <3>8. waits => \A x : x \in Elems(queued') <=> x \in Elems(q) \/ x = c
        BY <3>2, <3>4, AppendElems
      <3>9. ~waits => queued' = q
        BY <3>2
      <3> HIDE DEF waits
      <3> QED BY <3>3, <3>4, <3>5, <3>6, <3>7, <3>8, <3>9, JoinKept
    <2> QED BY <2>1, <2>5, <2>6, <2>7
  <1>6. CASE Reap
    <2>1. cur \in Listed
      BY <1>6 DEF Reap, WorldGo, TurnInv
    <2>2. /\ sessions' = [sessions EXCEPT ![AccountOf[cur]] = None]
          /\ queued' = StillQueued(cur) /\ kicked' = kicked
      BY <1>6 DEF Reap, Reaped
    <2>3. \A x : x \in Listed' <=> x \in Listed /\ x # cur
      BY <2>1, <2>2, ListedOut
    <2>4. KeptFor(Listed, queued)
      BY <2>2, LimitBefore
    <2>5. KeptFor(Listed', StillQueued(cur))
      BY <2>1, <2>3, <2>4, LeaveKept
    <2> QED BY <2>2, <2>5
  <1> QED BY <1>1, <1>2, <1>3, <1>4, <1>5, <1>6 DEF Next, WorldOn

-----------------------------------------------------------------------------
\* Nobody is there at first.
LEMMA InitIInv ==
  ASSUME Init
  PROVE  IInv
  <1> USE LifecycleAssumption DEF Init
  <1>0. Listed = {} /\ Elems(queued) = {} /\ DOMAIN queued = {} /\ Elems(addQueue) = {} /\ DOMAIN addQueue = {}
    BY DEF Listed, Elems
  <1>1. TypeOK
    <2>1. /\ net \in [Conns -> NetAt] /\ link \in [Conns -> {"none", "open", "closed"}]
          /\ routes \subseteq Conns /\ packets \in 0..MaxPackets
          /\ hand \in [Conns -> Packet \cup {None}]
      BY DEF NetAt
    <2>2. box \in [Conns -> Seq(Packet)] /\ boxClosed \in [Conns -> BOOLEAN]
      OBVIOUS
    <2>3. addQueue \in Seq(Conns \ freed) /\ queued \in Seq(Conns)
      OBVIOUS
    <2>4. /\ sessions \in [Accounts -> (Conns \ freed) \cup {None}]
          /\ inQueue \in [Conns -> BOOLEAN] /\ loading \in [Conns -> BOOLEAN]
          /\ player \in [Conns -> Conns \cup {None}] /\ leaving \in [Conns -> BOOLEAN]
      OBVIOUS
    <2>5. /\ asked \subseteq Conns /\ freed \subseteq Conns
          /\ world \in WorldAt /\ turn \subseteq Accounts
          /\ cur \in (Conns \ freed) \cup {None} /\ kicked \in BOOLEAN
      BY DEF WorldAt
    <2> QED BY <2>1, <2>2, <2>3, <2>4, <2>5 DEF TypeOK
  <1>2. PlaceInv /\ TurnInv /\ QueueInv
    BY <1>0 DEF PlaceInv, TurnInv, QueueInv, Distinct
  <1>3. AskedInv /\ SeatedByItsRequest /\ NothingLeftInside
    BY <1>0 DEF AskedInv, SeatedByItsRequest, NothingLeftInside
  <1> QED BY <1>1, <1>2, <1>3 DEF IInv

\* So nobody is counted.
LEMMA InitLimit ==
  ASSUME Init
  PROVE  LimitKept
  <1>1. Listed = {} /\ Elems(queued) = {}
    BY DEF Init, Listed, Elems
  <1>2. {c \in Listed \ Elems(queued) : ~IsStaff(c)} = {}
    BY <1>1
  <1>3. Cardinality({c \in Listed \ Elems(queued) : ~IsStaff(c)}) = 0
    BY <1>2, FS_EmptySet
  <1>4. queued = <<>> /\ Limit \in Nat
    BY LifecycleAssumption DEF Init
  <1> QED BY <1>3, <1>4 DEF LimitKept

\* The invariant the theorems rest on.
LifecycleInv == IInv /\ LimitKept

\* A step that changes nothing keeps it.
LEMMA StutterIInv ==
  ASSUME LifecycleInv, UNCHANGED vars
  PROVE  LifecycleInv'
  <1>1. Listed' = Listed /\ Active' = Active
    BY DEF vars, listVars, Listed, Active
  <1>2. TypeOK' /\ PlaceInv' /\ TurnInv' /\ QueueInv'
    BY <1>1 DEF LifecycleInv, IInv, vars, netVars, boxVars, listVars, sessionVars, worldVars,
                TypeOK, PlaceInv, TurnInv, QueueInv
  <1>3. AskedInv' /\ SeatedByItsRequest' /\ NothingLeftInside'
    BY <1>1 DEF LifecycleInv, IInv, vars, netVars, boxVars, listVars, sessionVars, worldVars,
                AskedInv, SeatedByItsRequest, NothingLeftInside
  <1>4. LimitKept'
    BY <1>1 DEF LifecycleInv, vars, listVars, worldVars, LimitKept
  <1> QED BY <1>2, <1>3, <1>4 DEF LifecycleInv, IInv

\* Every reachable state satisfies it.
THEOREM LifecycleInvariance == Spec => []LifecycleInv
  <1>1. Init => LifecycleInv
    BY InitIInv, InitLimit DEF LifecycleInv
  <1>2. LifecycleInv /\ [Next]_vars => LifecycleInv'
    <2> SUFFICES ASSUME LifecycleInv, [Next]_vars
                 PROVE  LifecycleInv'
      OBVIOUS
    <2>1. CASE Next
      <3>1. TypeOK' /\ PlaceInv' /\ TurnInv'
        BY <2>1, TypeStep, PlaceStep, TurnStep DEF LifecycleInv, IInv
      <3>2. QueueInv'
        BY <2>1, QueueStep DEF LifecycleInv, IInv
      <3>3. AskedInv' /\ SeatedByItsRequest' /\ NothingLeftInside'
        BY <2>1, SeatStep, InsideStep DEF LifecycleInv, IInv
      <3>4. LimitKept'
        BY <2>1, <3>1, <3>2, LimitStep DEF LifecycleInv, IInv
      <3> QED BY <3>1, <3>2, <3>3, <3>4 DEF LifecycleInv, IInv
    <2>2. CASE UNCHANGED vars
      BY <2>2, StutterIInv
    <2> QED BY <2>1, <2>2
  <1> QED BY <1>1, <1>2, PTL DEF Spec

\* The queue holds listed sessions, each once, and a session believes it is
\* queued exactly when it is; nobody waits while there is room and nobody is
\* let in beyond the limit; the registry lists no deleted session.
THEOREM RegistryAlwaysSound == Spec => []RegistrySound
  <1>1. LifecycleInv => RegistrySound
    <2> SUFFICES ASSUME LifecycleInv
                 PROVE  RegistrySound
      OBVIOUS
    <2>1. \A i, j \in DOMAIN queued : queued[i] \in Listed /\ (queued[i] = queued[j] => i = j)
      BY DEF LifecycleInv, IInv, QueueInv, Distinct, Elems
    <2>2. \A c \in Listed : link[c] # "closed" \/ ~kicked => (inQueue[c] <=> c \in Elems(queued))
      BY DEF LifecycleInv, IInv, QueueInv
    <2> QED BY <2>1, <2>2 DEF LifecycleInv, IInv, RegistrySound, QueueConsistent
  <1> QED BY <1>1, LifecycleInvariance, PTL

\* A player is seated by the answer to its own session's request, however many
\* sessions of the account were replaced or reaped while it was on its way.
THEOREM NobodySeatedByAnother == Spec => []SeatedByItsRequest
  <1>1. LifecycleInv => SeatedByItsRequest
    BY DEF LifecycleInv, IInv
  <1> QED BY <1>1, LifecycleInvariance, PTL

\* A mailbox is empty once it is closed and whoever closed it is through.
THEOREM ClosedMailboxEmpties == Spec => []NothingLeftInside
  <1>1. LifecycleInv => NothingLeftInside
    BY DEF LifecycleInv, IInv
  <1> QED BY <1>1, LifecycleInvariance, PTL
-----------------------------------------------------------------------------
\* The places of a session and the standing of its link, under the steps that
\* make, move or delete none.
LEMMA NobodyMoves ==
  ASSUME AccountedFor, UNCHANGED <<sessions, addQueue, freed, net, routes>>,
         \A c \in Conns : link'[c] = link[c] \/ link'[c] = "closed"
  PROVE  AccountedFor'
  BY DEF AccountedFor, Listed

\* What List() takes from the queue it lists or deletes; what it replaces it
\* deletes.
LEMMA ListForgetsNobody ==
  ASSUME TypeOK, PlaceInv, TurnInv, AccountedFor, List
  PROVE  AccountedFor'
  <1>1. PICK c \in Conns \ freed :
            /\ c \notin Listed
            /\ \A x : x \in Elems(addQueue') <=> x \in Elems(addQueue) /\ x # c
            /\ sessions[AccountOf[c]] \in (Conns \ freed) \cup {None}
            /\ ListsFresh(c) \/ ListsInstead(c) \/ RefusesToList(c)
    BY ListCases
  <1>2. UNCHANGED <<net, routes>>
    BY ListCases DEF netVars
  <1>3. link \in [Conns -> {"none", "open", "closed"}]
    BY DEF TypeOK
  <1>4. CASE RefusesToList(c)
    <2>1. /\ Listed' = Listed /\ freed' = freed \cup {c}
          /\ link' = [link EXCEPT ![c] = "closed"]
      BY <1>4 DEF RefusesToList, Delete, LinkClosed, listVars, Listed
    <2> QED BY <1>1, <1>2, <1>3, <2>1 DEF AccountedFor
  <1>5. CASE ListsFresh(c) \/ ListsInstead(c)
    <2>1. sessions' = [sessions EXCEPT ![AccountOf[c]] = c]
      BY <1>5 DEF ListsFresh, ListsInstead, Admit
    <2>2. \A x : x \in Listed' <=> x = c \/ (x \in Listed /\ x # sessions[AccountOf[c]])
      BY <1>1, <2>1, ListedIn
    <2>3. CASE ListsFresh(c)
      <3>1. freed' = freed /\ link' = link /\ sessions[AccountOf[c]] = None
        BY <2>3 DEF ListsFresh
      <3>2. None \notin Conns
        BY LifecycleAssumption
      <3> QED BY <1>1, <1>2, <2>2, <3>1, <3>2 DEF AccountedFor
    <2>4. CASE ListsInstead(c)
      <3>1. /\ freed' = freed \cup {sessions[AccountOf[c]]}
            /\ link' = [link EXCEPT ![sessions[AccountOf[c]]] = "closed"]
        BY <2>4 DEF ListsInstead, Delete, LinkClosed
      <3> QED BY <1>1, <1>2, <1>3, <2>2, <3>1 DEF AccountedFor
    <2> QED BY <1>5, <2>3, <2>4
  <1> QED BY <1>1, <1>4, <1>5

LEMMA ForgetsNobody ==
  ASSUME TypeOK, PlaceInv, TurnInv, AccountedFor, Next
  PROVE  AccountedFor'
  <1> USE DEF netVars, listVars
  <1>0. link \in [Conns -> {"none", "open", "closed"}] /\ net \in [Conns -> NetAt]
    BY DEF TypeOK
  <1>1. ASSUME NEW c \in Conns,
               Enqueue(c) \/ MapInput(c) \/ Answer(c) \/ \E p \in Packet : Route(c, p)
        PROVE  AccountedFor'
    <2>1. UNCHANGED <<sessions, addQueue, freed, net, routes>>
      BY <1>1 DEF Enqueue, MapInput, Answer, Route
    <2>2. link' = link \/ \E s : link' = [link EXCEPT ![s] = "closed"]
      BY <1>1 DEF Enqueue, MapInput, Answer, Route
    <2> QED BY <1>0, <2>1, <2>2, NobodyMoves
  <1>2. CASE \/ KickAll \/ StartUpdate \/ AllListed \/ AllUpdated \/ NextPacket \/ LiveOn
             \/ \E a \in Accounts : Turn(a)
    <2>1. UNCHANGED <<sessions, addQueue, freed, net, routes>>
      BY <1>2 DEF KickAll, StartUpdate, AllListed, AllUpdated, NextPacket, LiveOn, Turn
    <2>2. \A c \in Conns : link'[c] = link[c] \/ link'[c] = "closed"
      BY <1>2 DEF KickAll, StartUpdate, AllListed, AllUpdated, NextPacket, LiveOn, Turn
    <2> QED BY <2>1, <2>2, NobodyMoves
  <1>3. ASSUME NEW c \in Conns, Attach(c)
        PROVE  AccountedFor'
    <2>1. /\ net[c] = "auth" /\ net' = [net EXCEPT ![c] = "live"]
          /\ link' = [link EXCEPT ![c] = "open"] /\ routes' = routes \cup {c}
          /\ addQueue' = Append(addQueue, c) /\ UNCHANGED <<sessions, freed>>
      BY <1>3 DEF Attach, NetGo
    <2>2. c \notin Elems(addQueue) /\ c \in Conns \ freed /\ addQueue \in Seq(Conns \ freed)
      BY <2>1 DEF PlaceInv, TypeOK
    <2>3. \A x : x \in Elems(addQueue') <=> x \in Elems(addQueue) \/ x = c
      BY <2>1, <2>2, AppendElems DEF PlaceInv
    <2>4. Listed' = Listed
      BY <2>1 DEF Listed
    <2> QED BY <1>0, <2>1, <2>2, <2>3, <2>4 DEF AccountedFor
  <1>4. ASSUME NEW c \in Conns, Lose(c)
        PROVE  AccountedFor'
    <2>1. /\ net[c] = "live" /\ \E g \in {"gone", "emptying"} : net' = [net EXCEPT ![c] = g]
          /\ link' = [link EXCEPT ![c] = "closed"] /\ routes' = routes \ {c}
          /\ UNCHANGED <<sessions, addQueue, freed>>
      BY <1>4 DEF Lose, NetGo
    <2>2. Listed' = Listed
      BY <2>1 DEF Listed
    <2> QED BY <1>0, <2>1, <2>2 DEF AccountedFor
  <1>5. ASSUME NEW c \in Conns, EmptyBox(c)
        PROVE  AccountedFor'
    <2>1. /\ net[c] = "emptying" /\ (net' = net \/ net' = [net EXCEPT ![c] = "gone"])
          /\ UNCHANGED <<sessions, addQueue, freed, link, routes>>
      BY <1>5 DEF EmptyBox
    <2>2. Listed' = Listed
      BY <2>1 DEF Listed
    <2> QED BY <1>0, <2>1, <2>2 DEF AccountedFor
  <1>6. CASE List
    BY <1>6, ListForgetsNobody
  <1>7. CASE Reap
    <2>1. cur \in Listed
      BY <1>7 DEF Reap, WorldGo, TurnInv
    <2>2. /\ sessions' = [sessions EXCEPT ![AccountOf[cur]] = None]
          /\ freed' = freed \cup {cur} /\ link' = [link EXCEPT ![cur] = "closed"]
          /\ UNCHANGED <<net, routes, addQueue>>
      BY <1>7 DEF Reap, Reaped, Delete, LinkClosed
    <2>3. \A x : x \in Listed' <=> x \in Listed /\ x # cur
      BY <2>1, <2>2, ListedOut
    <2> QED BY <1>0, <2>1, <2>2, <2>3 DEF AccountedFor
  <1> QED BY <1>1, <1>2, <1>3, <1>4, <1>5, <1>6, <1>7 DEF Next, NetOn, WorldOn

\* No session is lost between the network and the world thread, however
\* connections come, replace each other and go; and the network hears of each
\* that the world thread deletes.
THEOREM SessionsAccountedFor == Spec => []NobodyForgotten
  <1>1. Init => AccountedFor
    BY DEF Init, AccountedFor
  <1>2. LifecycleInv /\ AccountedFor /\ [Next]_vars => AccountedFor'
    <2> SUFFICES ASSUME LifecycleInv, AccountedFor, [Next]_vars
                 PROVE  AccountedFor'
      OBVIOUS
    <2>1. CASE Next
      BY <2>1, ForgetsNobody DEF LifecycleInv, IInv
    <2>2. CASE UNCHANGED vars
      BY <2>2, NobodyMoves DEF vars, netVars, listVars
    <2> QED BY <2>1, <2>2
  <1> QED BY <1>1, <1>2, LifecycleInvariance, ClosedMailboxEmpties, PTL DEF Spec, NobodyForgotten
=============================================================================
