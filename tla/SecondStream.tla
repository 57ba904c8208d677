---------------------------- MODULE SecondStream ----------------------------
(***************************************************************************)
(* How a session gets, loses and regains its second world stream: the      *)
(* redirect that WorldSession drives once per update (UpdateSecondStream,  *)
(* src/src/game/session/WorldSession.cpp), the registry of redirects in    *)
(* flight (src/src/proto/RedirectRegistry.cpp) and the sockets that come   *)
(* to the stream-1 port (src/src/proto/ClientConnection.cpp).              *)
(*                                                                         *)
(* All Sessions share one client address, the only thing a new socket is   *)
(* known by; sessions at other addresses do not meet.  An update of a      *)
(* session stops after each call that takes a lock another thread wants,   *)
(* so that sockets claim tickets and attach between any two of them.       *)
(*                                                                         *)
(* Generations are compared with the last announced one and with nothing   *)
(* else, so a ticket or a socket only remembers whether its generation is  *)
(* still that one ("current").  The packets on stream 1 are the subject of *)
(* SessionLinks, whose operations are single steps here.                   *)
(***************************************************************************)
EXTENDS Naturals, FiniteSets

CONSTANTS Sessions,     \* the sessions behind one address
          Sockets,      \* connections to the stream-1 port
          MaxAttempts,  \* MAX_SECOND_STREAM_ATTEMPTS
          MaxLogins     \* bound: times a session's client enters the world

Nobody == "none"

ASSUME StreamAssumption == /\ Nobody \notin Sessions \cup Sockets
                           /\ MaxAttempts \in Nat \ {0}
                           /\ MaxLogins \in Nat

VARIABLES
  registry,    \* RedirectRegistry::m_entries, all of one address
  at,          \* where each socket is
  bound,       \* the session whose ticket it claimed
  opener,      \* the session whose client opened it, and whose key it proves
  current,     \* its generation is the one its session awaits
  one,         \* SessionLinks::m_one
  zero,        \* stream 0 is open
  told,        \* a redirect is on its way to the client or unanswered
  mail,        \* CMSG_PLAYER_LOGIN in the mailbox
  deferred,    \* m_deferredLogin
  character,   \* "out", "loading" (m_playerLoading) or "in" (GetPlayer())
  logins,      \* logins the client may still send
  wanted,      \* m_secondStreamWanted
  recovering,  \* m_secondStreamRecovering
  attempts,    \* m_secondStreamAttempts
  wait,        \* m_secondStreamDeadline: "none", "armed" or "due"
  pc           \* where the update of each session is

socket  == <<at, bound, opener, current>>
login   == <<mail, deferred, character, logins>>
stream  == <<wanted, recovering, attempts, wait>>
streamVars == <<registry, socket, one, zero, told, login, stream, pc>>

Ticket == [session : Sessions, current : BOOLEAN]

StreamTypeOK ==
  /\ registry \subseteq Ticket
  /\ at \in [Sockets -> {"new", "staging", "live", "dying", "gone"}]
  /\ bound \in [Sockets -> Sessions \cup {Nobody}]
  /\ opener \in [Sockets -> Sessions \cup {Nobody}]
  /\ current \in [Sockets -> BOOLEAN]
  /\ one \in [Sessions -> Sockets \cup {Nobody}]
  /\ zero \in [Sessions -> BOOLEAN]
  /\ told \in [Sessions -> BOOLEAN]
  /\ mail \in [Sessions -> BOOLEAN]
  /\ deferred \in [Sessions -> BOOLEAN]
  /\ character \in [Sessions -> {"out", "loading", "in"}]
  /\ logins \in [Sessions -> 0..MaxLogins]
  /\ wanted \in [Sessions -> BOOLEAN]
  /\ recovering \in [Sessions -> BOOLEAN]
  /\ attempts \in [Sessions -> 0..MaxAttempts]
  /\ wait \in [Sessions -> {"none", "armed", "due"}]
  /\ pc \in [Sessions -> {"idle", "relog", "expect", "withdraw", "open", "build", "gone"}]

StreamInit ==
  /\ registry = {}
  /\ at = [c \in Sockets |-> "new"]
  /\ bound = [c \in Sockets |-> Nobody]
  /\ opener = [c \in Sockets |-> Nobody]
  /\ current = [c \in Sockets |-> FALSE]
  /\ one = [s \in Sessions |-> Nobody]
  /\ zero = [s \in Sessions |-> TRUE]
  /\ told = [s \in Sessions |-> FALSE]
  /\ mail = [s \in Sessions |-> FALSE]
  /\ deferred = [s \in Sessions |-> FALSE]
  /\ character = [s \in Sessions |-> "out"]
  /\ logins = [s \in Sessions |-> MaxLogins]
  /\ wanted = [s \in Sessions |-> FALSE]
  /\ recovering = [s \in Sessions |-> FALSE]
  /\ attempts = [s \in Sessions |-> 0]
  /\ wait = [s \in Sessions |-> "none"]
  /\ pc = [s \in Sessions |-> "idle"]

\* IsSlotLive(LinkSlot::One): attached and not closed.
Live(s) == one[s] # Nobody /\ at[one[s]] = "live"

Withdrawn(s) == {t \in registry : t.session # s}      \* RedirectRegistry::Cancel
-----------------------------------------------------------------------------
(* The client on stream 0.                                                 *)

\* The client picks a character and waits.
SendLogin(s) ==
  /\ zero[s] /\ logins[s] > 0
  /\ character[s] = "out" /\ ~mail[s] /\ ~deferred[s] /\ pc[s] = "idle"
  /\ mail' = [mail EXCEPT ![s] = TRUE]
  /\ logins' = [logins EXCEPT ![s] = @ - 1]
  /\ UNCHANGED <<registry, socket, one, zero, told, deferred, character, stream, pc>>

\* HandleConnectToFailed: the client could not act on the redirect.
ConnectToFailed(s) ==
  /\ told[s] /\ zero[s] /\ pc[s] = "idle"
  /\ told' = [told EXCEPT ![s] = FALSE]
  /\ wait' = [wait EXCEPT ![s] = "none"]
  /\ UNCHANGED <<registry, socket, one, zero, login, wanted, recovering, attempts, pc>>

LoseZero(s) ==
  /\ zero[s]
  /\ zero' = [zero EXCEPT ![s] = FALSE]
  /\ UNCHANGED <<registry, socket, one, told, login, stream, pc>>
-----------------------------------------------------------------------------
(* WorldSession::Update: the login packet.                                 *)

BeginSecondStream(s) ==
  /\ deferred' = [deferred EXCEPT ![s] = TRUE]
  /\ attempts' = [attempts EXCEPT ![s] = 0]
  /\ wait' = [wait EXCEPT ![s] = "none"]

\* Without a second stream the login is held, and opens one.
DeferLogin(s) ==
  /\ pc[s] = "idle" /\ zero[s] /\ mail[s]
  /\ ~Live(s)
  /\ mail' = [mail EXCEPT ![s] = FALSE]
  /\ BeginSecondStream(s)
  /\ UNCHANGED <<registry, socket, one, zero, told, character, logins, wanted, recovering, pc>>

\* HandlePlayerLoginOpcode
RunLogin(s) ==
  /\ pc[s] = "idle" /\ zero[s] /\ mail[s]
  /\ Live(s)
  /\ mail' = [mail EXCEPT ![s] = FALSE]
  /\ character' = [character EXCEPT ![s] = IF @ = "out" THEN "loading" ELSE @]
  /\ UNCHANGED <<registry, socket, one, zero, told, deferred, logins, stream, pc>>

\* KickPlayer: SessionLinks::Close shuts stream 1, then stream 0.
Kick(s) ==
  /\ zero' = [zero EXCEPT ![s] = FALSE]
  /\ at' = IF Live(s) THEN [at EXCEPT ![one[s]] = "dying"] ELSE at

\* HandlePlayerLogin, when the character has been read: it enters the world,
\* or cannot be loaded and the client is kicked.
Loaded(s) ==
  /\ pc[s] = "idle" /\ character[s] = "loading"
  /\ character' = [character EXCEPT ![s] = "in"]
  /\ UNCHANGED <<registry, socket, one, zero, told, mail, deferred, logins, stream, pc>>

NotLoaded(s) ==
  /\ pc[s] = "idle" /\ character[s] = "loading"
  /\ character' = [character EXCEPT ![s] = "out"]
  /\ Kick(s)
  /\ UNCHANGED <<registry, bound, opener, current, one, told, mail, deferred, logins, stream, pc>>

\* LogoutPlayer: back to the character screen, with both streams.
LogoutPlayer(s) ==
  /\ pc[s] = "idle" /\ zero[s] /\ character[s] = "in"
  /\ character' = [character EXCEPT ![s] = "out"]
  /\ wanted' = [wanted EXCEPT ![s] = FALSE]
  /\ recovering' = [recovering EXCEPT ![s] = FALSE]
  /\ UNCHANGED <<registry, socket, one, zero, told, mail, deferred, logins, attempts, wait, pc>>
-----------------------------------------------------------------------------
(* WorldSession::UpdateSecondStream.                                       *)

\* A player in the world who has had a second stream is owed one.
Owed(s) == ~deferred[s] /\ wanted[s] /\ character[s] = "in" /\ zero[s]

Recovered(s) ==
  /\ pc[s] = "idle" /\ Owed(s)
  /\ Live(s) /\ recovering[s]
  /\ recovering' = [recovering EXCEPT ![s] = FALSE]
  /\ UNCHANGED <<registry, socket, one, zero, told, login, wanted, attempts, wait, pc>>

\* The stream was lost: a new budget, and the deadline is over.
StartRecovery(s) ==
  /\ pc[s] = "idle" /\ Owed(s)
  /\ ~Live(s) /\ ~recovering[s]
  /\ recovering' = [recovering EXCEPT ![s] = TRUE]
  /\ attempts' = [attempts EXCEPT ![s] = 0]
  /\ wait' = [wait EXCEPT ![s] = "none"]
  /\ pc' = [pc EXCEPT ![s] = "expect"]
  /\ UNCHANGED <<registry, socket, one, zero, told, login, wanted>>

\* No stream and the deadline is over.
Waited(s) == /\ pc[s] = "idle"
             /\ deferred[s] \/ (Owed(s) /\ recovering[s])
             /\ ~Live(s)
             /\ wait[s] # "armed"

BudgetLeft(s)    == attempts[s] < MaxAttempts

TryAgain(s) ==
  /\ Waited(s)
  /\ BudgetLeft(s)
  /\ pc' = [pc EXCEPT ![s] = "expect"]
  /\ UNCHANGED <<registry, socket, one, zero, told, login, stream>>

GiveUp(s) ==
  /\ Waited(s)
  /\ ~BudgetLeft(s)
  /\ deferred' = [deferred EXCEPT ![s] = FALSE]
  /\ Kick(s)
  /\ UNCHANGED <<registry, bound, opener, current, one, told, mail, character, logins, stream, pc>>

\* ++m_secondStreamGeneration and ExpectSlotOne: what answers an earlier
\* redirect is void from here on.
SocketsVoid(s) == [c \in Sockets |-> current[c] /\ bound[c] # s]

TicketsVoid(s) == {[t EXCEPT !.current = @ /\ t.session # s] : t \in registry}

Expect(s) ==
  /\ pc[s] = "expect"
  /\ registry' = TicketsVoid(s)
  /\ current' = SocketsVoid(s)
  /\ pc' = [pc EXCEPT ![s] = "withdraw"]
  /\ UNCHANGED <<at, bound, opener, one, zero, told, login, stream>>

\* CancelSecondStream, and the deadline of the new redirect.
Withdraw(s) ==
  /\ pc[s] = "withdraw"
  /\ registry' = Withdrawn(s)
  /\ wait' = [wait EXCEPT ![s] = "armed"]
  /\ pc' = [pc EXCEPT ![s] = "open"]
  /\ UNCHANGED <<socket, one, zero, told, login, wanted, recovering, attempts>>

AddressFree     == registry = {}

\* RedirectRegistry::Open, refused (Busy) while the address has a redirect
\* in flight; that costs no attempt.
Open(s) ==
  /\ pc[s] = "open"
  /\ IF AddressFree
       THEN /\ registry' = registry \cup {[session |-> s, current |-> TRUE]}
            /\ pc' = [pc EXCEPT ![s] = "build"]
       ELSE /\ registry' = registry
            /\ pc' = [pc EXCEPT ![s] = "idle"]
  /\ UNCHANGED <<socket, one, zero, told, login, stream>>

\* BuildConnectTo succeeds and the redirect goes out on stream 0 (Sent) ...
Send(s) ==
  /\ pc[s] = "build"
  /\ told' = [told EXCEPT ![s] = zero[s]]
  /\ attempts' = [attempts EXCEPT ![s] = @ + 1]
  /\ pc' = [pc EXCEPT ![s] = "idle"]
  /\ UNCHANGED <<registry, socket, one, zero, login, wanted, recovering, wait>>

\* ... or fails, and the ticket is withdrawn (Failed).
FailedAttempts(s) == attempts[s]               \* mutant: a failure is not counted
AfterFailure(s)   == attempts[s] + 1

CannotSign(s) ==
  /\ pc[s] = "build"
  /\ registry' = Withdrawn(s)
  /\ attempts' = [attempts EXCEPT ![s] = AfterFailure(s)]
  /\ pc' = [pc EXCEPT ![s] = "idle"]
  /\ UNCHANGED <<socket, one, zero, told, login, wanted, recovering, wait>>

\* The client came back while its login was held.
SeeStream(s) ==
  /\ pc[s] = "idle" /\ deferred[s] /\ Live(s)
  /\ pc' = [pc EXCEPT ![s] = "relog"]
  /\ UNCHANGED <<registry, socket, one, zero, told, login, stream>>

WantedForgotten(s) == wanted                   \* mutant: the stream is not asked back
WantedNow(s)       == [wanted EXCEPT ![s] = TRUE]

Relog(s) ==
  /\ pc[s] = "relog"
  /\ registry' = Withdrawn(s)
  /\ mail' = [mail EXCEPT ![s] = TRUE]
  /\ deferred' = [deferred EXCEPT ![s] = FALSE]
  /\ wanted' = WantedNow(s)
  /\ pc' = [pc EXCEPT ![s] = "idle"]
  /\ UNCHANGED <<socket, one, zero, told, character, logins, recovering, attempts, wait>>

\* Stream 0 is gone: Update drops the links, the session is removed and its
\* destructor withdraws the ticket; its other fields go with it.
AfterSession(s) == Withdrawn(s)

EndSession(s) ==
  /\ pc[s] = "idle" /\ ~zero[s]
  /\ pc' = [pc EXCEPT ![s] = "gone"]
  /\ registry' = AfterSession(s)
  /\ one' = [one EXCEPT ![s] = Nobody]
  /\ character' = [character EXCEPT ![s] = "out"]
  /\ deferred' = [deferred EXCEPT ![s] = FALSE]
  /\ mail' = [mail EXCEPT ![s] = FALSE]
  /\ told' = [told EXCEPT ![s] = FALSE]
  /\ logins' = [logins EXCEPT ![s] = 0]
  /\ wanted' = [wanted EXCEPT ![s] = FALSE]
  /\ recovering' = [recovering EXCEPT ![s] = FALSE]
  /\ attempts' = [attempts EXCEPT ![s] = 0]
  /\ wait' = [wait EXCEPT ![s] = "none"]
  /\ UNCHANGED <<socket, zero>>
-----------------------------------------------------------------------------
(* The sockets of the stream-1 port.                                       *)

AfterPeek(t)  == registry                      \* mutant: the ticket stays
AfterClaim(t) == registry \ {t}

\* A client follows its redirect; the socket claims whatever ticket its
\* address has, or is closed.
Claim(c, s) ==
  /\ at[c] = "new" /\ told[s] /\ pc[s] # "gone"
  /\ told' = [told EXCEPT ![s] = FALSE]
  /\ opener' = [opener EXCEPT ![c] = s]
  /\ \E t \in registry :
       /\ registry' = AfterClaim(t)
       /\ bound' = [bound EXCEPT ![c] = t.session]
       /\ current' = [current EXCEPT ![c] = t.current]
  /\ at' = [at EXCEPT ![c] = "staging"]
  /\ UNCHANGED <<one, zero, login, stream, pc>>

NoTicket(c, s) ==
  /\ at[c] = "new" /\ told[s] /\ pc[s] # "gone"
  /\ registry = {}
  /\ told' = [told EXCEPT ![s] = FALSE]
  /\ opener' = [opener EXCEPT ![c] = s]
  /\ at' = [at EXCEPT ![c] = "dying"]
  /\ UNCHANGED <<registry, bound, current, one, zero, login, stream, pc>>

ProvenByAddress(c) == TRUE                     \* mutant: the digest is not checked
Proven(c)          == opener[c] = bound[c]

\* CMSG_AUTH_CONTINUED_SESSION: the key is proved, the session still has its
\* links and the redirect is the awaited one.
Continued(c) == Proven(c) /\ pc[bound[c]] # "gone" /\ current[c]

Promote(c) ==
  /\ at[c] = "staging"
  /\ Continued(c)
  /\ one' = [one EXCEPT ![bound[c]] = c]
  /\ at' = [at EXCEPT ![c] = "live"]
  /\ UNCHANGED <<registry, bound, opener, current, zero, told, login, stream, pc>>

Refuse(c) ==
  /\ at[c] = "staging"
  /\ ~Continued(c)
  /\ at' = [at EXCEPT ![c] = "dying"]
  /\ UNCHANGED <<registry, bound, opener, current, one, zero, told, login, stream, pc>>

Die(c) ==
  /\ at[c] \in {"staging", "live"}
  /\ at' = [at EXCEPT ![c] = "dying"]
  /\ UNCHANGED <<registry, bound, opener, current, one, zero, told, login, stream, pc>>

Detach(c) ==
  /\ at[c] = "dying"
  /\ at' = [at EXCEPT ![c] = "gone"]
  /\ one' = [s \in Sessions |-> IF one[s] = c THEN Nobody ELSE one[s]]
  /\ UNCHANGED <<registry, bound, opener, current, zero, told, login, stream, pc>>
-----------------------------------------------------------------------------
(* Time: the session's deadline was set first, so its ticket outlives it.  *)

TimePasses(s) ==
  /\ wait[s] = "armed"
  /\ wait' = [wait EXCEPT ![s] = "due"]
  /\ UNCHANGED <<registry, socket, one, zero, told, login, wanted, recovering, attempts, pc>>

Lapse(t) ==
  /\ wait[t.session] # "armed"
  /\ registry' = registry \ {t}
  /\ UNCHANGED <<socket, one, zero, told, login, stream, pc>>
-----------------------------------------------------------------------------
UpdateStep(s) ==
  \/ DeferLogin(s) \/ RunLogin(s) \/ Recovered(s) \/ StartRecovery(s)
  \/ TryAgain(s) \/ GiveUp(s) \/ Expect(s) \/ Withdraw(s) \/ Open(s)
  \/ Send(s) \/ CannotSign(s) \/ SeeStream(s) \/ Relog(s) \/ EndSession(s)

AnswerSocket(c) == Promote(c) \/ Refuse(c)

StreamNext ==
  \/ \E s \in Sessions : \/ UpdateStep(s)
                         \/ Loaded(s) \/ NotLoaded(s) \/ LogoutPlayer(s) \/ TimePasses(s)
                         \/ SendLogin(s) \/ ConnectToFailed(s) \/ LoseZero(s)
                         \/ \E c \in Sockets : Claim(c, s) \/ NoTicket(c, s)
  \/ \E c \in Sockets : AnswerSocket(c) \/ Die(c) \/ Detach(c)
  \/ \E t \in registry : Lapse(t)

StreamSpec == StreamInit /\ [][StreamNext]_streamVars

\* Sessions are updated, characters are read, clocks run, and a socket that
\* died is detached.  Clients owe nothing: they need not follow a redirect,
\* complete a handshake, log out or leave.
StreamFairness ==
  /\ \A s \in Sessions : /\ WF_streamVars(UpdateStep(s))
                         /\ WF_streamVars(Loaded(s) \/ NotLoaded(s))
                         /\ WF_streamVars(TimePasses(s))
  /\ \A c \in Sockets : WF_streamVars(Detach(c))
  /\ WF_streamVars(\E t \in registry : Lapse(t))

StreamFairSpec == StreamSpec /\ StreamFairness
-----------------------------------------------------------------------------
(***************************************************************************)
(* Properties                                                              *)
(***************************************************************************)

\* One redirect in flight per address, and it is that of a session that
\* exists: a session that is gone does not keep its neighbours waiting.
OneRedirectInFlight ==
  /\ Cardinality(registry) <= 1
  /\ \A t \in registry : pc[t.session] # "gone"

\* The second stream of a session is a socket its own client opened, even
\* when sockets from one address claim each other's tickets.
StreamIsOurs ==
  \A s \in Sessions : one[s] # Nobody => bound[one[s]] = s /\ opener[one[s]] = s

\* At most one socket or ticket may still become a session's stream: a
\* ticket is consumed by one connection, and a reissue voids what came
\* before it.
OneCandidate ==
  \A s \in Sessions :
    Cardinality({t \in registry : t.session = s /\ t.current})
      + Cardinality({c \in Sockets : bound[c] = s /\ current[c]}) <= 1

\* Of all the sockets and tickets about, one at a time may become a stream.
TicketsSingle == StreamTypeOK /\ OneRedirectInFlight /\ OneCandidate

\* A login that is held is run or the client is kicked: the attempts are
\* bounded, and a busy address only delays it.  This takes that streams do not
\* fall for ever, as Sockets are finitely many: each time the stream a login was
\* held for falls before the login is run, it is held again with a new budget.
LoginSettles ==
  \A s \in Sessions : deferred[s] \/ mail[s] ~> character[s] # "out" \/ ~zero[s]

\* A player in the world without a second stream gets one, or is kicked, or
\* leaves: nobody stays in the world with half the traffic undelivered.
Settled(s) == character[s] # "in" \/ ~zero[s] \/ Live(s)

\* What the comment beside m_secondStreamWanted (WorldSession.h:787-788) promises
\* every player: losing stream 1 is "a fault to recover from, not a state to sit
\* in".  The code does not keep it.
EveryLossRecovered == \A s \in Sessions : ~Settled(s) ~> Settled(s)

\* The code keeps it for a character whose login was held for a stream, which
\* that of the first one always is.  A later login over a stream still open is
\* not held, and logout took the promise of the one before it away.
FirstCharacter(s) == logins[s] = MaxLogins - 1

LossRecovered ==
  \A s \in Sessions :
    ~Settled(s) /\ (FirstCharacter(s) \/ wanted[s]) ~> Settled(s)
=============================================================================
