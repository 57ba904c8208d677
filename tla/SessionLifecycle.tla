-------------------------- MODULE SessionLifecycle --------------------------
(***************************************************************************)
(* A client's session from the handshake to its deletion: WorldGateway     *)
(* makes it on the connection's network thread and hands it over,          *)
(* SessionRegistry lists it, replaces the account's old one, lets it in or *)
(* queues it, updates and deletes it on the world thread, and the          *)
(* SessionMailbox between them takes the client's packets.                 *)
(*                                                                         *)
(* A connection and its session have one name, which is also the session   *)
(* id.  The second stream and the login held for it are in SecondStream;   *)
(* here a login runs when the session comes to it.                         *)
(*                                                                         *)
(* Steps are fused where nobody can tell: a link that closes after the     *)
(* world thread looked at it and before it takes a packet might as well    *)
(* have closed after; a packet that reaches a mailbox whose route is gone  *)
(* might as well have reached it before; the world thread looks at a link  *)
(* that onClose() marked no sooner than Detach() is on its way; and what   *)
(* ~WorldSession does, the emptying of the mailbox included, is one step.  *)
(***************************************************************************)
EXTENDS Integers, Sequences, FiniteSets

CONSTANTS Conns, Accounts, None,
          AccountOf,    \* the account each connection logs in to
          Staff,        \* accounts above SEC_PLAYER: not held by the limit
          Limit,        \* m_playerLimit, set before anybody came; 0: none
          MaxPackets    \* packets a client sends

ASSUME LifecycleAssumption ==
  /\ AccountOf \in [Conns -> Accounts] /\ IsFiniteSet(Conns)
  /\ None \notin Conns \cup Accounts
  /\ Staff \subseteq Accounts
  /\ Limit \in Nat /\ MaxPackets \in Nat

VARIABLES
  net,       \* where the connection's network thread is
  link,      \* "none", "open", "closed": the stream-0 link
  routes,    \* WorldGateway::m_routes
  hand,      \* a packet Deliver() has a mailbox for and not enqueued yet
  packets,   \* packets sent so far
  box,       \* SessionMailbox::m_packets
  boxClosed, \* SessionMailbox::m_closed
  addQueue,  \* SessionRegistry::m_addQueue
  sessions,  \* SessionRegistry::m_sessions
  queued,    \* SessionRegistry::m_queued
  inQueue, loading, player, leaving,   \* fields of the WorldSession
  asked,     \* sessions whose login queries are on their way
  freed,     \* sessions deleted
  world,     \* where the world thread is; "tick": outside SessionRegistry::Update
  turn,      \* accounts SessionRegistry::Update has not reached
  cur,       \* the session being updated
  kicked     \* KickAll() was called

netVars     == <<net, routes, hand, packets>>
boxVars     == <<box, boxClosed>>
listVars    == <<sessions, queued, inQueue>>
sessionVars == <<loading, player, leaving, asked>>
worldVars   == <<world, turn, cur, kicked>>
vars == <<netVars, link, boxVars, addQueue, listVars, sessionVars,
          freed, worldVars>>

Packet  == {"login", "logout", "move"}
NetAt   == {"auth", "live", "emptying", "gone"}
WorldAt == {"tick", "list", "update", "session", "down"}

Elems(q)  == {q[i] : i \in DOMAIN q}
Listed     == {sessions[a] : a \in Accounts} \ {None}
Active     == Cardinality(Listed) - Len(queued)
IsStaff(c) == AccountOf[c] \in Staff

\* The registry holds no deleted session.
TypeOK ==
  /\ net \in [Conns -> NetAt]
  /\ link \in [Conns -> {"none", "open", "closed"}]
  /\ routes \subseteq Conns /\ packets \in 0..MaxPackets
  /\ hand \in [Conns -> Packet \cup {None}]
  /\ box \in [Conns -> Seq(Packet)] /\ boxClosed \in [Conns -> BOOLEAN]
  /\ addQueue \in Seq(Conns \ freed)
  /\ sessions \in [Accounts -> (Conns \ freed) \cup {None}]
  /\ queued \in Seq(Conns)
  /\ inQueue \in [Conns -> BOOLEAN] /\ loading \in [Conns -> BOOLEAN]
  /\ player \in [Conns -> Conns \cup {None}] /\ leaving \in [Conns -> BOOLEAN]
  /\ asked \subseteq Conns /\ freed \subseteq Conns
  /\ world \in WorldAt /\ turn \subseteq Accounts
  /\ cur \in (Conns \ freed) \cup {None}
  /\ kicked \in BOOLEAN

Init ==
  /\ net = [c \in Conns |-> "auth"] /\ link = [c \in Conns |-> "none"]
  /\ routes = {} /\ hand = [c \in Conns |-> None] /\ packets = 0
  /\ box = [c \in Conns |-> <<>>] /\ boxClosed = [c \in Conns |-> FALSE]
  /\ addQueue = <<>> /\ sessions = [a \in Accounts |-> None] /\ queued = <<>>
  /\ inQueue = [c \in Conns |-> FALSE] /\ loading = [c \in Conns |-> FALSE]
  /\ player = [c \in Conns |-> None] /\ leaving = [c \in Conns |-> FALSE]
  /\ asked = {} /\ freed = {}
  /\ world = "tick" /\ turn = {} /\ cur = None /\ kicked = FALSE

-----------------------------------------------------------------------------
(* The network threads: WorldGateway.                                      *)

NetGo(c, from, to) == net[c] = from /\ net' = [net EXCEPT ![c] = to]

\* Attach(): session, mailbox and route; then SessionRegistry::Add(), which
\* waits while the registry lists what was added before.
Attach(c) ==
  /\ NetGo(c, "auth", "live")
  /\ world \notin {"list", "down"}
  /\ link' = [link EXCEPT ![c] = "open"]
  /\ routes' = routes \cup {c}
  /\ addQueue' = Append(addQueue, c)
  /\ UNCHANGED <<hand, packets, boxVars, listVars, sessionVars, freed,
                 worldVars>>

\* Deliver(), from either stream's thread: the route, then the mailbox.  A
\* client sends the other packets once it is in the world.
Route(c, p) ==
  /\ p = "login" \/ player[c] # None
  /\ c \in routes /\ hand[c] = None /\ packets < MaxPackets
  /\ hand' = [hand EXCEPT ![c] = p]
  /\ packets' = packets + 1
  /\ UNCHANGED <<net, routes, link, boxVars, addQueue, listVars,
                 sessionVars, freed, worldVars>>

AcceptedAlways(c) == TRUE    \* mutant: the flag is not looked at
Accepted(c)       == ~boxClosed[c]

Enqueue(c) ==
  /\ hand[c] # None
  /\ box' = IF Accepted(c) THEN [box EXCEPT ![c] = Append(@, hand[c])] ELSE box
  /\ hand' = [hand EXCEPT ![c] = None]
  /\ UNCHANGED <<net, routes, packets, link, boxClosed, addQueue, listVars,
                 sessionVars, freed, worldVars>>

\* onClose(), because the peer left or the world closed the link: the link is
\* marked, Detach() takes the route away and closes the mailbox: the flag
\* under its lock, the packets after.
Lose(c) ==
  /\ NetGo(c, "live", IF boxClosed[c] THEN "gone" ELSE "emptying")
  /\ link' = [link EXCEPT ![c] = "closed"]
  /\ routes' = routes \ {c}
  /\ boxClosed' = [boxClosed EXCEPT ![c] = TRUE]
  /\ UNCHANGED <<hand, packets, box, addQueue, listVars, sessionVars, freed,
                 worldVars>>

EmptyBox(c) ==
  /\ net[c] = "emptying"
  /\ IF box[c] = <<>>
     THEN net' = [net EXCEPT ![c] = "gone"] /\ UNCHANGED box
     ELSE box' = [box EXCEPT ![c] = Tail(@)] /\ UNCHANGED net
  /\ UNCHANGED <<routes, hand, packets, link, boxClosed, addQueue, listVars,
                 sessionVars, freed, worldVars>>

NetOn(c) == \/ Enqueue(c) \/ EmptyBox(c)
            \/ link[c] = "closed" /\ Lose(c)
-----------------------------------------------------------------------------
(* SessionRegistry: the queue and the list.                                *)

\* RemoveQueued(s): who waits afterwards, and who is let in on the way.
Place(c)       == CHOOSE i \in DOMAIN queued : queued[i] = c
Without(c)     == IF c \in Elems(queued)
                  THEN [i \in 1 .. Len(queued) - 1 |->
                          queued[IF i < Place(c) THEN i ELSE i + 1]]
                  ELSE queued
Rest(c)        == IF c \in Elems(queued) THEN Active
                  ELSE IF Active > 0 THEN Active - 1 ELSE 0
HasRoom(n)     == Limit = 0 \/ n < Limit
LetIn(c)       == IF HasRoom(Rest(c)) /\ Without(c) # <<>> THEN {Head(Without(c))} ELSE {}
StillQueued(c) == IF LetIn(c) = {} THEN Without(c) ELSE Tail(Without(c))

LinkLeft(c)   == link     \* mutant: the client of a deleted session is not told
LinkClosed(c) == [link EXCEPT ![c] = "closed"]

\* The destructor, and deletion of the session by the world thread: its
\* player logs out, its link is closed, its mailbox is closed.
Delete(c) ==
  /\ freed' = freed \cup {c}
  /\ player' = [player EXCEPT ![c] = None]
  /\ link' = LinkClosed(c)
  /\ boxClosed' = [boxClosed EXCEPT ![c] = TRUE]
  /\ box' = IF boxClosed[c] THEN box ELSE [box EXCEPT ![c] = <<>>]
  /\ UNCHANGED <<loading, leaving, asked>>

\* List(s) of a session whose account is free, or whose account's old
\* session is not loading a character: the old one is deleted, the new one
\* let in or queued.
MayReplace(old) == ~loading[old]

\* The lines that take the old session out of the queue.
QueueAfterForgets(old) == queued  \* mutant: its place is kept
QueueAfter(old)        == IF old = None THEN queued ELSE StillQueued(old)

Counted(old) == IF old # None /\ old \in Elems(queued) THEN 0 ELSE 1

Admit(c, old) ==
  LET q     == QueueAfter(old)
      inNow == IF old = None THEN {} ELSE LetIn(old)
      total == Cardinality(Listed) + (IF old = None THEN 1 ELSE 0)
      waits == Limit > 0 /\ total - Counted(old) >= Limit /\ ~IsStaff(c)
  IN /\ sessions' = [sessions EXCEPT ![AccountOf[c]] = c]
     /\ queued' = IF waits THEN Append(q, c) ELSE q
     /\ inQueue' = [s \in Conns |-> IF s = c THEN waits
                                    ELSE inQueue[s] /\ s \notin inNow \cup {old}]

WorldGo(from, to) == world = from /\ world' = to

StartUpdate ==
  /\ WorldGo("tick", "list")
  /\ UNCHANGED <<netVars, link, boxVars, addQueue, listVars, sessionVars,
                 freed, turn, cur, kicked>>

List ==
  LET c == Head(addQueue) old == sessions[AccountOf[c]] IN
  /\ world = "list" /\ addQueue # <<>>
  /\ addQueue' = Tail(addQueue)
  /\ \/ /\ old = None
        /\ Admit(c, None)
        /\ UNCHANGED <<link, boxVars, sessionVars, freed>>
     \/ /\ old # None /\ MayReplace(old)
        /\ Admit(c, old)
        /\ Delete(old)
     \/ /\ old # None /\ ~MayReplace(old)
        /\ Delete(c)
        /\ UNCHANGED listVars
  /\ UNCHANGED <<netVars, worldVars>>

ToUpdateActive == {a \in Accounts : sessions[a] # None /\ ~inQueue[sessions[a]]}  \* mutant
ToUpdate       == {a \in Accounts : sessions[a] # None}

AllListed ==
  /\ addQueue = <<>>
  /\ WorldGo("list", "update")
  /\ turn' = ToUpdate
  /\ UNCHANGED <<netVars, link, boxVars, addQueue, listVars, sessionVars,
                 freed, cur, kicked>>

\* Shutdown: the queue is dropped, every session kicked, and one more Update
\* follows.
KickAll ==
  /\ WorldGo("tick", "list")
  /\ kicked' = TRUE
  /\ queued' = <<>>
  /\ link' = [c \in Conns |-> IF c \in Listed THEN "closed" ELSE link[c]]
  /\ UNCHANGED <<netVars, boxVars, addQueue, sessions, inQueue,
                 sessionVars, freed, turn, cur>>
-----------------------------------------------------------------------------
(* WorldSession::Update on the world thread.                               *)

Turn(a) ==
  /\ WorldGo("update", "session")
  /\ a \in turn
  /\ turn' = turn \ {a} /\ cur' = sessions[a]
  /\ UNCHANGED <<netVars, link, boxVars, addQueue, listVars, sessionVars,
                 freed, kicked>>

AllUpdated ==
  /\ turn = {}
  /\ WorldGo("update", IF kicked THEN "down" ELSE "tick")
  /\ UNCHANGED <<netVars, link, boxVars, addQueue, listVars, sessionVars,
                 freed, turn, cur, kicked>>

\* The filter: a packet a map may handle waits for the map while the
\* player is in the world.
ForWorld(c, p) == p # "move" \/ player[c] = None

\* HandlePlayerLoginOpcode(); the database refuses once it shuts down.
Login(c) ==
  IF inQueue[c] \/ loading[c] \/ player[c] # None THEN UNCHANGED sessionVars
  ELSE \/ /\ loading' = [loading EXCEPT ![c] = TRUE]
          /\ asked' = asked \cup {c}
          /\ UNCHANGED <<player, leaving>>
       \/ UNCHANGED sessionVars

\* HandleLogoutRequestOpcode(): at once, or after a while.
Logout(c) ==
  IF player[c] = None THEN UNCHANGED sessionVars
  ELSE \/ /\ player' = [player EXCEPT ![c] = None]
          /\ leaving' = [leaving EXCEPT ![c] = FALSE]
          /\ UNCHANGED <<loading, asked>>
       \/ /\ leaving' = [leaving EXCEPT ![c] = TRUE]
          /\ UNCHANGED <<loading, asked, player>>

Handle(c, p) == CASE p = "login"  -> Login(c)
                  [] p = "logout" -> Logout(c)
                  [] p = "move"   -> UNCHANGED sessionVars

\* The loop: while the link is open, the next packet the filter lets pass.
TakesPacket(c) == /\ link[c] = "open" /\ ~boxClosed[c] /\ box[c] # <<>>
                  /\ ForWorld(c, Head(box[c]))

NextPacket ==
  /\ WorldGo("session", "session")
  /\ TakesPacket(cur)
  /\ box' = [box EXCEPT ![cur] = Tail(@)]
  /\ Handle(cur, Head(box[cur]))
  /\ UNCHANGED <<netVars, link, boxClosed, addQueue, listVars, freed,
                 turn, cur, kicked>>

\* After the loop: a closed link ends the session, a logout asked for a
\* while ago is carried out.
Reaped(c) == /\ sessions' = [sessions EXCEPT ![AccountOf[c]] = None]
             /\ queued' = StillQueued(c)
             /\ inQueue' = [s \in Conns |-> inQueue[s] /\ s \notin LetIn(c) \cup {c}]

Reap ==
  /\ WorldGo("session", "update")
  /\ link[cur] = "closed"
  /\ Reaped(cur) /\ Delete(cur)
  /\ cur' = None
  /\ UNCHANGED <<netVars, addQueue, turn, kicked>>

LiveOn ==
  /\ WorldGo("session", "update")
  /\ link[cur] = "open" /\ ~TakesPacket(cur)
  /\ cur' = None
  /\ \/ UNCHANGED sessionVars
     \/ /\ leaving[cur] /\ ~loading[cur]
        /\ player' = [player EXCEPT ![cur] = None]
        /\ leaving' = [leaving EXCEPT ![cur] = FALSE]
        /\ UNCHANGED <<loading, asked>>
  /\ UNCHANGED <<netVars, link, boxVars, addQueue, listVars, freed,
                 turn, kicked>>

\* HandleMapInput() in the tick of the player's map: a malformed packet may
\* get the client kicked.
MapInput(c) ==
  /\ world = "tick" /\ c \in Listed
  /\ player[c] # None /\ link[c] = "open"
  /\ ~boxClosed[c] /\ box[c] # <<>> /\ ~ForWorld(c, Head(box[c]))
  /\ box' = [box EXCEPT ![c] = Tail(@)]
  /\ link' \in {link, [link EXCEPT ![c] = "closed"]}
  /\ UNCHANGED <<netVars, boxClosed, addQueue, listVars, sessionVars,
                 freed, worldVars>>

\* UpdateResultQueue(): the login's answer finds its session by account and
\* session id; the character may fail to load.
RequesterByAccount(c) == sessions[AccountOf[c]]   \* mutant: the id is not compared
Requester(c) == IF sessions[AccountOf[c]] = c THEN c ELSE None

Answer(c) ==
  LET s == Requester(c) IN
  /\ world = "tick" /\ c \in asked
  /\ asked' = asked \ {c}
  /\ \/ s = None /\ UNCHANGED <<player, loading, link>>
     \/ /\ s # None
        /\ loading' = [loading EXCEPT ![s] = FALSE]
        /\ \/ player' = [player EXCEPT ![s] = c] /\ UNCHANGED link
           \/ link' = [link EXCEPT ![s] = "closed"] /\ UNCHANGED player
  /\ UNCHANGED <<netVars, boxVars, addQueue, listVars, leaving, freed,
                 worldVars>>

WorldOn == \/ StartUpdate \/ List \/ AllListed \/ (\E a \in Accounts : Turn(a))
           \/ AllUpdated \/ NextPacket \/ Reap \/ LiveOn

Next == \/ \E c \in Conns :
             \/ Attach(c) \/ NetOn(c) \/ Lose(c) \/ MapInput(c) \/ Answer(c)
             \/ \E p \in Packet : Route(c, p)
        \/ KickAll \/ WorldOn

Spec == Init /\ [][Next]_vars

FairSpec == Spec /\ WF_vars(WorldOn) /\ \A c \in Conns : WF_vars(NetOn(c))
-----------------------------------------------------------------------------
(* What must hold.                                                         *)

\* The login queue holds sessions that are listed, each once, and a session
\* believes it is queued exactly when it is: nobody who was let in is still
\* refused its packets, no deleted session is told its new position.  Only
\* KickAll() empties the queue behind the sessions' backs, and closes them.
QueueConsistent ==
  /\ \A i, j \in DOMAIN queued : queued[i] \in Listed /\ (queued[i] = queued[j] => i = j)
  /\ \A c \in Listed : link[c] # "closed" \/ ~kicked
       => (inQueue[c] <=> c \in Elems(queued))

\* Nobody waits while there is room and nobody is let in beyond the limit,
\* through logins, reconnections from inside and from within the queue, and
\* departures in any order.
LimitKept ==
  Limit > 0 /\ ~kicked =>
    /\ queued # <<>> => Active >= Limit
    /\ Cardinality({c \in Listed \ Elems(queued) : ~IsStaff(c)}) <= Limit

\* Both, of a registry that lists no deleted session.
RegistrySound == TypeOK /\ QueueConsistent /\ LimitKept

\* A player was loaded for the very session it is seated in, a session that
\* is loading has an answer coming, and only one that is: the answer to a
\* session that was replaced or reaped meanwhile seats nobody.
SeatedByItsRequest ==
  \A c \in Conns :
    /\ player[c] \in {c, None}
    /\ player[c] = c => c \in Listed /\ ~inQueue[c] /\ ~loading[c]
    /\ c \in Listed => (loading[c] <=> c \in asked)

\* Once a mailbox is closed and whoever closed it is through, nothing is
\* left in it: no packet slips in behind the close.
NothingLeftInside ==
  \A c \in Conns : boxClosed[c] /\ net[c] # "emptying" => box[c] = <<>>

\* A session that was made is somewhere until it is deleted: waiting to be
\* listed, or listed under its account, where the world thread finds it.  A
\* packet finds its mailbox until its network thread is through with it; and
\* that thread hears of a deletion, for the session's link is closed.
AccountedFor ==
  \A c \in Conns :
    /\ net[c] # "auth" => c \in freed \cup Listed \cup Elems(addQueue)
    /\ c \in routes <=> net[c] = "live"
    /\ c \in freed \/ net[c] \in {"emptying", "gone"} => link[c] = "closed"

\* Nobody is forgotten, and no packet of anybody's.
NobodyForgotten == AccountedFor /\ NothingLeftInside

\* A session whose link closed is deleted, wherever it was: waiting to be
\* listed, queued, loading or in the world; and its route goes too.
ClosedIsReaped ==
  \A c \in Conns : (link[c] = "closed" /\ net[c] # "auth")
                     ~> ((c \in freed /\ c \notin routes) \/ kicked)
=============================================================================
