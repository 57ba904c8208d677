---------------------------- MODULE SessionLinks ----------------------------
(***************************************************************************)
(* proto::SessionLinks (src/src/proto/SessionLinks.cpp): the two world     *)
(* streams of one session behind one object, as far as stream 1 goes.      *)
(*                                                                         *)
(* Three kinds of thread use it.  The senders (the world thread and the    *)
(* map threads) route a packet under m_lock and send it after the lock is  *)
(* let go.  Each stream-1 socket has its network thread, which promotes    *)
(* it, releases the held packets and detaches it when it dies.  The        *)
(* session's own thread announces generations and closes the links.        *)
(*                                                                         *)
(* One step is one critical section of m_lock or one call on a link.       *)
(* Packets are numbered in the order they are routed; a link is a member   *)
(* of Links, and what it has written is a sequence of packet numbers and   *)
(* the announcement SMSG_RESUME_COMMS.                                     *)
(***************************************************************************)
EXTENDS Integers, Sequences, FiniteSets

CONSTANTS Links,        \* the stream-1 sockets of the session, over its life
          Senders,      \* threads that send game packets
          MaxHeld,      \* MAX_HELD_PACKETS
          MaxPackets,   \* bound: packets routed to stream 1
          MaxGeneration \* bound: redirects issued

None   == "none"
Resume == 0             \* SMSG_RESUME_COMMS; packets are numbered from 1

ASSUME LinksAssumption == /\ None \notin Links
                          /\ MaxHeld \in Nat
                          /\ MaxPackets \in Nat
                          /\ MaxGeneration \in Nat

VARIABLES
  expected,   \* m_expectedGeneration
  one,        \* m_one
  held,       \* m_held
  gen,        \* ClientConnection::m_redirectGeneration of each link
  at,         \* where the network thread of each link is
  shut,       \* ClientConnection::m_closed of each link
  release,    \* the local queue of AttachSlotOne, per link
  wire,       \* what each link has given its transport
  routed,     \* packets routed so far
  hand,       \* the link each sender picked for its packet, before it sends
  dropped,    \* packets that were given up: no room, a dead link, a close
  closer,     \* SessionLinks::Close: how far it is
  target,     \* ... and the stream 1 it read
  alive       \* the session still holds the links

vars == <<expected, one, held, gen, at, shut, release, wire, routed, hand,
          dropped, closer, target, alive>>
session == <<closer, target, alive>>
traffic == <<routed, hand, dropped>>

Packets  == 1..MaxPackets
Places   == {"new", "staging", "releasing", "live", "dying", "gone"}
Attached == {"releasing", "live"}

TypeOK ==
  /\ expected \in 0..MaxGeneration
  /\ one \in Links \cup {None}
  /\ held \in Seq(Packets) /\ Len(held) <= MaxHeld
  /\ gen \in [Links -> 0..MaxGeneration]
  /\ at \in [Links -> Places]
  /\ shut \in [Links -> BOOLEAN]
  /\ release \in [Links -> Seq(Packets)]
  /\ wire \in [Links -> Seq(Packets \cup {Resume})]
  /\ routed \in 0..MaxPackets
  /\ hand \in [Senders -> [link : Links \cup {None}, packet : Packets \cup {Resume}]]
  /\ dropped \subseteq Packets
  /\ closer \in {"open", "one", "zero", "closed"}
  /\ target \in Links \cup {None}
  /\ alive \in BOOLEAN

Empty == [link |-> None, packet |-> Resume]

Init ==
  /\ expected = 0
  /\ one = None
  /\ held = <<>>
  /\ gen = [c \in Links |-> 0]
  /\ at = [c \in Links |-> "new"]
  /\ shut = [c \in Links |-> FALSE]
  /\ release = [c \in Links |-> <<>>]
  /\ wire = [c \in Links |-> <<>>]
  /\ routed = 0
  /\ hand = [t \in Senders |-> Empty]
  /\ dropped = {}
  /\ closer = "open"
  /\ target = None
  /\ alive = TRUE

Contents(s) == {s[i] : i \in DOMAIN s}
-----------------------------------------------------------------------------
(* The senders.                                                            *)

Full        == Len(held) >= MaxHeld

\* QueueForSlotOne
HoldUnlessFull(p) ==
  IF Full
    THEN held' = held /\ dropped' = dropped \cup {p}
    ELSE held' = Append(held, p) /\ dropped' = dropped

\* SendOn(LinkSlot::One): under the lock the packet is held or a link picked.
Route(t) ==
  /\ alive
  /\ hand[t] = Empty
  /\ routed < MaxPackets
  /\ routed' = routed + 1
  /\ IF one = None
       THEN HoldUnlessFull(routed') /\ hand' = hand
       ELSE /\ hand' = [hand EXCEPT ![t] = [link |-> one, packet |-> routed']]
            /\ UNCHANGED <<held, dropped>>
  /\ UNCHANGED <<expected, one, gen, at, shut, release, wire, session>>

\* ClientConnection::SendPacket: a link that is shut swallows the packet.
Deliver(t) ==
  LET c == hand[t].link   p == hand[t].packet IN
  /\ hand[t] # Empty
  /\ hand' = [hand EXCEPT ![t] = Empty]
  /\ IF shut[c]
       THEN dropped' = dropped \cup {p} /\ wire' = wire
       ELSE dropped' = dropped /\ wire' = [wire EXCEPT ![c] = Append(@, p)]
  /\ UNCHANGED <<expected, one, held, gen, at, shut, release, routed, session>>
-----------------------------------------------------------------------------
(* The network threads of the stream-1 sockets.                            *)

\* The socket claims the ticket of a redirect: the latest, or one that is
\* being replaced.  A ticket goes to one connection.
Claim(c) ==
  /\ at[c] = "new"
  /\ \E g \in 1..expected :
       /\ \A d \in Links : gen[d] # g
       /\ gen' = [gen EXCEPT ![c] = g]
  /\ at' = [at EXCEPT ![c] = "staging"]
  /\ UNCHANGED <<expected, one, held, shut, release, wire, traffic, session>>

AnyGeneration(c) == gen[c] > 0            \* mutant: the check is dropped
Answers(c)       == gen[c] = expected

AfterCopy == held                         \* mutant: the queue is copied, not swapped
AfterSwap == <<>>

AnnounceForgotten(c) == wire              \* mutant: published without a word
Announce(c)          == [wire EXCEPT ![c] = Append(@, Resume)]

\* AttachSlotOne for the awaited generation: announced, published and the
\* queue taken, under the lock.
Attach(c) ==
  /\ at[c] = "staging"
  /\ alive /\ Answers(c)
  /\ wire' = Announce(c)
  /\ one' = c
  /\ release' = [release EXCEPT ![c] = held]
  /\ held' = AfterSwap
  /\ at' = [at EXCEPT ![c] = "releasing"]
  /\ UNCHANGED <<expected, gen, shut, traffic, session>>

\* A superseded socket, or one whose session is gone, is closed unheard.
Refuse(c) ==
  /\ at[c] = "staging"
  /\ ~(alive /\ Answers(c))
  /\ at' = [at EXCEPT ![c] = "dying"]
  /\ shut' = [shut EXCEPT ![c] = TRUE]
  /\ UNCHANGED <<expected, one, held, gen, release, wire, traffic, session>>

\* The loop that follows the unlock: one held packet after the other.
Release(c) ==
  /\ at[c] = "releasing"
  /\ release[c] # <<>>
  /\ IF shut[c]
       THEN dropped' = dropped \cup {Head(release[c])} /\ wire' = wire
       ELSE dropped' = dropped /\ wire' = [wire EXCEPT ![c] = Append(@, Head(release[c]))]
  /\ release' = [release EXCEPT ![c] = Tail(@)]
  /\ UNCHANGED <<expected, one, held, gen, at, shut, routed, hand, session>>

Promoted(c) ==
  /\ at[c] = "releasing"
  /\ release[c] = <<>>
  /\ at' = [at EXCEPT ![c] = "live"]
  /\ UNCHANGED <<expected, one, held, gen, shut, release, wire, traffic, session>>

\* onClose: the connection dies, by itself or because it was shut ...
Die(c) ==
  /\ at[c] \in {"staging", "live"}
  /\ at' = [at EXCEPT ![c] = "dying"]
  /\ shut' = [shut EXCEPT ![c] = TRUE]
  /\ UNCHANGED <<expected, one, held, gen, release, wire, traffic, session>>

OneAfterDetach(c)    == IF one = c THEN None ELSE one

\* ... and leaves the slot if it is the one in it.
Detach(c) ==
  /\ at[c] = "dying"
  /\ at' = [at EXCEPT ![c] = "gone"]
  /\ one' = OneAfterDetach(c)
  /\ UNCHANGED <<expected, held, gen, shut, release, wire, traffic, session>>
-----------------------------------------------------------------------------
(* The session's own thread.                                               *)

\* ExpectSlotOne: a redirect is about to be issued.
Expect ==
  /\ closer = "open"
  /\ expected < MaxGeneration
  /\ expected' = expected + 1
  /\ UNCHANGED <<one, held, gen, at, shut, release, wire, traffic, session>>

\* Close: both links are read and the queue is cleared under the lock ...
Close ==
  /\ closer = "open"
  /\ alive
  /\ closer' = "one"
  /\ target' = one
  /\ dropped' = dropped \cup Contents(held)
  /\ held' = <<>>
  /\ UNCHANGED <<expected, one, gen, at, shut, release, wire, routed, hand, alive>>

\* ... then stream 1 is shut, then stream 0.
CloseOne ==
  /\ closer = "one"
  /\ closer' = "zero"
  /\ shut' = IF target = None THEN shut ELSE [shut EXCEPT ![target] = TRUE]
  /\ UNCHANGED <<expected, one, held, gen, at, release, wire, traffic, target, alive>>

CloseZero ==
  /\ closer = "zero"
  /\ closer' = "closed"
  /\ UNCHANGED <<expected, one, held, gen, at, shut, release, wire, traffic, target, alive>>

\* Stream 0 is closed: WorldSession::Update drops the links.  Stream 0 may
\* also have been lost by itself, without Close.
Forget ==
  /\ closer \in {"open", "closed"}
  /\ alive
  /\ alive' = FALSE
  /\ closer' = "closed"
  /\ UNCHANGED <<expected, one, held, gen, at, shut, release, wire, traffic, target>>
-----------------------------------------------------------------------------
Next == \/ \E t \in Senders : Route(t) \/ Deliver(t)
        \/ \E c \in Links : \/ Claim(c) \/ Attach(c) \/ Refuse(c) \/ Release(c)
                            \/ Promoted(c) \/ Die(c) \/ Detach(c)
        \/ Expect \/ Close \/ CloseOne \/ CloseZero \/ Forget

Spec == Init /\ [][Next]_vars
-----------------------------------------------------------------------------
(***************************************************************************)
(* Properties                                                              *)
(***************************************************************************)

Times(p, s) == Cardinality({i \in DOMAIN s : s[i] = p})

Somewhere(p) ==
  \/ p \in Contents(held) \/ p \in dropped
  \/ \E c \in Links : p \in Contents(release[c]) \/ p \in Contents(wire[c])
  \/ \E t \in Senders : hand[t].packet = p

\* Every packet routed to stream 1 is in one place: held, on its way to a
\* link, written once to one link, or given up.  None is sent twice, and
\* none disappears between the queue, the release and the threads that send
\* while the slot is being filled.
Accounted ==
  /\ \A p \in 1..routed : Somewhere(p)
  /\ \A p \in 1..routed :
       p \in Contents(held) => \A c \in Links : p \notin Contents(release[c]) \cup Contents(wire[c])
  /\ \A c \in Links, p \in 1..routed : Times(p, wire[c]) + Times(p, release[c]) <= 1
  /\ \A c, d \in Links : c # d =>
       Contents(wire[c]) \cap (Contents(wire[d]) \cup Contents(release[d])) \subseteq {Resume}

\* Nothing reaches a socket before the announcement: the client refuses
\* ordinary packets on a connection it has not adopted yet.
ResumeFirst == \A c \in Links : wire[c] # <<>> => wire[c][1] = Resume

\* The socket in the slot answers a redirect at least as new as that of any
\* other socket the client was told to adopt: a straggler never takes over.
LiveIsNewest ==
  one # None =>
    /\ wire[one] # <<>>
    /\ \A c \in Links : wire[c] # <<>> => gen[c] <= gen[one]

\* The newest socket that was adopted and has not died is the one in the
\* slot: a stale socket closing late does not take the live stream down.
NewestKept ==
  \A c \in Links :
    at[c] \in Attached /\ (\A d \in Links : wire[d] # <<>> => gen[d] <= gen[c]) => one = c

\* Both: redirects that were given up and sockets that come or go late never
\* decide which stream a session has.
NewestHolds == LiveIsNewest /\ NewestKept

\* Packets are only held while there is no stream 1, so none waits behind a
\* stream that is up.
HeldOnlyWithoutStream == held # <<>> => one = None
=============================================================================
