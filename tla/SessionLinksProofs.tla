------------------------- MODULE SessionLinksProofs -------------------------
(***************************************************************************)
(* The stream-1 slot of SessionLinks, for any number of sockets, sending   *)
(* threads, packets and redirects: nothing reaches a socket before its     *)
(* announcement, stragglers neither take the slot nor empty it, and no     *)
(* packet waits behind a stream that is up.                                *)
(***************************************************************************)
EXTENDS SessionLinks, FiniteSetTheorems, TLAPS

-----------------------------------------------------------------------------
(* What the sequences hold is proved apart from the rest of TypeOK.        *)

Streams ==
  /\ held \in Seq(Packets)
  /\ release \in [Links -> Seq(Packets)]
  /\ wire \in [Links -> Seq(Packets \cup {Resume})]

Fields ==
  /\ expected \in 0..MaxGeneration
  /\ one \in Links \cup {None}
  /\ gen \in [Links -> 0..MaxGeneration]
  /\ at \in [Links -> Places]
  /\ shut \in [Links -> BOOLEAN]
  /\ routed \in 0..MaxPackets
  /\ hand \in [Senders -> [link : Links \cup {None}, packet : Packets \cup {Resume}]]
  /\ closer \in {"open", "one", "zero", "closed"}
  /\ target \in Links \cup {None}
  /\ alive \in BOOLEAN

\* A socket has a generation once it has claimed a ticket, no two the same,
\* and has written nothing before it was promoted.
Generations ==
  /\ \A c \in Links : at[c] = "new" <=> gen[c] = 0
  /\ \A c \in Links : gen[c] <= expected
  /\ \A c, d \in Links : gen[c] = gen[d] /\ gen[c] # 0 => c = d

Adopted ==
  /\ \A c \in Links : at[c] \in {"new", "staging"} => wire[c] = <<>>
  /\ \A c \in Links : at[c] \in Attached => wire[c] # <<>>
  /\ one # None => wire[one] # <<>> /\ at[one] \notin {"new", "staging", "gone"}
  /\ \A t \in Senders : hand[t] # Empty => hand[t].link \in Links /\ wire[hand[t].link] # <<>>

IInv == /\ Streams /\ Fields /\ Generations /\ Adopted
        /\ ResumeFirst /\ LiveIsNewest /\ NewestKept /\ HeldOnlyWithoutStream

USE LinksAssumption DEF None, Resume

-----------------------------------------------------------------------------
LEMMA AppendToWire ==
  ASSUME NEW S, NEW s \in Seq(S), NEW x \in S
  PROVE  /\ Append(s, x) \in Seq(S)
         /\ Append(s, x) # <<>>
         /\ s # <<>> => Append(s, x)[1] = s[1]
         /\ s = <<>> => Append(s, x)[1] = x
OBVIOUS

LEMMA InitInv == Init => IInv
BY DEF Init, IInv, Streams, Fields, Generations, Adopted, ResumeFirst, LiveIsNewest,
       NewestKept, HeldOnlyWithoutStream, Places, Attached, Empty

LEMMA RouteInv ==
  ASSUME IInv, NEW t \in Senders, Route(t)
  PROVE  IInv'
<1>0. routed' \in Packets /\ routed' \in 0..MaxPackets
  BY DEF IInv, Fields, Route, Packets
<1>1. UNCHANGED <<expected, one, gen, at, shut, release, wire, closer, target, alive>>
  BY DEF Route, session
<1>2. CASE one = None
  <2>1. hand' = hand /\ held' \in {held, Append(held, routed')}
    BY <1>2 DEF Route, HoldUnlessFull
  <2>2. held' \in Seq(Packets)
    <3>1. held \in Seq(Packets)
      BY DEF IInv, Streams
    <3>2. Append(held, routed') \in Seq(Packets)
      BY <3>1, <1>0, AppendToWire
    <3> QED BY <2>1, <3>1, <3>2
  <2> QED
    BY <1>0, <1>1, <1>2, <2>1, <2>2
       DEF IInv, Streams, Fields, Generations, Adopted, ResumeFirst, LiveIsNewest,
           NewestKept, HeldOnlyWithoutStream
<1>3. CASE one # None
  <2>1. held' = held /\ hand' = [hand EXCEPT ![t] = [link |-> one, packet |-> routed']]
    BY <1>3 DEF Route
  <2>2. one \in Links /\ wire[one] # <<>>
    BY <1>3 DEF IInv, Fields, Adopted
  <2>3. hand' \in [Senders -> [link : Links \cup {None}, packet : Packets \cup {Resume}]]
    BY <2>1, <2>2, <1>0 DEF IInv, Fields
  <2>4. \A u \in Senders : hand'[u] # Empty => hand'[u].link \in Links /\ wire[hand'[u].link] # <<>>
    BY <2>1, <2>2 DEF IInv, Fields, Adopted
  <2> QED
    BY <1>0, <1>1, <2>1, <2>3, <2>4
       DEF IInv, Streams, Fields, Generations, Adopted, ResumeFirst, LiveIsNewest,
           NewestKept, HeldOnlyWithoutStream
<1> QED BY <1>2, <1>3

\* One more packet on a wire that is not empty disturbs nothing.
LEMMA WireGrows ==
  ASSUME IInv, NEW c \in Links, wire[c] # <<>>, NEW p \in Packets \cup {Resume},
         wire' = [wire EXCEPT ![c] = Append(@, p)]
  PROVE  /\ wire' \in [Links -> Seq(Packets \cup {Resume})]
         /\ \A d \in Links : wire'[d] = <<>> <=> wire[d] = <<>>
         /\ \A d \in Links : wire[d] # <<>> => wire'[d][1] = wire[d][1]
<1>1. wire \in [Links -> Seq(Packets \cup {Resume})]
  BY DEF IInv, Streams
<1>2. /\ Append(wire[c], p) \in Seq(Packets \cup {Resume})
      /\ Append(wire[c], p) # <<>>
      /\ Append(wire[c], p)[1] = wire[c][1]
  BY <1>1, AppendToWire
<1>3. wire'[c] = Append(wire[c], p) /\ \A d \in Links : d # c => wire'[d] = wire[d]
  BY <1>1
<1>4. wire' \in [Links -> Seq(Packets \cup {Resume})]
  BY <1>1, <1>2
<1> QED BY <1>1, <1>2, <1>3, <1>4

\* The parts that mention the wires only ask whether they are empty and
\* what comes first.
WiresAlike ==
  /\ wire' \in [Links -> Seq(Packets \cup {Resume})]
  /\ \A d \in Links : wire'[d] = <<>> <=> wire[d] = <<>>
  /\ \A d \in Links : wire[d] # <<>> => wire'[d][1] = wire[d][1]

LEMMA DeliverInv ==
  ASSUME IInv, NEW t \in Senders, Deliver(t)
  PROVE  IInv'
<1> DEFINE c == hand[t].link
           p == hand[t].packet
<1>1. UNCHANGED <<expected, one, held, gen, at, shut, release, routed, closer, target, alive>>
  BY DEF Deliver, session
<1>2. c \in Links /\ wire[c] # <<>> /\ p \in Packets \cup {Resume}
  BY DEF IInv, Fields, Adopted, Deliver
<1>3. wire' = wire \/ wire' = [wire EXCEPT ![c] = Append(@, p)]
  BY DEF Deliver
<1>4. WiresAlike
  <2>1. CASE wire' = wire
    BY <2>1 DEF WiresAlike, IInv, Streams
  <2>2. CASE wire' = [wire EXCEPT ![c] = Append(@, p)]
    <3> HIDE DEF c, p
    <3> QED BY <2>2, <1>2, WireGrows DEF WiresAlike
  <2> QED BY <1>3, <2>1, <2>2
<1>5. hand' = [hand EXCEPT ![t] = Empty]
  BY DEF Deliver
<1> HIDE DEF c, p
<1>6. Streams' /\ Fields'
  BY <1>1, <1>4, <1>5 DEF IInv, Streams, Fields, WiresAlike, Empty
<1>7. Generations' /\ Adopted'
  BY <1>1, <1>4, <1>5 DEF IInv, Fields, Generations, Adopted, WiresAlike
<1>8. ResumeFirst' /\ LiveIsNewest' /\ NewestKept' /\ HeldOnlyWithoutStream'
  BY <1>1, <1>4 DEF IInv, Fields, ResumeFirst, LiveIsNewest, NewestKept, HeldOnlyWithoutStream,
                    WiresAlike
<1> QED BY <1>6, <1>7, <1>8 DEF IInv
-----------------------------------------------------------------------------
LEMMA ClaimInv ==
  ASSUME IInv, NEW c \in Links, Claim(c)
  PROVE  IInv'
<1>1. UNCHANGED <<expected, one, held, shut, release, wire, routed, hand, closer, target, alive>>
  BY DEF Claim, traffic, session
<1>2. PICK g \in 1..expected : /\ \A d \in Links : gen[d] # g
                               /\ gen' = [gen EXCEPT ![c] = g]
  BY DEF Claim
<1>3. at[c] = "new" /\ at' = [at EXCEPT ![c] = "staging"]
  BY DEF Claim
<1>4. Streams' /\ Fields'
  <2>1. Streams'
    BY <1>1 DEF IInv, Streams
  <2>2. gen' \in [Links -> 0..MaxGeneration] /\ at' \in [Links -> Places]
    BY <1>2, <1>3 DEF IInv, Fields, Places
  <2>3. Fields'
    BY <1>1, <2>2 DEF IInv, Fields
  <2> QED BY <2>1, <2>3
<1>5. Generations'
  BY <1>1, <1>2, <1>3 DEF IInv, Fields, Generations
<1>6. Adopted'
  BY <1>1, <1>3 DEF IInv, Fields, Adopted, Attached
<1>7. wire[c] = <<>>
  BY <1>3 DEF IInv, Adopted
<1>8. ResumeFirst' /\ LiveIsNewest' /\ HeldOnlyWithoutStream'
  BY <1>1, <1>2, <1>7 DEF IInv, Fields, Adopted, ResumeFirst, LiveIsNewest, HeldOnlyWithoutStream
<1>9. NewestKept'
  BY <1>1, <1>2, <1>3, <1>7 DEF IInv, Fields, NewestKept, Attached
<1> QED BY <1>4, <1>5, <1>6, <1>8, <1>9 DEF IInv

LEMMA AttachInv ==
  ASSUME IInv, NEW c \in Links, Attach(c)
  PROVE  IInv'
<1>1. UNCHANGED <<expected, gen, shut, routed, hand, closer, target, alive>>
  BY DEF Attach, traffic, session
<1>2. /\ at[c] = "staging" /\ gen[c] = expected
      /\ wire' = [wire EXCEPT ![c] = Append(@, Resume)]
      /\ one' = c /\ held' = <<>>
      /\ release' = [release EXCEPT ![c] = held]
      /\ at' = [at EXCEPT ![c] = "releasing"]
  BY DEF Attach, Answers, Announce, AfterSwap
<1>3. wire[c] = <<>> /\ wire \in [Links -> Seq(Packets \cup {Resume})]
  BY <1>2 DEF IInv, Adopted, Streams
<1>4. /\ wire' \in [Links -> Seq(Packets \cup {Resume})]
      /\ wire'[c] # <<>> /\ wire'[c][1] = Resume
      /\ \A d \in Links : d # c => wire'[d] = wire[d]
  <2>1. wire[c] \in Seq(Packets \cup {Resume}) /\ Resume \in Packets \cup {Resume}
    BY <1>3
  <2>2. /\ Append(wire[c], Resume) \in Seq(Packets \cup {Resume})
        /\ Append(wire[c], Resume) # <<>>
        /\ Append(wire[c], Resume)[1] = Resume
    BY <2>1, <1>3, AppendToWire
  <2> QED BY <1>2, <1>3, <2>2
<1>5. Streams'
  BY <1>2, <1>4 DEF IInv, Streams
<1>6. Fields'
  BY <1>1, <1>2 DEF IInv, Fields, Places
<1>7. Generations'
  BY <1>1, <1>2 DEF IInv, Fields, Generations
<1>8. Adopted'
  BY <1>1, <1>2, <1>4 DEF IInv, Fields, Adopted, Attached
<1>9. ResumeFirst' /\ HeldOnlyWithoutStream'
  BY <1>2, <1>4 DEF IInv, ResumeFirst, HeldOnlyWithoutStream
<1>10. LiveIsNewest'
  BY <1>1, <1>2, <1>4 DEF IInv, Fields, Generations, LiveIsNewest
<1>11. NewestKept'
  <2> SUFFICES ASSUME NEW d \in Links, at'[d] \in Attached,
                      \A e \in Links : wire'[e] # <<>> => gen'[e] <= gen'[d]
               PROVE  one' = d
    BY DEF NewestKept
  <2>1. gen[c] <= gen[d]
    BY <1>1, <1>4
  <2>2. gen[c] = gen[d] /\ gen[c] # 0
    BY <1>2, <2>1 DEF IInv, Fields, Generations
  <2> QED BY <1>2, <2>2 DEF IInv, Generations
<1> QED BY <1>5, <1>6, <1>7, <1>8, <1>9, <1>10, <1>11 DEF IInv

LEMMA ReleaseInv ==
  ASSUME IInv, NEW c \in Links, Release(c)
  PROVE  IInv'
<1> DEFINE p == Head(release[c])
<1>1. UNCHANGED <<expected, one, held, gen, at, shut, routed, hand, closer, target, alive>>
  BY DEF Release, session
<1>2. /\ at[c] = "releasing" /\ release[c] # <<>>
      /\ release' = [release EXCEPT ![c] = Tail(@)]
      /\ wire' = wire \/ wire' = [wire EXCEPT ![c] = Append(@, p)]
  BY DEF Release
<1>3. release[c] \in Seq(Packets)
  BY DEF IInv, Streams
<1>4. p \in Packets /\ Tail(release[c]) \in Seq(Packets)
  BY <1>2, <1>3
<1>5. wire[c] # <<>>
  BY <1>2 DEF IInv, Adopted, Attached
<1> HIDE DEF p
<1>6. WiresAlike
  <2>1. CASE wire' = wire
    BY <2>1 DEF WiresAlike, IInv, Streams
  <2>2. CASE wire' = [wire EXCEPT ![c] = Append(@, p)]
    <3>1. p \in Packets \cup {Resume}
      BY <1>4
    <3> QED BY <2>2, <1>5, <3>1, WireGrows DEF WiresAlike
  <2> QED BY <1>2, <2>1, <2>2
<1>7. release' \in [Links -> Seq(Packets)]
  BY <1>2, <1>4 DEF IInv, Streams
<1>8. Streams' /\ Fields'
  BY <1>1, <1>6, <1>7 DEF IInv, Streams, Fields, WiresAlike
<1>9. Generations' /\ Adopted'
  BY <1>1, <1>6 DEF IInv, Fields, Generations, Adopted, WiresAlike, Empty
<1>10. ResumeFirst' /\ LiveIsNewest' /\ NewestKept' /\ HeldOnlyWithoutStream'
  BY <1>1, <1>6 DEF IInv, Fields, ResumeFirst, LiveIsNewest, NewestKept, HeldOnlyWithoutStream,
                    WiresAlike
<1> QED BY <1>8, <1>9, <1>10 DEF IInv

\* A socket that leaves its place for one further on, and no slot changes.
LEMMA PlaceInv ==
  ASSUME IInv, NEW c \in Links, Refuse(c) \/ Promoted(c) \/ Die(c)
  PROVE  IInv'
<1>1. UNCHANGED <<expected, one, held, gen, release, wire, routed, hand, closer, target, alive>>
  BY DEF Refuse, Promoted, Die, traffic, session
<1>2. PICK q \in {"live", "dying"} : at' = [at EXCEPT ![c] = q]
  BY DEF Refuse, Promoted, Die
<1>3. at[c] \in {"staging", "releasing", "live"} /\ (at'[c] = "live" => at[c] = "releasing")
  BY DEF Refuse, Promoted, Die, IInv, Fields
<1>4. shut' \in [Links -> BOOLEAN]
  BY DEF Refuse, Promoted, Die, IInv, Fields
<1>5. Streams' /\ Fields'
  BY <1>1, <1>2, <1>4 DEF IInv, Streams, Fields, Places
<1>6. Generations'
  BY <1>1, <1>2, <1>3 DEF IInv, Fields, Generations
<1>7. Adopted'
  BY <1>1, <1>2, <1>3 DEF IInv, Fields, Adopted, Attached
<1>8. ResumeFirst' /\ LiveIsNewest' /\ NewestKept' /\ HeldOnlyWithoutStream'
  BY <1>1, <1>2, <1>3 DEF IInv, Fields, ResumeFirst, LiveIsNewest, NewestKept,
                          HeldOnlyWithoutStream, Attached
<1> QED BY <1>5, <1>6, <1>7, <1>8 DEF IInv

LEMMA DetachInv ==
  ASSUME IInv, NEW c \in Links, Detach(c)
  PROVE  IInv'
<1>1. UNCHANGED <<expected, held, gen, shut, release, wire, routed, hand, closer, target, alive>>
  BY DEF Detach, traffic, session
<1>2. /\ at[c] = "dying" /\ at' = [at EXCEPT ![c] = "gone"]
      /\ one' = IF one = c THEN None ELSE one
  BY DEF Detach, OneAfterDetach
<1>3. Streams' /\ Fields'
  BY <1>1, <1>2 DEF IInv, Streams, Fields, Places
<1>4. Generations'
  BY <1>1, <1>2 DEF IInv, Fields, Generations
<1>5. Adopted'
  BY <1>1, <1>2 DEF IInv, Fields, Adopted, Attached
<1>6. ResumeFirst' /\ LiveIsNewest' /\ HeldOnlyWithoutStream'
  BY <1>1, <1>2 DEF IInv, Fields, ResumeFirst, LiveIsNewest, HeldOnlyWithoutStream
<1>7. NewestKept'
  BY <1>1, <1>2 DEF IInv, Fields, NewestKept, Attached
<1> QED BY <1>3, <1>4, <1>5, <1>6, <1>7 DEF IInv
-----------------------------------------------------------------------------
LEMMA SessionInv ==
  ASSUME IInv, Expect \/ Close \/ CloseOne \/ CloseZero \/ Forget
  PROVE  IInv'
<1>1. UNCHANGED <<one, gen, at, release, wire, routed, hand>>
  BY DEF Expect, Close, CloseOne, CloseZero, Forget, traffic, session
<1>2. /\ expected' \in 0..MaxGeneration /\ expected <= expected'
      /\ held' \in {held, <<>>}
  BY DEF Expect, Close, CloseOne, CloseZero, Forget, session, IInv, Fields
<1>3. shut' \in [Links -> BOOLEAN]
  BY DEF Expect, Close, CloseOne, CloseZero, Forget, IInv, Fields
<1>4. /\ closer' \in {"open", "one", "zero", "closed"}
      /\ target' \in Links \cup {None}
      /\ alive' \in BOOLEAN
  BY DEF Expect, Close, CloseOne, CloseZero, Forget, session, IInv, Fields
<1>5. Streams'
  <2>1. held \in Seq(Packets) /\ <<>> \in Seq(Packets)
    BY DEF IInv, Streams
  <2>2. held' \in Seq(Packets)
    BY <1>2, <2>1
  <2> QED BY <1>1, <2>2 DEF IInv, Streams
<1>6. Fields'
  BY <1>1, <1>2, <1>3, <1>4 DEF IInv, Fields
<1>7. Generations'
  BY <1>1, <1>2 DEF IInv, Fields, Generations
<1>8. Adopted' /\ ResumeFirst' /\ LiveIsNewest' /\ NewestKept'
  BY <1>1 DEF IInv, Adopted, ResumeFirst, LiveIsNewest, NewestKept, Empty
<1>9. HeldOnlyWithoutStream'
  BY <1>1, <1>2 DEF IInv, HeldOnlyWithoutStream
<1> QED BY <1>5, <1>6, <1>7, <1>8, <1>9 DEF IInv

LEMMA NextInv == IInv /\ [Next]_vars => IInv'
<1> SUFFICES ASSUME IInv, [Next]_vars PROVE IInv'
  OBVIOUS
<1>1. ASSUME NEW t \in Senders, Route(t) \/ Deliver(t) PROVE IInv'
  BY <1>1, RouteInv, DeliverInv
<1>2. ASSUME NEW c \in Links, Claim(c) \/ Attach(c) \/ Release(c) \/ Detach(c) PROVE IInv'
  BY <1>2, ClaimInv, AttachInv, ReleaseInv, DetachInv
<1>3. ASSUME NEW c \in Links, Refuse(c) \/ Promoted(c) \/ Die(c) PROVE IInv'
  BY <1>3, PlaceInv
<1>4. CASE Expect \/ Close \/ CloseOne \/ CloseZero \/ Forget
  BY <1>4, SessionInv
<1>5. CASE UNCHANGED vars
  BY <1>5 DEF vars, session, traffic, IInv, Streams, Fields, Generations, Adopted, ResumeFirst,
              LiveIsNewest, NewestKept, HeldOnlyWithoutStream
<1> QED BY <1>1, <1>2, <1>3, <1>4, <1>5 DEF Next

\* The inductive invariant of the slot.
THEOREM LinksInvariance == Spec => []IInv
BY InitInv, NextInv, PTL DEF Spec

\* Nothing reaches a socket before the announcement that makes the client
\* adopt it.
THEOREM AnnouncedFirst == Spec => []ResumeFirst
BY LinksInvariance, PTL DEF IInv

\* A socket that answers a superseded redirect never becomes the live stream.
THEOREM NoStragglerTakesOver == Spec => []LiveIsNewest
BY LinksInvariance, PTL DEF IInv

\* A socket that closes late never takes the newest stream down with it.
THEOREM NoStragglerTearsDown == Spec => []NewestKept
BY LinksInvariance, PTL DEF IInv

\* Which stream a session has is decided by the newest redirect that was
\* answered, whatever sockets come and go late.
THEOREM NewestStreamStays == Spec => []NewestHolds
BY LinksInvariance, PTL DEF IInv, NewestHolds

\* No packet is held while there is a stream to send it on.
THEOREM NothingStuck == Spec => []HeldOnlyWithoutStream
BY LinksInvariance, PTL DEF IInv

-----------------------------------------------------------------------------
(* The rest of the type: what is held fits, and what is given up is a      *)
(* packet.                                                                 *)

Bounded ==
  /\ Len(held) <= MaxHeld /\ dropped \subseteq Packets
  /\ \A t \in Senders : hand[t] # Empty => hand[t].packet \in Packets

LEMMA InitBounded == Init => Bounded
BY DEF Init, Bounded

LEMMA BoundedStep == IInv /\ Bounded /\ [Next]_vars => Bounded'
<1> SUFFICES ASSUME IInv, Bounded, [Next]_vars PROVE Bounded'
  OBVIOUS
<1>1. /\ held \in Seq(Packets) /\ \A c \in Links : release[c] \in Seq(Packets)
      /\ hand \in [Senders -> [link : Links \cup {None}, packet : Packets \cup {Resume}]]
  BY DEF IInv, Streams, Fields
<1>2. ASSUME UNCHANGED <<held, hand>>, dropped' \subseteq Packets PROVE Bounded'
  BY <1>2 DEF Bounded
<1>3. ASSUME NEW t \in Senders, Route(t) PROVE Bounded'
  <2>1. routed' \in Packets
    BY <1>3 DEF IInv, Fields, Route, Packets
  <2>2. CASE one # None
    <3>1. /\ hand' = [hand EXCEPT ![t] = [link |-> one, packet |-> routed']]
          /\ UNCHANGED <<held, dropped>>
      BY <1>3, <2>2 DEF Route
    <3> QED BY <1>1, <2>1, <3>1 DEF Bounded
  <2>3. CASE one = None
    <3>1. /\ hand' = hand
          /\ \/ held' = held /\ dropped' = dropped \cup {routed'}
             \/ ~(Len(held) >= MaxHeld) /\ held' = Append(held, routed') /\ dropped' = dropped
      BY <1>3, <2>3 DEF Route, HoldUnlessFull, Full
    <3>2. Len(Append(held, routed')) = Len(held) + 1 /\ Len(held) \in Nat
      BY <1>1, <2>1
    <3>3. Len(held') <= MaxHeld
      BY <3>1, <3>2 DEF Bounded
    <3> QED BY <2>1, <3>1, <3>3 DEF Bounded
  <2> QED BY <2>2, <2>3
<1>4. ASSUME NEW t \in Senders, Deliver(t) PROVE Bounded'
  <2>1. /\ hand[t].packet \in Packets /\ held' = held
        /\ hand' = [hand EXCEPT ![t] = Empty]
        /\ dropped' \in {dropped, dropped \cup {hand[t].packet}}
    BY <1>4 DEF Deliver, Bounded
  <2> QED BY <1>1, <2>1 DEF Bounded
<1>5. ASSUME NEW c \in Links, Attach(c) PROVE Bounded'
  BY <1>5 DEF Attach, AfterSwap, Bounded, traffic
<1>6. ASSUME NEW c \in Links, Release(c) PROVE Bounded'
  <2>1. release[c] # <<>> /\ Head(release[c]) \in Packets
    BY <1>1, <1>6 DEF Release
  <2> QED BY <1>2, <1>6, <2>1 DEF Release, Bounded
<1>7. ASSUME NEW c \in Links, Claim(c) \/ Refuse(c) \/ Promoted(c) \/ Die(c) \/ Detach(c)
      PROVE  Bounded'
  BY <1>7 DEF Claim, Refuse, Promoted, Die, Detach, Bounded, traffic
<1>8. CASE Close
  <2>1. Contents(held) \subseteq Packets
    BY <1>1 DEF Contents
  <2> QED BY <1>8, <2>1 DEF Close, Bounded
<1>9. CASE Expect \/ CloseOne \/ CloseZero \/ Forget \/ UNCHANGED vars
  BY <1>9 DEF Expect, CloseOne, CloseZero, Forget, Bounded, traffic, vars
<1> QED BY <1>3, <1>4, <1>5, <1>6, <1>7, <1>8, <1>9 DEF Next

\* The queue of held packets stays within its limit and only packets are
\* held, carried, written and given up.
THEOREM LinksTypeCorrect == Spec => []TypeOK
<1>1. IInv /\ Bounded => TypeOK
  BY DEF IInv, Streams, Fields, Bounded, TypeOK
<1> QED BY <1>1, InitInv, NextInv, InitBounded, BoundedStep, PTL DEF Spec

-----------------------------------------------------------------------------
(* Where a packet is: in one place at a time, and in some place always.    *)

Distinct(s) == \A i, j \in DOMAIN s : s[i] = s[j] => i = j

\* Only what was routed is anywhere, a packet in a hand is one, and the local
\* queue of a socket is empty except while it is released.
Known ==
  /\ Contents(held) \subseteq 1..routed
  /\ \A c \in Links : /\ Contents(release[c]) \subseteq 1..routed
                      /\ Contents(wire[c]) \subseteq 0..routed
                      /\ at[c] # "releasing" => release[c] = <<>>
  /\ \A t \in Senders : hand[t] # Empty => hand[t].packet \in 1..routed

Once ==
  /\ Distinct(held)
  /\ \A c \in Links : Distinct(release[c]) /\ Distinct(wire[c])

Apart ==
  /\ \A c \in Links : \A p \in Contents(held) : p \notin Contents(release[c]) /\ p \notin Contents(wire[c])
  /\ \A c, d \in Links : \A p \in Contents(release[c]) :
       /\ p \notin Contents(wire[d])
       /\ c # d => p \notin Contents(release[d])
  /\ \A c, d \in Links : c # d =>
       \A p \in Contents(wire[c]) : p # Resume => p \notin Contents(wire[d])

\* A packet in a hand is nowhere else.
InHand ==
  \A t \in Senders : hand[t] # Empty =>
    /\ hand[t].packet \notin Contents(held)
    /\ \A c \in Links : /\ hand[t].packet \notin Contents(release[c])
                        /\ hand[t].packet \notin Contents(wire[c])
    /\ \A u \in Senders : hand[u] # Empty /\ hand[u].packet = hand[t].packet => u = t

NoneLost == \A p \in 1..routed : Somewhere(p)

PlacesInv == Known /\ Once /\ Apart /\ InHand /\ NoneLost

LEMMA ContentsOf ==
  ASSUME NEW S, NEW s \in Seq(S)
  PROVE  /\ Contents(s) \subseteq S
         /\ s = <<>> => Contents(s) = {} /\ Distinct(s)
         /\ s # <<>> => /\ Contents(s) = {Head(s)} \cup Contents(Tail(s))
                        /\ Distinct(s) => Distinct(Tail(s)) /\ Head(s) \notin Contents(Tail(s))
<1>1. Contents(s) \subseteq S /\ (s = <<>> => Contents(s) = {} /\ Distinct(s))
  BY DEF Contents, Distinct
<1>3. ASSUME s # <<>>
      PROVE  /\ Contents(s) = {Head(s)} \cup Contents(Tail(s))
             /\ Distinct(s) => Distinct(Tail(s)) /\ Head(s) \notin Contents(Tail(s))
  <2>1. /\ Len(s) \in Nat /\ Len(s) > 0
        /\ DOMAIN s = 1..Len(s) /\ Head(s) = s[1]
        /\ DOMAIN Tail(s) = 1..(Len(s) - 1)
        /\ \A i \in 1..(Len(s) - 1) : Tail(s)[i] = s[i + 1]
    BY <1>3
  <2>2. \A i \in 1..Len(s) : i = 1 \/ (i - 1 \in 1..(Len(s) - 1) /\ s[i] = Tail(s)[i - 1])
    BY <2>1
  <2>3. ASSUME NEW y \in Contents(s) PROVE y \in {Head(s)} \cup Contents(Tail(s))
    <3>1. PICK i \in 1..Len(s) : s[i] = y
      BY <2>1 DEF Contents
    <3>2. CASE i = 1
      BY <3>1, <3>2, <2>1
    <3>3. CASE i # 1
      <4>1. i - 1 \in DOMAIN Tail(s) /\ Tail(s)[i - 1] = y
        BY <3>1, <3>3, <2>1, <2>2
      <4> QED BY <4>1 DEF Contents
    <3> QED BY <3>2, <3>3
  <2>4. \A y \in {Head(s)} \cup Contents(Tail(s)) : y \in Contents(s)
    BY <2>1 DEF Contents
  <2>5. Distinct(s) => Distinct(Tail(s)) /\ Head(s) \notin Contents(Tail(s))
    BY <2>1 DEF Contents, Distinct
  <2> QED BY <2>3, <2>4, <2>5
<1> QED BY <1>1, <1>3

LEMMA Appended ==
  ASSUME NEW S, NEW s \in Seq(S), NEW x \in S
  PROVE  /\ Contents(Append(s, x)) = Contents(s) \cup {x}
         /\ Distinct(s) /\ x \notin Contents(s) => Distinct(Append(s, x))
<1>1. /\ DOMAIN s = 1..Len(s) /\ Len(s) \in Nat
      /\ DOMAIN Append(s, x) = 1..(Len(s) + 1)
      /\ \A i \in 1..Len(s) : Append(s, x)[i] = s[i]
      /\ Append(s, x)[Len(s) + 1] = x
  OBVIOUS
<1>2. \A y \in Contents(s) \cup {x} : y \in Contents(Append(s, x))
  BY <1>1 DEF Contents
<1>3. \A y \in Contents(Append(s, x)) : y \in Contents(s) \cup {x}
  BY <1>1 DEF Contents
<1>4. Distinct(s) /\ x \notin Contents(s) => Distinct(Append(s, x))
  BY <1>1 DEF Contents, Distinct
<1> QED BY <1>2, <1>3, <1>4

LEMMA DistinctOnce ==
  ASSUME NEW s, NEW p, Distinct(s)
  PROVE  Times(p, s) = IF p \in Contents(s) THEN 1 ELSE 0
<1>1. CASE p \in Contents(s)
  <2>1. PICK i \in DOMAIN s : s[i] = p
    BY <1>1 DEF Contents
  <2>2. {j \in DOMAIN s : s[j] = p} = {i}
    BY <2>1 DEF Distinct
  <2> QED BY <1>1, <2>2, FS_Singleton DEF Times
<1>2. CASE p \notin Contents(s)
  <2>1. {j \in DOMAIN s : s[j] = p} = {}
    BY <1>2 DEF Contents
  <2> QED BY <1>2, <2>1, FS_EmptySet DEF Times
<1> QED BY <1>1, <1>2

\* What is true of the packets a sequence of packets holds, in a state of the
\* invariant.
Typed ==
  /\ held \in Seq(Packets)
  /\ \A c \in Links : release[c] \in Seq(Packets) /\ wire[c] \in Seq(Packets \cup {Resume})
  /\ hand \in [Senders -> [link : Links \cup {None}, packet : Packets \cup {Resume}]]
  /\ routed \in 0..MaxPackets

LEMMA TypedFacts == IInv => Typed
BY DEF IInv, Streams, Fields, Typed

LEMMA InitPlaces == Init => PlacesInv
BY DEF Init, PlacesInv, Known, Once, Apart, InHand, NoneLost, Distinct, Contents, Empty

\* A new packet is nowhere yet.
LEMMA RoutePlaces ==
  ASSUME IInv, PlacesInv, NEW t \in Senders, Route(t)
  PROVE  PlacesInv'
<1>1. /\ UNCHANGED <<at, release, wire>> /\ hand[t] = Empty
      /\ routed' = routed + 1 /\ routed' \in Packets /\ routed \in Nat
  BY TypedFacts DEF Route, Typed, Packets
<1>4. 1..routed \subseteq 1..routed' /\ 0..routed \subseteq 0..routed' /\ routed' \in 1..routed'
  BY <1>1
<1>2. CASE one = None
  <2>1. hand' = hand
    BY <1>2 DEF Route
  <2>2. CASE Full
    <3>1. held' = held /\ dropped' = dropped \cup {routed'}
      BY <1>2, <2>2 DEF Route, HoldUnlessFull
    <3>2. Known' /\ Once'
      BY <1>1, <1>4, <2>1, <3>1 DEF PlacesInv, Known, Once
    <3>3. Apart' /\ InHand'
      BY <1>1, <2>1, <3>1 DEF PlacesInv, Apart, InHand
    <3>4. NoneLost'
      BY <1>1, <2>1, <3>1 DEF PlacesInv, NoneLost, Somewhere
    <3> QED BY <3>2, <3>3, <3>4 DEF PlacesInv
  <2>3. CASE ~Full
    <3>1. held' = Append(held, routed') /\ dropped' = dropped
      BY <1>2, <2>3 DEF Route, HoldUnlessFull
    <3>2. held \in Seq(Packets)
      BY TypedFacts DEF Typed
    <3>3. routed' \notin Contents(held)
      BY <1>1 DEF PlacesInv, Known
    <3>7. Contents(held') = Contents(held) \cup {routed'} /\ Distinct(held')
      BY <1>1, <3>1, <3>2, <3>3, Appended DEF PlacesInv, Once
    <3>4. Known' /\ Once'
      BY <1>1, <1>4, <2>1, <3>7 DEF PlacesInv, Known, Once
    <3>8. \A c \in Links : routed' \notin Contents(release[c]) /\ routed' \notin Contents(wire[c])
      BY <1>1 DEF PlacesInv, Known
    <3>9. \A u \in Senders : hand[u] # Empty => hand[u].packet # routed'
      BY <1>1 DEF PlacesInv, Known
    <3>5. Apart' /\ InHand'
      BY <1>1, <2>1, <3>7, <3>8, <3>9 DEF PlacesInv, Apart, InHand
    <3>6. NoneLost'
      BY <1>1, <2>1, <3>1, <3>7 DEF PlacesInv, NoneLost, Somewhere
    <3> QED BY <3>4, <3>5, <3>6 DEF PlacesInv
  <2> QED BY <2>2, <2>3
<1>3. CASE one # None
  <2>1. /\ hand' = [hand EXCEPT ![t] = [link |-> one, packet |-> routed']]
        /\ UNCHANGED <<held, dropped>>
    BY <1>3 DEF Route
  <2>2. /\ hand'[t].packet = routed'
        /\ \A u \in Senders : u # t => hand'[u] = hand[u]
    BY <2>1, TypedFacts DEF Typed
  <2>3. Known' /\ Once'
    BY <1>1, <1>4, <2>1, <2>2 DEF PlacesInv, Known, Once
  <2>6. Apart'
    BY <1>1, <2>1 DEF PlacesInv, Apart
  <2>4. InHand'
    BY <1>1, <2>1, <2>2 DEF PlacesInv, Known, InHand
  <2>5. NoneLost'
    <3>1. \A p \in 1..routed : hand[t].packet # p
      BY <1>1 DEF Empty
    <3> QED BY <1>1, <2>1, <2>2, <3>1 DEF PlacesInv, NoneLost, Somewhere
  <2> QED BY <2>3, <2>4, <2>5, <2>6 DEF PlacesInv
<1> QED BY <1>2, <1>3

LEMMA DeliverPlaces ==
  ASSUME IInv, PlacesInv, NEW t \in Senders, Deliver(t)
  PROVE  PlacesInv'
<1> DEFINE c == hand[t].link
           p == hand[t].packet
<1>1. /\ UNCHANGED <<at, held, release, routed>>
      /\ hand[t] # Empty /\ c \in Links /\ p \in 1..routed /\ p \in Packets
      /\ p # Resume
  BY TypedFacts DEF Deliver, IInv, Adopted, PlacesInv, Known, Typed, Packets
<1>2. /\ hand'[t] = Empty
      /\ \A u \in Senders : u # t => hand'[u] = hand[u]
  BY TypedFacts DEF Deliver, Typed
<1>3. /\ p \notin Contents(held)
      /\ \A d \in Links : p \notin Contents(release[d]) /\ p \notin Contents(wire[d])
      /\ \A u \in Senders : hand[u] # Empty /\ hand[u].packet = p => u = t
  BY <1>1 DEF PlacesInv, InHand
<1>4. \/ wire' = wire /\ dropped' = dropped \cup {p}
      \/ wire' = [wire EXCEPT ![c] = Append(@, p)] /\ dropped' = dropped
  BY DEF Deliver
<1> HIDE DEF c, p
<1>5. CASE wire' = wire /\ dropped' = dropped \cup {p}
  <2>1. Known' /\ Once'
    BY <1>1, <1>2, <1>5 DEF PlacesInv, Known, Once
  <2>3. Apart' /\ InHand'
    BY <1>1, <1>2, <1>5 DEF PlacesInv, Apart, InHand
  <2>2. NoneLost'
    BY <1>1, <1>2, <1>5 DEF PlacesInv, NoneLost, Somewhere, p
  <2> QED BY <2>1, <2>2, <2>3 DEF PlacesInv
<1>6. CASE wire' = [wire EXCEPT ![c] = Append(@, p)] /\ dropped' = dropped
  <2>1. /\ wire'[c] = Append(wire[c], p) /\ \A d \in Links : d # c => wire'[d] = wire[d]
    BY <1>1, <1>6 DEF IInv, Streams
  <2>7. wire[c] \in Seq(Packets \cup {Resume}) /\ p \in Packets \cup {Resume}
    BY <1>1, <1>3, TypedFacts DEF Typed
  <2>2. /\ Contents(wire'[c]) = Contents(wire[c]) \cup {p} /\ Distinct(wire'[c])
    BY <1>1, <1>3, <2>1, <2>7, Appended DEF PlacesInv, Once
  <2>8. \A d \in Links : \A q : q \in Contents(wire'[d]) <=> q \in Contents(wire[d]) \/ (d = c /\ q = p)
    BY <2>1, <2>2
  <2>3. Known' /\ Once'
    <3>1. p \in 0..routed
      BY <1>1, <1>3
    <3>2. Once'
      BY <1>1, <1>2, <2>1, <2>2, <2>8 DEF PlacesInv, Once
    <3>3. Known'
      BY <1>1, <1>2, <2>1, <2>2, <2>8, <3>1 DEF PlacesInv, Known
    <3> QED BY <3>2, <3>3
  <2>4. Apart'
    <3>1. \A d \in Links : \A q \in Contents(held) : q \notin Contents(wire'[d])
      BY <1>3, <2>8 DEF PlacesInv, Apart
    <3>2. \A d, e \in Links : \A q \in Contents(release[d]) : q \notin Contents(wire'[e])
      BY <1>3, <2>8 DEF PlacesInv, Apart
    <3>3. \A d, e \in Links : d # e => \A q \in Contents(wire'[d]) : q # Resume => q \notin Contents(wire'[e])
      BY <1>3, <2>8 DEF PlacesInv, Apart
    <3> QED BY <1>1, <3>1, <3>2, <3>3 DEF PlacesInv, Apart
  <2>5. InHand'
    BY <1>1, <1>2, <1>3, <2>8 DEF PlacesInv, InHand
  <2>6. NoneLost'
    <3>1. \A d \in Links : Contents(wire[d]) \subseteq Contents(wire'[d])
      BY <2>1, <2>2
    <3> QED BY <1>1, <1>2, <1>6, <2>2, <3>1 DEF PlacesInv, NoneLost, Somewhere, p
  <2> QED BY <2>3, <2>4, <2>5, <2>6 DEF PlacesInv
<1> QED BY <1>4, <1>5, <1>6

LEMMA AttachPlaces ==
  ASSUME IInv, PlacesInv, NEW c \in Links, Attach(c)
  PROVE  PlacesInv'
<1>1. /\ UNCHANGED <<routed, hand, dropped>> /\ at[c] = "staging"
      /\ held' = <<>> /\ release[c] = <<>> /\ wire[c] = <<>>
      /\ at'[c] = "releasing" /\ \A d \in Links : d # c => at'[d] = at[d]
  BY DEF Attach, AfterSwap, traffic, IInv, Fields, Adopted, PlacesInv, Known
<1>2. /\ release'[c] = held /\ wire'[c] = Append(<<>>, Resume)
      /\ \A d \in Links : d # c => release'[d] = release[d] /\ wire'[d] = wire[d]
  BY <1>1 DEF Attach, Announce, IInv, Streams
<1>3. /\ Contents(held') = {} /\ Distinct(held')
      /\ Contents(release[c]) = {} /\ Contents(wire[c]) = {}
  BY <1>1, TypedFacts, ContentsOf DEF Typed
<1>4. /\ Contents(wire'[c]) = {Resume} /\ Distinct(wire'[c])
  <2>1. wire'[c] = <<Resume>>
    BY <1>2
  <2> QED BY <2>1 DEF Contents, Distinct
<1>10. /\ \A d \in Links : \A q : q \in Contents(release'[d]) <=>
                                 q \in Contents(release[d]) \/ (d = c /\ q \in Contents(held))
       /\ \A d \in Links : \A q : q \in Contents(wire'[d]) <=>
                                 q \in Contents(wire[d]) \/ (d = c /\ q = Resume)
  BY <1>2, <1>3, <1>4
<1>5. routed \in Nat
  BY TypedFacts DEF Typed
<1>6. Known' /\ Once'
  BY <1>1, <1>2, <1>3, <1>4, <1>5 DEF PlacesInv, Known, Once
<1>7. Apart'
  <2>1. Resume \notin Contents(held) /\ \A d \in Links : Resume \notin Contents(release[d])
    BY DEF PlacesInv, Known
  <2>2. \A d \in Links : \A q \in Contents(held) : q \notin Contents(release[d]) /\ q \notin Contents(wire[d])
    BY DEF PlacesInv, Apart
  <2>3. \A d, e \in Links : \A q \in Contents(release'[d]) : q \notin Contents(wire'[e])
    BY <1>10, <2>1, <2>2 DEF PlacesInv, Apart
  <2>4. \A d, e \in Links : d # e => \A q \in Contents(release'[d]) : q \notin Contents(release'[e])
    BY <1>10, <2>2 DEF PlacesInv, Apart
  <2>5. \A d, e \in Links : d # e => \A q \in Contents(wire'[d]) : q # Resume => q \notin Contents(wire'[e])
    BY <1>10 DEF PlacesInv, Apart
  <2> QED BY <1>3, <2>3, <2>4, <2>5 DEF Apart
<1>8. InHand'
  BY <1>1, <1>2, <1>3, <1>4 DEF PlacesInv, InHand, Known
<1>9. NoneLost'
  <2> SUFFICES ASSUME NEW p \in 1..routed PROVE Somewhere(p)'
    BY <1>1 DEF NoneLost
  <2>1. Somewhere(p)
    BY DEF PlacesInv, NoneLost
  <2>2. p \in Contents(held) => p \in Contents(release'[c])
    BY <1>2
  <2>3. \A d \in Links : p \in Contents(release[d]) \cup Contents(wire[d]) =>
                           p \in Contents(release'[d]) \cup Contents(wire'[d])
    BY <1>2, <1>3
  <2> QED BY <1>1, <2>1, <2>2, <2>3 DEF Somewhere
<1> QED BY <1>6, <1>7, <1>8, <1>9 DEF PlacesInv

LEMMA ReleasePlaces ==
  ASSUME IInv, PlacesInv, NEW c \in Links, Release(c)
  PROVE  PlacesInv'
<1> DEFINE p == Head(release[c])
<1>1. /\ UNCHANGED <<at, held, routed, hand>> /\ at[c] = "releasing"
      /\ release[c] # <<>>
      /\ release'[c] = Tail(release[c]) /\ \A d \in Links : d # c => release'[d] = release[d]
  BY DEF Release, IInv, Streams
<1>2. /\ Contents(release[c]) = {p} \cup Contents(release'[c])
      /\ p \notin Contents(release'[c]) /\ Distinct(release'[c])
  BY <1>1, TypedFacts, ContentsOf DEF Typed, PlacesInv, Once
<1>3. /\ p \notin Contents(held) /\ p # Resume /\ p \in Packets /\ p \in 1..routed
      /\ \A d \in Links : p \notin Contents(wire[d]) /\ (d # c => p \notin Contents(release[d]))
      /\ \A t \in Senders : hand[t] # Empty => hand[t].packet # p
  <2>1. p \in Contents(release[c]) /\ p \in 1..routed
    BY <1>2 DEF PlacesInv, Known
  <2>2. p \in Packets /\ p # Resume
    BY <2>1, TypedFacts DEF Typed, Packets
  <2> QED BY <2>1, <2>2 DEF PlacesInv, Apart, InHand
<1>4. \/ wire' = wire /\ dropped' = dropped \cup {p}
      \/ wire' = [wire EXCEPT ![c] = Append(@, p)] /\ dropped' = dropped
  BY DEF Release
<1> HIDE DEF p
<1>5. CASE wire' = wire /\ dropped' = dropped \cup {p}
  <2>1. Known' /\ Once'
    BY <1>1, <1>2, <1>5 DEF PlacesInv, Known, Once
  <2>2. Apart' /\ InHand'
    BY <1>1, <1>2, <1>5 DEF PlacesInv, Apart, InHand
  <2>3. NoneLost'
    BY <1>1, <1>2, <1>5 DEF PlacesInv, NoneLost, Somewhere
  <2> QED BY <2>1, <2>2, <2>3 DEF PlacesInv
<1>6. CASE wire' = [wire EXCEPT ![c] = Append(@, p)] /\ dropped' = dropped
  <2>1. /\ wire'[c] = Append(wire[c], p) /\ \A d \in Links : d # c => wire'[d] = wire[d]
    BY <1>6 DEF IInv, Streams
  <2>7. wire[c] \in Seq(Packets \cup {Resume}) /\ p \in Packets \cup {Resume}
    BY <1>1, <1>3, TypedFacts DEF Typed
  <2>2. /\ Contents(wire'[c]) = Contents(wire[c]) \cup {p} /\ Distinct(wire'[c])
    BY <1>1, <1>3, <2>1, <2>7, Appended DEF PlacesInv, Once
  <2>8. \A d \in Links : \A q : q \in Contents(wire'[d]) <=> q \in Contents(wire[d]) \/ (d = c /\ q = p)
    BY <2>1, <2>2
  <2>9. \A d \in Links : \A q : q \in Contents(release'[d]) <=> q \in Contents(release[d]) /\ ~(d = c /\ q = p)
    BY <1>1, <1>2
  <2>3. Known' /\ Once'
    <3>1. p \in 0..routed
      BY <1>1, <1>3
    <3>2. Once'
      BY <1>1, <1>2, <1>3, <2>1, <2>2, <2>8 DEF PlacesInv, Once
    <3>3. Known'
      BY <1>1, <1>2, <1>3, <2>1, <2>2, <2>8, <3>1 DEF PlacesInv, Known
    <3> QED BY <3>2, <3>3
  <2>4. Apart'
    <3>1. \A d \in Links : \A q \in Contents(held) : q \notin Contents(release'[d]) /\ q \notin Contents(wire'[d])
      BY <1>3, <2>8, <2>9 DEF PlacesInv, Apart
    <3>2. \A d, e \in Links : \A q \in Contents(release'[d]) : q \notin Contents(wire'[e])
      BY <1>3, <2>8, <2>9 DEF PlacesInv, Apart
    <3>3. \A d, e \in Links : d # e => \A q \in Contents(release'[d]) : q \notin Contents(release'[e])
      BY <2>9 DEF PlacesInv, Apart
    <3>4. \A d, e \in Links : d # e => \A q \in Contents(wire'[d]) : q # Resume => q \notin Contents(wire'[e])
      BY <1>3, <2>8 DEF PlacesInv, Apart
    <3> QED BY <1>1, <3>1, <3>2, <3>3, <3>4 DEF Apart
  <2>5. InHand'
    BY <1>1, <1>2, <1>3, <2>8 DEF PlacesInv, InHand
  <2>6. NoneLost'
    <3> SUFFICES ASSUME NEW q \in 1..routed PROVE Somewhere(q)'
      BY <1>1 DEF NoneLost
    <3>1. Somewhere(q)
      BY DEF PlacesInv, NoneLost
    <3>2. \A d \in Links : q \in Contents(release[d]) \cup Contents(wire[d]) =>
                             q \in Contents(release'[d]) \cup Contents(wire'[d])
      BY <1>1, <1>2, <2>1, <2>2
    <3> QED BY <1>1, <1>6, <3>1, <3>2 DEF Somewhere
  <2> QED BY <2>3, <2>4, <2>5, <2>6 DEF PlacesInv
<1> QED BY <1>4, <1>5, <1>6

LEMMA ClosePlaces ==
  ASSUME IInv, PlacesInv, Close
  PROVE  PlacesInv'
<1>1. /\ UNCHANGED <<at, release, wire, routed, hand>>
      /\ dropped' = dropped \cup Contents(held) /\ held' = <<>>
  BY DEF Close
<1>2. Contents(held') = {} /\ Distinct(held')
  BY <1>1 DEF Contents, Distinct
<1>3. Known' /\ Once' /\ Apart' /\ InHand'
  BY <1>1, <1>2 DEF PlacesInv, Known, Once, Apart, InHand
<1>4. NoneLost'
  BY <1>1 DEF PlacesInv, NoneLost, Somewhere
<1> QED BY <1>3, <1>4 DEF PlacesInv

LEMMA PlacesStep == IInv /\ PlacesInv /\ [Next]_vars => PlacesInv'
<1> SUFFICES ASSUME IInv, PlacesInv, [Next]_vars PROVE PlacesInv'
  OBVIOUS
<1>1. ASSUME NEW t \in Senders, Route(t) \/ Deliver(t) PROVE PlacesInv'
  BY <1>1, RoutePlaces, DeliverPlaces
<1>2. ASSUME NEW c \in Links, Attach(c) \/ Release(c) PROVE PlacesInv'
  BY <1>2, AttachPlaces, ReleasePlaces
<1>3. ASSUME NEW c \in Links, Claim(c) \/ Refuse(c) \/ Promoted(c) \/ Die(c) \/ Detach(c)
      PROVE  PlacesInv'
  <2>1. UNCHANGED <<held, release, wire, routed, hand, dropped>>
    BY <1>3 DEF Claim, Refuse, Promoted, Die, Detach, traffic
  <2>2. \A d \in Links : at'[d] # "releasing" => at[d] # "releasing" \/ release[d] = <<>>
    BY <1>3 DEF Claim, Refuse, Promoted, Die, Detach, IInv, Fields
  <2> QED BY <2>1, <2>2 DEF PlacesInv, Known, Once, Apart, InHand, NoneLost, Somewhere
<1>4. CASE Close
  BY <1>4, ClosePlaces
<1>5. CASE Expect \/ CloseOne \/ CloseZero \/ Forget \/ UNCHANGED vars
  <2>1. UNCHANGED <<at, held, release, wire, routed, hand, dropped>>
    BY <1>5 DEF Expect, CloseOne, CloseZero, Forget, traffic, vars
  <2> QED BY <2>1 DEF PlacesInv, Known, Once, Apart, InHand, NoneLost, Somewhere
<1> QED BY <1>1, <1>2, <1>3, <1>4, <1>5 DEF Next

\* No packet is lost or sent twice between the senders, the queue of held
\* packets and the threads of the sockets.
THEOREM PacketsAccounted == Spec => []Accounted
<1>1. IInv /\ PlacesInv => Accounted
  <2> SUFFICES ASSUME IInv, PlacesInv PROVE Accounted
    OBVIOUS
  <2>1. \A p \in 1..routed : Somewhere(p)
    BY DEF PlacesInv, NoneLost
  <2>2. \A p \in 1..routed : p \in Contents(held) =>
          \A c \in Links : p \notin Contents(release[c]) \cup Contents(wire[c])
    BY DEF PlacesInv, Apart
  <2>3. \A c \in Links, p \in 1..routed : Times(p, wire[c]) + Times(p, release[c]) <= 1
    <3> TAKE c \in Links, p \in 1..routed
    <3>1. /\ Times(p, wire[c]) = IF p \in Contents(wire[c]) THEN 1 ELSE 0
          /\ Times(p, release[c]) = IF p \in Contents(release[c]) THEN 1 ELSE 0
      BY DistinctOnce DEF PlacesInv, Once
    <3>2. ~(p \in Contents(wire[c]) /\ p \in Contents(release[c]))
      BY DEF PlacesInv, Apart
    <3> QED BY <3>1, <3>2
  <2>4. \A c, d \in Links : c # d =>
          Contents(wire[c]) \cap (Contents(wire[d]) \cup Contents(release[d])) \subseteq {Resume}
    BY DEF PlacesInv, Apart
  <2> QED BY <2>1, <2>2, <2>3, <2>4 DEF Accounted
<1> QED BY <1>1, InitInv, NextInv, InitPlaces, PlacesStep, PTL DEF Spec
=============================================================================
