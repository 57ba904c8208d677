----------------------------- MODULE ByteStream -----------------------------
(***************************************************************************)
(* What a connection's outbound queue promises to both of its users: the   *)
(* bytes accepted from producers leave towards the socket in the order in  *)
(* which they were accepted, each one once, and none is dropped.  Buffers, *)
(* partial writes and write ownership do not show at this level.           *)
(***************************************************************************)
EXTENDS Naturals, Sequences

CONSTANT Byte           \* what a byte can be

VARIABLES queue,        \* accepted and not yet delivered, oldest first
          delivered     \* everything handed to the socket, oldest first

vars == <<queue, delivered>>

TypeOK == /\ queue \in Seq(Byte)
          /\ delivered \in Seq(Byte)

Init == /\ queue = <<>>
        /\ delivered = <<>>

\* Some bytes are accepted: the queue grows at its far end only.
Accept == /\ queue' \in Seq(Byte)
          /\ Len(queue') > Len(queue)
          /\ SubSeq(queue', 1, Len(queue)) = queue
          /\ UNCHANGED delivered

\* The oldest n bytes reach the socket.

Deliver == \E n \in 1..Len(queue) :
             /\ delivered' = delivered \o SubSeq(queue, 1, n)
             /\ queue' = SubSeq(queue, n + 1, Len(queue))

Next == Accept \/ Deliver

Spec == Init /\ [][Next]_vars
=============================================================================
