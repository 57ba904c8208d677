--------------------------- MODULE MCSecondStream ---------------------------
(* Two sessions behind one address compete for a redirect and for one      *)
(* socket; a session left alone has the other socket too.  Which sockets   *)
(* come is the clients' choice, of which no fairness is assumed, so these  *)
(* bounds hold up no step that must happen.                                *)
EXTENDS SecondStream

CONSTANTS First,        \* the socket they compete for
          Neighbour     \* the session whose client does not open it

OneSocketBetweenThem ==
  Cardinality({s \in Sessions : pc[s] # "gone"}) > 1
    => \A c \in Sockets \ {First} : at[c] = "new"

\* Exchanging the sessions turns every other behaviour into such a one.
NotByTheNeighbour == opener[First] # Neighbour

MCNext == StreamNext /\ OneSocketBetweenThem' /\ NotByTheNeighbour'

MCSpec == StreamInit /\ [][MCNext]_streamVars /\ StreamFairness
=============================================================================
