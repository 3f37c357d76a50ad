--------------------------------- MODULE MCApp ---------------------------------
(* Instances of App for TLC. *)
EXTENDS App, TLC

CONSTANTS p1, p2, remote, o1, o2

MCPeers == {p1, p2}
MCOnePeer == {p1}
MCTickets == {remote}
MCTwoOffers == {o1, o2}
MCOneOffer == {o1}

\* The second offer states one byte less than its download has.
MCOfferSize == (o1 :> 2) @@ (o2 :> 1)
MCBlobSize == (o1 :> 2) @@ (o2 :> 2)
MCOneSize == (o1 :> 1)
MCNoSizes == [o \in {} |-> 0]
=============================================================================
