------------------------------ MODULE MCTerminal ------------------------------
(* Instances of Terminal for TLC. *)
EXTENDS Terminal, TLC

CONSTANTS p1, p2, remote, o1, o2

MCWords == {"send", "receive", "help", "version", "file", "ticket"}
MCPeers == {p1, p2}
MCLines == {"y", "garbled", "0", "1", "2"}
MCNumber == ("0" :> 0) @@ ("1" :> 1) @@ ("2" :> 2)
MCOffers == {o1, o2}
=============================================================================
