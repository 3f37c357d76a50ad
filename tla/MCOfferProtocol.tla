--------------------------- MODULE MCOfferProtocol ---------------------------
(* Instances of OfferProtocol for TLC. *)
EXTENDS OfferProtocol, TLC

CONSTANTS t1, t2, short, long, dir

\* Names are disjoint paths of one directory: "long" stands for an offer the
\* handler refuses to decode.
MCTransfers == {t1, t2}
MCOneTransfer == {t1}
MCNames == {short, long}
MCOneName == {short}
MCRejected == {long}
MCDirs == {dir}

Symmetry == Permutations(MCTransfers)
=============================================================================
