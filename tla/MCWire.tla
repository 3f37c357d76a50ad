-------------------------------- MODULE MCWire --------------------------------
(* A small instance of Wire for TLC: five values of a byte, one byte of     *)
(* length, two of size, names of at most three bytes.  The numbers 7, 17    *)
(* and 24 contain bytes that are also statuses.                             *)
EXTENDS Wire

MCTickets == {<<0>>, <<1, 2>>}
MCNames == {<<>>, <<2>>, <<3, 0, 1>>, <<0, 3, 1, 0>>, <<1, 1, 1, 1, 1>>}
MCOffers == [name : MCNames, size : {0, 7, 24}, ticket : MCTickets]
MCCounts == {0, 7, 17}
=============================================================================
