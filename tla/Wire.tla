--------------------------------- MODULE Wire ---------------------------------
(***************************************************************************)
(* The bytes of one transfer (src/src/protocol.rs): run_sender writes an   *)
(* offer on one stream of the connection, the handler reads it and writes  *)
(* its decision and its download statuses on the other.  Bytes arrive in   *)
(* pieces of any length, a read waits until it has all it asks for, and    *)
(* the connection may break at any time.  OfferProtocol takes offers and   *)
(* statuses for indivisible; this module shows when they are.              *)
(***************************************************************************)
EXTENDS Naturals, Sequences, SequencesExt

CONSTANTS
    Base,         \* values of a byte (256)
    LenBytes,     \* bytes of the length prefix (2)
    SizeBytes,    \* bytes of a file size and of a progress (8)
    NameMax,      \* longest name the reader takes (255)
    TicketMax,    \* longest ticket the reader takes (4096)
    Offers,       \* offers: name and ticket as bytes, and size
    Tickets,      \* byte strings that are blob tickets
    Counts,       \* byte counts reported as progress
    MaxStatuses   \* bound: statuses written, the decision included

ASSUME ByteAssumption == Base \in Nat /\ Base > 4
ASSUME WidthAssumption == {LenBytes, SizeBytes} \subseteq Nat \ {0}
ASSUME LimitAssumption == {NameMax, TicketMax, MaxStatuses} \subseteq Nat

\* n without its k least significant bytes; n fits into k bytes when nothing
\* is left of it.
Shifted(n, k) == LET q[i \in Nat] == IF i = 0 THEN n ELSE q[i - 1] \div Base IN q[k]
Fits(n, k) == Shifted(n, k) = 0

ASSUME OffersAssumption ==
    \A o \in Offers : /\ o \in [name : Seq(0 .. Base - 1), size : Nat, ticket : Tickets]
                      /\ Fits(o.size, SizeBytes)
ASSUME TicketsAssumption ==
    \A t \in Tickets : /\ t \in Seq(0 .. Base - 1) /\ Len(t) \in 1 .. TicketMax
                       /\ \A u \in Tickets : IsPrefix(t, u) => t = u
ASSUME CountsAssumption == \A n \in Counts : n \in Nat /\ Fits(n, SizeBytes)

VARIABLES
    offer,      \* the offer run_sender writes
    sent,       \* how many bytes of it are written
    up,         \* those not read yet
    finished,   \* the sender's stream has ended
    field,      \* what Offer::read_from reads next
    parsed,     \* what it has read
    wrote,      \* statuses the handler has written, or begun to write
    unsent,     \* the rest of the one it is writing
    down,       \* status bytes not read yet
    expects,    \* what run_sender reads next
    got,        \* statuses it has read
    lost        \* the connection is broken

upVars == <<sent, up, finished>>
readVars == <<field, parsed>>
statusVars == <<wrote, unsent, down, expects, got>>
vars == <<offer, upVars, readVars, statusVars, lost>>

-----------------------------------------------------------------------------
(* Encodings.  Numbers have their most significant byte first.             *)

\* Mutant: the least significant byte first.
WordLittle(n, width) == [i \in 1 .. width |-> Shifted(n, i - 1) % Base]

Word(n, width) == [i \in 1 .. width |-> Shifted(n, width - i) % Base]

Value(bytes) ==
    LET v[i \in 0 .. Len(bytes)] == IF i = 0 THEN 0 ELSE v[i - 1] * Base + bytes[i]
    IN  v[Len(bytes)]

Encoding ==
    Word(Len(offer.name), LenBytes) \o offer.name \o Word(offer.size, SizeBytes) \o offer.ticket

\* Declined 0, Accepted 1, Progress 2 with a count, Completed 3, Failed 4.
Status == [tag : {0, 1, 3, 4}, count : {0}] \cup [tag : {2}, count : Counts]

StatusEncoding(s) == <<s.tag>> \o IF s.tag = 2 THEN Word(s.count, SizeBytes) ELSE <<>>

Init ==
    /\ offer \in Offers /\ sent = 0 /\ up = <<>> /\ finished = FALSE
    /\ field = "length"
    /\ parsed = [length |-> 0, name |-> <<>>, size |-> 0, ticket |-> <<>>]
    /\ wrote = <<>> /\ unsent = <<>> /\ down = <<>> /\ expects = "decision"
    /\ got = <<>> /\ lost = FALSE

-----------------------------------------------------------------------------
(* The offer: Offer::write_to and Offer::read_from.                        *)

\* A name whose length does not fit the prefix is not written.
WriteOffer ==
    /\ ~finished /\ ~lost
    /\ Fits(Len(offer.name), LenBytes)
    /\ \E n \in sent + 1 .. Len(Encoding) :
         sent' = n /\ up' = up \o SubSeq(Encoding, sent + 1, n)
    /\ UNCHANGED <<offer, finished, readVars, statusVars, lost>>

\* The stream ends with finish, or with an error that drops it half written.
EndOffer ==
    /\ ~finished
    /\ finished' = TRUE
    /\ UNCHANGED <<offer, sent, up, readVars, statusVars, lost>>

Arrived(n) == SubSeq(up, 1, n)

\* Read n bytes; then go on to another field, or refuse.
Read(this, n, next, result) ==
    /\ field = this /\ Len(up) >= n
    /\ up' = SubSeq(up, n + 1, Len(up))
    /\ field' = next
    /\ parsed' = result
    /\ UNCHANGED <<offer, sent, finished, statusVars, lost>>

\* Mutants: names of the greatest length are refused; names of any length
\* are read.
ReadLengthStrict ==
    LET n == Value(Arrived(LenBytes)) IN
    Read("length", LenBytes, IF n < NameMax THEN "name" ELSE "refused", [parsed EXCEPT !.length = n])

ReadLengthUnchecked ==
    Read("length", LenBytes, "name", [parsed EXCEPT !.length = Value(Arrived(LenBytes))])

ReadLength ==
    LET n == Value(Arrived(LenBytes)) IN
    Read("length", LenBytes, IF n <= NameMax THEN "name" ELSE "refused", [parsed EXCEPT !.length = n])

\* The bytes are UTF-8: write_to takes them from a string.
ReadName ==
    Read("name", parsed.length, "size", [parsed EXCEPT !.name = Arrived(parsed.length)])

ReadSize ==
    Read("size", SizeBytes, "ticket", [parsed EXCEPT !.size = Value(Arrived(SizeBytes))])

\* The rest of the stream, to its end, must be a ticket.
ReadTicket ==
    /\ finished
    /\ Read("ticket", Len(up),
            IF Len(up) <= TicketMax /\ up \in Tickets THEN "done" ELSE "refused",
            [parsed EXCEPT !.ticket = up])

Missing ==
    CASE field = "length" -> Len(up) < LenBytes
      [] field = "name" -> Len(up) < parsed.length
      [] field = "size" -> Len(up) < SizeBytes
      [] OTHER -> FALSE

\* A read fails: the stream has ended too early, or the connection is lost.
ReadFails ==
    /\ field \notin {"done", "refused"}
    /\ lost \/ (finished /\ Missing)
    /\ field' = "refused"
    /\ UNCHANGED <<offer, upVars, parsed, statusVars, lost>>

-----------------------------------------------------------------------------
(* Decision and statuses: what the handler may write next, and how         *)
(* run_sender reads it with transfer_decision and DownloadStatus.          *)

WriteStatus ==
    /\ field = "done" /\ unsent = <<>> /\ Len(wrote) < MaxStatuses
    /\ \E s \in Status :
         /\ IF wrote = <<>> THEN s.tag \in {0, 1} ELSE s.tag > 1 /\ Last(wrote).tag \in {1, 2}
         /\ wrote' = Append(wrote, s)
         /\ unsent' = StatusEncoding(s)
    /\ UNCHANGED <<offer, upVars, readVars, down, expects, got, lost>>

\* Some more bytes of the status reach the sender.
Deliver ==
    /\ ~lost
    /\ \E n \in 1 .. Len(unsent) :
         /\ down' = down \o SubSeq(unsent, 1, n)
         /\ unsent' = SubSeq(unsent, n + 1, Len(unsent))
    /\ UNCHANGED <<offer, upVars, readVars, wrote, expects, got, lost>>

\* Mutant: a progress is taken for a status without a count.
AfterTagShort(tag) ==
    CASE tag \in {1, 2} -> "status"
      [] tag \in {0, 3, 4} -> "end"

\* What is read after a tag; an unexpected one is an error.
AfterTag(tag) ==
    CASE expects = "decision" /\ tag = 0 -> "end"
      [] expects = "decision" /\ tag = 1 -> "status"
      [] expects = "status" /\ tag = 2 -> "count"
      [] expects = "status" /\ tag \in {3, 4} -> "end"
      [] OTHER -> "error"

ReadTag ==
    /\ expects \in {"decision", "status"} /\ down # <<>>
    /\ expects' = AfterTag(Head(down))
    /\ got' = IF expects' \in {"end", "status"}
              THEN Append(got, [tag |-> Head(down), count |-> 0])
              ELSE got
    /\ down' = Tail(down)
    /\ UNCHANGED <<offer, upVars, readVars, wrote, unsent, lost>>

ReadCount ==
    /\ expects = "count" /\ Len(down) >= SizeBytes
    /\ expects' = "status"
    /\ got' = Append(got, [tag |-> 2, count |-> Value(SubSeq(down, 1, SizeBytes))])
    /\ down' = SubSeq(down, SizeBytes + 1, Len(down))
    /\ UNCHANGED <<offer, upVars, readVars, wrote, unsent, lost>>

\* A read fails with the connection, which the handler drops also when it
\* has refused the offer.
StatusFails ==
    /\ expects \notin {"end", "error"}
    /\ lost \/ field = "refused"
    /\ expects' = "error"
    /\ UNCHANGED <<offer, upVars, readVars, wrote, unsent, down, got, lost>>

LoseConnection ==
    /\ ~lost
    /\ lost' = TRUE
    /\ UNCHANGED <<offer, upVars, readVars, statusVars>>

Over == expects \in {"end", "error"} /\ UNCHANGED vars

Next ==
    \/ WriteOffer \/ EndOffer \/ ReadLength \/ ReadName \/ ReadSize
    \/ ReadTicket \/ ReadFails \/ WriteStatus \/ Deliver \/ ReadTag
    \/ ReadCount \/ StatusFails \/ LoseConnection \/ Over

Spec == Init /\ [][Next]_vars

-----------------------------------------------------------------------------
(* Properties.                                                             *)

\* The variables have their types; a name that is kept has at most the
\* length the reader allows.
TypeOK ==
    /\ offer \in Offers /\ sent \in 0 .. Len(Encoding)
    /\ {up, unsent, down, parsed.name, parsed.ticket} \subseteq Seq(0 .. Base - 1)
    /\ Len(parsed.name) <= NameMax
    /\ {parsed.length, parsed.size} \subseteq Nat
    /\ field \in {"length", "name", "size", "ticket", "done", "refused"}
    /\ expects \in {"decision", "status", "count", "end", "error"}
    /\ {wrote, got} \subseteq Seq(Status) /\ Len(wrote) <= MaxStatuses
    /\ {finished, lost} \subseteq BOOLEAN

\* An offer that read_from returns is the one that was written, complete to
\* the last byte of its ticket, although the ticket has no length prefix.
OfferIsIntact ==
    field = "done" => /\ parsed.name = offer.name
                      /\ parsed.size = offer.size
                      /\ parsed.ticket = offer.ticket

\* read_from refuses nothing that was written in full, except for names of
\* more than NameMax bytes - among them names that write_to lets pass.
OnlyLongNamesRefused ==
    field = "refused" => \/ Len(offer.name) > NameMax
                         \/ sent < Len(Encoding)
                         \/ lost

\* What run_sender reads is what the handler wrote, status by status and in
\* order: no byte of a count is taken for a status and no status for a
\* count, however the bytes are cut up; only a broken connection or a
\* refused offer is an error.
StatusesInStep ==
    /\ IsPrefix(got, wrote)
    /\ expects = "error" => lost \/ field = "refused"
    /\ expects = "end" => got = wrote
=============================================================================
