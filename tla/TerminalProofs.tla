----------------------------- MODULE TerminalProofs -----------------------------
(***************************************************************************)
(* Proofs about Terminal, for any devices, lines and offers and any        *)
(* capacity of the queue: how the program ends, whom it sends to, and that *)
(* its receive loop is a front end.                                        *)
(***************************************************************************)
EXTENDS Terminal, SequenceTheorems, FiniteSetTheorems, TLAPS

-----------------------------------------------------------------------------
(* Types.  The list that is printed is a sequence because there are        *)
(* finitely many devices in view at any moment.                            *)

TypeInv == TypeOK /\ IsFiniteSet(nearby)

\* What is left of the input after a line has been read.
LEMMA ReadLineType ==
    ASSUME TypeOK, NEW line, ReadLine(line)
    PROVE  stdin' \in Seq(Lines) /\ Len(stdin') <= TypeAhead
<1>1. stdin \in Seq(Lines) /\ Len(stdin) \in Nat /\ Len(stdin) <= TypeAhead /\ TypeAhead \in Nat
  BY LenProperties, BoundsAssumption DEF TypeOK
<1>2. ASSUME NEW n \in 1 .. Len(stdin), stdin' = SubSeq(stdin, n + 1, Len(stdin))
      PROVE  stdin' \in Seq(Lines) /\ Len(stdin') <= TypeAhead
  <2>1. \A i \in n + 1 .. Len(stdin) : i \in 1 .. Len(stdin)
    BY <1>1
  <2>2. \A i \in n + 1 .. Len(stdin) : stdin[i] \in Lines
    BY <1>1, <2>1, ElementOfSeq
  <2>3. n + 1 \in Int /\ Len(stdin) \in Int
    BY <1>1
  <2>4. /\ SubSeq(stdin, n + 1, Len(stdin)) \in Seq(Lines)
        /\ Len(SubSeq(stdin, n + 1, Len(stdin)))
             = IF n + 1 <= Len(stdin) THEN Len(stdin) - (n + 1) + 1 ELSE 0
    BY <2>2, <2>3, SubSeqProperties
  <2> QED
    BY <1>1, <1>2, <2>4
<1> QED
  BY <1>1, <1>2 DEF ReadLine

\* Dropping the offers.
LEMMA DropType ==
    ASSUME TypeOK, DropOffers
    PROVE  /\ queue' \in Seq(Offers) /\ Len(queue') <= QueueCap
           /\ shown' \in Offers \cup {NoOffer}
           /\ answer' \in [Offers -> {"none", "accept", "decline", "dropped"}]
<1>1. queue' \in Seq(Offers) /\ Len(queue') = 0
  BY EmptySeq DEF DropOffers
<1> QED
  BY <1>1, BoundsAssumption DEF DropOffers, TypeOK

\* An order of the devices in view is a list of them.
LEMMA OrdersType ==
    ASSUME TypeInv, NEW order \in Orders
    PROVE  order \in Seq(Peers)
<1>1. Cardinality(nearby) \in Nat
  BY FS_CardinalityType DEF TypeInv
<1>2. order \in [1 .. Cardinality(nearby) -> nearby]
  BY DEF Orders, Bijection, Injection
<1>3. nearby \subseteq Peers
  BY DEF TypeInv, TypeOK, DiscoveryTypeOK
<1> QED
  BY <1>1, <1>2, <1>3

LEMMA TypeInit == Init => TypeInv
<1> SUFFICES ASSUME Init PROVE TypeInv
  OBVIOUS
<1>1. /\ queue \in Seq(Offers) /\ Len(queue) = 0
      /\ stdin \in Seq(Lines) /\ Len(stdin) = 0
      /\ list \in Seq(Peers)
  BY EmptySeq DEF Init
<1>2. IsFiniteSet(nearby)
  BY FS_EmptySet DEF Init, DiscoveryInit
<1>3. Len(queue) <= QueueCap /\ Len(stdin) <= TypeAhead
  BY <1>1, BoundsAssumption
<1>4. answer \in [Offers -> {"none", "accept", "decline", "dropped"}]
  BY DEF Init
<1>5. DiscoveryTypeOK
  BY DEF Init, DiscoveryInit, DiscoveryTypeOK
<1>6. TypeOK
  BY <1>1, <1>3, <1>4, <1>5 DEF Init, TypeOK
<1> QED
  BY <1>2, <1>6 DEF TypeInv

\* main is at one of its places, and takes one of the commands it has
\* parsed to the place of that command.
CommandInv == at \notin {"parse", "exited"} => command \in {"ui", "send", "send_to", "receive"}

\* The steps of main.
LEMMA MainTyping ==
    ASSUME TypeOK, IsFiniteSet(nearby), CommandInv, MainStep
    PROVE  TypeOK'
<1> USE DEF discoveryVars, inputVars, selectVars, offerVars, DiscoveryTypeOK
<1>1. CASE ParseArguments
  BY <1>1 DEF ParseArguments, Command, TypeOK
<1>2. CASE BindEndpoint
  <2>1. CASE UNCHANGED offerVars
    BY <1>2, <2>1 DEF BindEndpoint, Abandon, TypeOK
  <2>2. CASE Abandon("not_started")
    BY <1>2, <2>2, DropType DEF BindEndpoint, Abandon, TypeOK
  <2> QED
    BY <1>2, <2>1, <2>2 DEF BindEndpoint
<1>3. CASE Announce
  <2>1. CASE Abandon("not_started")
    <3>1. recipient' \in Peers \cup {Remote, NoId}
      BY <1>3 DEF Announce, TypeOK
    <3> QED
      BY <1>3, <2>1, <3>1, DropType DEF Announce, Abandon, TypeOK
  <2>2. CASE ~Abandon("not_started")
    <3>1. command \in {"ui", "send", "send_to", "receive"}
      BY <1>3 DEF Announce, CommandInv
    <3>2. /\ at' \in {"window", "searching", "sending", "waiting"}
          /\ recipient' \in {Remote, NoId}
          /\ UNCHANGED <<result, router, offerVars>>
      BY <1>3, <2>2, <3>1 DEF Announce
    <3> QED
      BY <1>3, <3>2 DEF Announce, TypeOK
  <2> QED
    BY <2>1, <2>2
<1>4. ASSUME NEW res \in {"ok", "err"}, End(res)
      PROVE  /\ at' = "ended" /\ result' = res /\ UNCHANGED router
             /\ queue' \in Seq(Offers) /\ Len(queue') <= QueueCap
             /\ shown' \in Offers \cup {NoOffer}
             /\ answer' \in [Offers -> {"none", "accept", "decline", "dropped"}]
  BY <1>4, DropType DEF End
<1>5. CASE CommandReturns
  BY <1>4, <1>5 DEF CommandReturns, TypeOK
<1>6. CASE Search
  BY <1>4, <1>6 DEF Search, TypeOK
<1>7. CASE PrintList
  <2>1. list' \in Seq(Peers)
    BY <1>7, OrdersType DEF PrintList, TypeInv
  <2> QED
    BY <1>7, <2>1 DEF PrintList, TypeOK
<1>8. CASE Choose
  <2>1. PICK line \in Line :
          /\ ReadLine(line)
          /\ IF line \in DOMAIN Number /\ Number[line] \in 1 .. Len(list)
             THEN /\ at' = "sending"
                  /\ recipient' = list[Number[line]]
                  /\ UNCHANGED <<result, router, offerVars>>
             ELSE End("err") /\ UNCHANGED recipient
    BY <1>8 DEF Choose, Select
  <2>2. stdin' \in Seq(Lines) /\ Len(stdin') <= TypeAhead
    BY <2>1, ReadLineType
  <2>3. ASSUME Number[line] \in 1 .. Len(list), recipient' = list[Number[line]]
        PROVE  recipient' \in Peers
    BY <2>3, ElementOfSeq DEF TypeOK
  <2>4. recipient' \in Peers \cup {Remote, NoId}
    BY <2>1, <2>3 DEF TypeOK
  <2>5. CASE End("err")
    BY <1>4, <1>8, <2>2, <2>4, <2>5 DEF Choose, Select, TypeOK
  <2>6. CASE at' = "sending" /\ UNCHANGED <<result, router, offerVars>>
    <3>1. UNCHANGED <<discoveryVars, command, signal, eof, list>>
      BY <1>8 DEF Choose, Select
    <3> QED
      BY <2>2, <2>4, <2>6, <3>1 DEF TypeOK
  <2> QED
    BY <2>1, <2>5, <2>6
<1>9. CASE InterruptLoop
  <2>1. PICK res \in {"ok", "err"} : End(res)
    BY <1>9 DEF InterruptLoop, CatchSignal
  <2>2. signal' = FALSE /\ UNCHANGED <<discoveryVars, command, inputVars, selectVars>>
    BY <1>9 DEF InterruptLoop, CatchSignal
  <2>3. /\ at' = "ended" /\ result' \in {"ok", "err"} /\ UNCHANGED router
        /\ queue' \in Seq(Offers) /\ Len(queue') <= QueueCap
        /\ shown' \in Offers \cup {NoOffer}
        /\ answer' \in [Offers -> {"none", "accept", "decline", "dropped"}]
    BY <1>4, <2>1
  <2>4. DiscoveryTypeOK' /\ stdin' \in Seq(Lines) /\ Len(stdin') <= TypeAhead
    BY <2>2 DEF TypeOK
  <2> QED
    BY <2>2, <2>3, <2>4 DEF TypeOK
<1>10. CASE ShowOffer
  <2>1. /\ queue' \in Seq(Offers) /\ Len(queue') <= QueueCap
        /\ shown' \in Offers
    <3>1. queue \in Seq(Offers) /\ queue # <<>> /\ Len(queue) \in Nat /\ Len(queue) <= QueueCap
      BY <1>10, LenProperties DEF ShowOffer, TypeOK
    <3>2. Head(queue) \in Offers /\ Tail(queue) \in Seq(Offers) /\ Len(Tail(queue)) = Len(queue) - 1
      BY <3>1, HeadTailProperties
    <3> QED
      <4>1. queue' = Tail(queue) /\ shown' = Head(queue)
        BY <1>10 DEF ShowOffer
      <4>2. Len(Tail(queue)) <= QueueCap
        BY <3>1, <3>2, BoundsAssumption
      <4> QED
        BY <3>2, <4>1, <4>2
  <2>2. /\ at' = "confirming" /\ signal' = FALSE
        /\ UNCHANGED <<discoveryVars, command, result, router, inputVars, selectVars, answer>>
    BY <1>10 DEF ShowOffer
  <2>3. DiscoveryTypeOK' /\ stdin' \in Seq(Lines) /\ Len(stdin') <= TypeAhead
    BY <2>2 DEF TypeOK
  <2> QED
    BY <2>1, <2>2, <2>3 DEF TypeOK
<1>11. CASE Confirm
  <2>1. PICK line \in Line :
          /\ ReadLine(line)
          /\ IF line \in Garbled THEN End("err") ELSE NextOffer /\ TellHandler(line)
    BY <1>11 DEF Confirm
  <2>2. stdin' \in Seq(Lines) /\ Len(stdin') <= TypeAhead
    BY <2>1, ReadLineType
  <2>3. CASE End("err")
    BY <1>4, <1>11, <2>2, <2>3 DEF Confirm, TypeOK
  <2>4. CASE NextOffer /\ TellHandler(line)
    <3>1. answer' \in [Offers -> {"none", "accept", "decline", "dropped"}]
      BY <2>4 DEF TellHandler, TypeOK
    <3> QED
      BY <1>11, <2>2, <2>4, <3>1 DEF Confirm, NextOffer, TypeOK
  <2> QED
    BY <2>1, <2>3, <2>4
<1>12. CASE Shutdown
  BY <1>12 DEF Shutdown, TypeOK
<1> QED
  BY <1>1, <1>2, <1>3, <1>5, <1>6, <1>7, <1>8, <1>9, <1>10, <1>11, <1>12 DEF MainStep

\* What happens around main.
LEMMA AroundTyping ==
    ASSUME TypeOK,
           \/ CtrlC \/ TypeLine \/ EndInput \/ DeviceEvent \/ Exited
           \/ \E o \in Offers : OfferArrives(o)
    PROVE  TypeOK'
<1> USE DEF discoveryVars, mainVars, inputVars, selectVars, offerVars, DiscoveryTypeOK
<1>1. CASE CtrlC
  <2>1. CASE Abandon("killed") /\ UNCHANGED signal
    BY <1>1, <2>1, DropType DEF CtrlC, Abandon, TypeOK
  <2>2. CASE signal' = (at = "waiting") /\ UNCHANGED <<at, result, router, offerVars>>
    <3>1. signal' \in BOOLEAN
      BY <2>2
    <3> QED
      BY <1>1, <2>2, <3>1 DEF CtrlC, TypeOK
  <2> QED
    BY <1>1, <2>1, <2>2 DEF CtrlC
<1>2. CASE TypeLine
  <2>1. stdin' \in Seq(Lines) /\ Len(stdin') <= TypeAhead
    <3>1. stdin \in Seq(Lines) /\ Len(stdin) \in Nat /\ Len(stdin) < TypeAhead /\ TypeAhead \in Nat
      BY <1>2, LenProperties, BoundsAssumption DEF TypeLine, TypeOK
    <3>2. \A l \in Lines : Append(stdin, l) \in Seq(Lines) /\ Len(Append(stdin, l)) = Len(stdin) + 1
      BY <3>1, AppendProperties
    <3> QED
      BY <1>2, <3>1, <3>2 DEF TypeLine
  <2> QED
    BY <1>2, <2>1 DEF TypeLine, TypeOK
<1>3. CASE EndInput
  BY <1>3 DEF EndInput, TypeOK
<1>4. CASE DeviceEvent
  <2>1. nearby' \subseteq Peers /\ nearbyFresh' \in BOOLEAN /\ discovering' \in BOOLEAN
    BY <1>4 DEF DeviceEvent, Discovered, Expired, DiscoveryStops, TypeOK
  <2> QED
    BY <1>4, <2>1 DEF DeviceEvent, TypeOK
<1>5. CASE Exited
  BY <1>5 DEF Exited, vars, TypeOK
<1>6. ASSUME NEW o \in Offers, OfferArrives(o)
      PROVE  TypeOK'
  <2>1. queue' \in Seq(Offers) /\ Len(queue') <= QueueCap
    <3>1. /\ queue \in Seq(Offers) /\ Len(queue) \in Nat /\ Len(queue) < QueueCap
          /\ queue' = Append(queue, o)
      BY <1>6, LenProperties DEF OfferArrives, Enqueue, TypeOK
    <3>2. queue' \in Seq(Offers) /\ Len(queue') = Len(queue) + 1
      BY <3>1, AppendProperties
    <3> QED
      BY <3>1, <3>2, BoundsAssumption
  <2> QED
    BY <1>6, <2>1 DEF OfferArrives, Enqueue, TypeOK
<1> QED
  BY <1>1, <1>2, <1>3, <1>4, <1>5, <1>6

\* Finitely many devices stay finitely many.
LEMMA NearbyFinite == IsFiniteSet(nearby) /\ [Next]_vars => IsFiniteSet(nearby')
<1> SUFFICES ASSUME IsFiniteSet(nearby), [Next]_vars PROVE IsFiniteSet(nearby')
  OBVIOUS
<1>1. \/ nearby' = nearby
      \/ \E p \in Peers : nearby' = nearby \cup {p} \/ nearby' = nearby \ {p}
  BY DEF Next, vars, MainStep, ParseArguments, BindEndpoint, Announce, CommandReturns, Search,
     PrintList, Choose, Select, InterruptLoop, CatchSignal, ShowOffer, Confirm, Shutdown, CtrlC,
     TypeLine, EndInput, OfferArrives, Enqueue, DeviceEvent, Exited, Discovered, Expired,
     DiscoveryStops, discoveryVars
<1> QED
  BY <1>1, FS_AddElement, FS_RemoveElement

-----------------------------------------------------------------------------
(***************************************************************************)
(* How the program ends.  Which offers are held at the end, and what       *)
(* becomes of the router, is decided by the steps before: PlaceInv ties    *)
(* the router, the offers and the chosen device to the place main is at.   *)
(***************************************************************************)

RouterInv ==
    /\ at \in {"parse", "binding"} => router = "off"
    /\ at \notin {"parse", "binding", "exited"} => router = "on"
    /\ at = "exited" => /\ router # "on"
                        /\ router \in {"off", "down"} \/ result \in {"killed", "not_started"}

HoldInv ==
    /\ router # "on" \/ at \in {"ended", "exited"} => queue = <<>>
    /\ shown # NoOffer <=> at = "confirming"

SelectInv == at \in {"searching", "settling", "choosing"} => recipient = NoId

PlaceInv == CommandInv /\ RouterInv /\ HoldInv /\ SelectInv

IInv == TypeInv /\ PlaceInv /\ RecipientWasListed

\* main ends its command, or the process ends without a shutdown.
LEMMA EndPlace ==
    ASSUME PlaceInv, NEW res, End(res), at \notin {"parse", "binding", "exited"},
           UNCHANGED command
    PROVE  PlaceInv'
BY DEF PlaceInv, CommandInv, RouterInv, HoldInv, SelectInv, End, DropOffers

LEMMA AbandonPlace ==
    ASSUME PlaceInv, NEW res \in {"killed", "not_started"}, Abandon(res)
    PROVE  PlaceInv'
BY DEF PlaceInv, CommandInv, RouterInv, HoldInv, SelectInv, Abandon, DropOffers

LEMMA MainPlace ==
    ASSUME TypeOK, PlaceInv, MainStep
    PROVE  PlaceInv'
<1> USE DEF inputVars, selectVars, offerVars
<1> USE DEF PlaceInv, CommandInv, RouterInv, HoldInv, SelectInv
<1>1. CASE ParseArguments
  BY <1>1 DEF ParseArguments
<1>2. CASE BindEndpoint
  <2>1. CASE Abandon("not_started")
    BY <2>1, AbandonPlace
  <2>2. CASE UNCHANGED offerVars
    BY <1>2, <2>2, <2>1 DEF BindEndpoint
  <2> QED
    BY <1>2, <2>1, <2>2 DEF BindEndpoint
<1>3. CASE Announce
  <2>1. CASE Abandon("not_started")
    BY <2>1, AbandonPlace
  <2>2. CASE ~Abandon("not_started")
    <3>1. command \in {"ui", "send", "send_to", "receive"} /\ at = "announcing"
      BY <1>3 DEF Announce
    <3>2. /\ at' \in {"window", "searching", "sending", "waiting"}
          /\ at' = "searching" => recipient' = NoId
          /\ UNCHANGED <<router, offerVars, command>>
      BY <1>3, <2>2, <3>1 DEF Announce
    <3> QED
      BY <3>1, <3>2
  <2> QED
    BY <2>1, <2>2
<1>4. CASE CommandReturns
  BY <1>4, EndPlace DEF CommandReturns
<1>5. CASE Search
  <2>1. CASE End("err")
    BY <1>5, <2>1, EndPlace DEF Search
  <2>2. CASE at' = "settling" /\ UNCHANGED <<result, router, offerVars>>
    BY <1>5, <2>2 DEF Search
  <2> QED
    BY <1>5, <2>1, <2>2 DEF Search
<1>6. CASE PrintList
  BY <1>6 DEF PrintList
<1>7. CASE Choose
  <2>1. CASE End("err")
    BY <1>7, <2>1, EndPlace DEF Choose, Select
  <2>2. CASE at' = "sending" /\ UNCHANGED <<result, router, offerVars>>
    BY <1>7, <2>2 DEF Choose, Select
  <2> QED
    BY <1>7, <2>1, <2>2 DEF Choose, Select
<1>8. CASE InterruptLoop
  BY <1>8, EndPlace DEF InterruptLoop, CatchSignal
<1>9. CASE ShowOffer
  <2>1. Head(queue) \in Offers
    BY <1>9, HeadTailProperties DEF ShowOffer, TypeOK
  <2> QED
    BY <1>9, <2>1, NothingAssumption DEF ShowOffer
<1>10. CASE Confirm
  <2>1. CASE End("err")
    BY <1>10, <2>1, EndPlace DEF Confirm
  <2>2. CASE NextOffer
    BY <1>10, <2>2 DEF Confirm, NextOffer
  <2> QED
    BY <1>10, <2>1, <2>2 DEF Confirm
<1>11. CASE Shutdown
  BY <1>11 DEF Shutdown
<1> QED
  BY <1>1, <1>2, <1>3, <1>4, <1>5, <1>6, <1>7, <1>8, <1>9, <1>10, <1>11 DEF MainStep

LEMMA AroundPlace ==
    ASSUME PlaceInv,
           \/ CtrlC \/ TypeLine \/ EndInput \/ DeviceEvent \/ Exited
           \/ \E o \in Offers : OfferArrives(o)
    PROVE  PlaceInv'
<1> USE DEF inputVars, selectVars, offerVars, mainVars
<1> USE DEF PlaceInv, CommandInv, RouterInv, HoldInv, SelectInv
<1>1. CASE CtrlC
  <2>1. CASE Abandon("killed")
    BY <2>1, AbandonPlace
  <2>2. CASE UNCHANGED <<at, result, router, offerVars>>
    BY <1>1, <2>2 DEF CtrlC
  <2> QED
    BY <1>1, <2>1, <2>2 DEF CtrlC
<1>2. CASE TypeLine \/ EndInput \/ DeviceEvent
  BY <1>2 DEF TypeLine, EndInput, DeviceEvent
<1>3. CASE Exited
  BY <1>3 DEF Exited, vars
<1>4. ASSUME NEW o \in Offers, OfferArrives(o)
      PROVE  PlaceInv'
  <2>1. router = "on" /\ at \notin {"ended", "exited"}
    BY <1>4 DEF OfferArrives, Enqueue
  <2> QED
    BY <1>4, <2>1 DEF OfferArrives, Enqueue
<1> QED
  BY <1>1, <1>2, <1>3, <1>4

\* run_sender is given a device once, from the list that was printed.
LEMMA RecipientKept ==
    ASSUME PlaceInv, RecipientWasListed, [Next]_vars
    PROVE  RecipientWasListed'
<1> USE DEF RecipientWasListed, selectVars
<1>1. CASE UNCHANGED <<recipient, list>>
  BY <1>1
<1>2. CASE Announce
  <2>1. recipient' \in {recipient, Remote, NoId} /\ UNCHANGED list
    BY <1>2 DEF Announce
  <2> QED
    BY <2>1
<1>3. CASE PrintList
  BY <1>3 DEF PrintList, PlaceInv, SelectInv
<1>4. CASE Choose
  BY <1>4 DEF Choose, Select
<1> QED
  BY <1>1, <1>2, <1>3, <1>4 DEF Next, vars, MainStep, ParseArguments, BindEndpoint, CommandReturns,
     Search, InterruptLoop, CatchSignal, ShowOffer, Confirm, Shutdown, CtrlC, TypeLine, EndInput,
     OfferArrives, Enqueue, DeviceEvent, Exited

LEMMA Inductive == IInv /\ [Next]_vars => IInv'
<1> SUFFICES ASSUME IInv, [Next]_vars PROVE IInv'
  OBVIOUS
<1>1. TypeOK /\ IsFiniteSet(nearby) /\ CommandInv /\ PlaceInv /\ RecipientWasListed
  BY DEF IInv, TypeInv, PlaceInv
<1>2. IsFiniteSet(nearby)'
  BY <1>1, NearbyFinite
<1>3. CASE UNCHANGED vars
  <2>1. TypeOK' /\ PlaceInv'
    BY <1>1, <1>3 DEF vars, discoveryVars, mainVars, inputVars, selectVars, offerVars, TypeOK,
       DiscoveryTypeOK, PlaceInv, CommandInv, RouterInv, HoldInv, SelectInv
  <2> QED
    BY <1>1, <1>2, <2>1, RecipientKept DEF IInv, TypeInv
<1>4. CASE Next
  <2>1. TypeOK'
    BY <1>1, <1>4, MainTyping, AroundTyping DEF Next
  <2>2. PlaceInv'
    BY <1>1, <1>4, MainPlace, AroundPlace DEF Next
  <2> QED
    BY <1>1, <1>2, <2>1, <2>2, RecipientKept DEF IInv, TypeInv
<1> QED
  BY <1>3, <1>4

LEMMA Initial == Init => IInv
BY TypeInit DEF Init, IInv, PlaceInv, CommandInv, RouterInv, HoldInv, SelectInv, RecipientWasListed

LEMMA Invariance == Spec => []IInv
BY Initial, Inductive, PTL DEF Spec

\* The variables of the program keep their types, and the queue of offers
\* and the lines typed ahead their bounds.
THEOREM Typing == Spec => []TypeOK
<1>1. IInv => TypeOK
  BY DEF IInv, TypeInv
<1> QED
  BY <1>1, Invariance, PTL

\* However the program ends - the command succeeds or fails, the start
\* fails, Ctrl-C kills it - the router was shut down unless there was no
\* time for it, and no offer is left waiting for an answer.
THEOREM ProgramEndsOrderly == Spec => []EndsOrderly
<1>1. IInv => EndsOrderly
  <2> SUFFICES ASSUME IInv, at = "exited"
               PROVE  /\ router \in {"off", "down"} \/ result \in {"killed", "not_started"}
                      /\ \A o \in Offers : ~Held(o)
    BY DEF EndsOrderly
  <2>1. queue = <<>> /\ shown = NoOffer /\ Len(queue) = 0
    BY EmptySeq DEF IInv, PlaceInv, HoldInv
  <2>2. \A o \in Offers : ~Held(o)
    BY <2>1, NothingAssumption DEF Held
  <2> QED
    BY <2>2 DEF IInv, PlaceInv, RouterInv
<1> QED
  BY <1>1, Invariance, PTL

\* send without a ticket gives the file to a device of the list the user
\* chose from, whatever discovery has found or lost in the meantime.
THEOREM RecipientIsListed == Spec => []RecipientWasListed
<1>1. IInv => RecipientWasListed
  BY DEF IInv
<1> QED
  BY <1>1, Invariance, PTL

-----------------------------------------------------------------------------
(***************************************************************************)
(* The terminal implements FrontEnd.  Its front end is open until main has *)
(* ended the command or the process is gone.                               *)
(***************************************************************************)

\* Dropping the offers while the front end is open closes it.
LEMMA FrontCloses ==
    ASSUME DropOffers, at \notin {"ended", "exited"}, at' \in {"ended", "exited"}
    PROVE  Front!Close
BY DEF DropOffers, Held, Front!Close, Front!Held

LEMMA FrontUntouched ==
    ASSUME UNCHANGED offerVars, at' \in {"ended", "exited"} <=> at \in {"ended", "exited"}
    PROVE  UNCHANGED Front!frontVars
<1>1. (at \notin {"ended", "exited"})' <=> at \notin {"ended", "exited"}
  OBVIOUS
<1> QED
  BY <1>1 DEF offerVars, Front!frontVars

\* Nothing is held before the router is there and after the command has ended.
LEMMA NothingHeld ==
    ASSUME IInv, router # "on" \/ at = "ended"
    PROVE  /\ queue = <<>> /\ shown = NoOffer
           /\ answer = [o \in Offers |-> IF Held(o) THEN "dropped" ELSE answer[o]]
<1>1. queue = <<>> /\ shown = NoOffer /\ Len(queue) = 0
  BY EmptySeq DEF IInv, PlaceInv, HoldInv, RouterInv
<1>2. \A o \in Offers : ~Held(o)
  BY <1>1, NothingAssumption DEF Held
<1> QED
  BY <1>1, <1>2 DEF IInv, TypeInv, TypeOK

LEMMA MainFront ==
    ASSUME IInv, MainStep
    PROVE  Front!Next \/ UNCHANGED Front!frontVars
<1>1. PlaceInv /\ TypeOK
  BY DEF IInv, TypeInv
<1>2. ASSUME NEW res, End(res) \/ Abandon(res), at \notin {"ended", "exited"}
      PROVE  Front!Next
  BY <1>2, FrontCloses DEF End, Abandon, Front!Next
<1>3. ASSUME UNCHANGED offerVars, at' \notin {"ended", "exited"}, at \notin {"ended", "exited"}
      PROVE  UNCHANGED Front!frontVars
  BY <1>3, FrontUntouched
<1>4. CASE ParseArguments
  <2>1. CASE at' = "binding"
    BY <1>3, <1>4, <2>1 DEF ParseArguments
  <2>2. CASE at' = "exited"
    <3>1. /\ queue = <<>> /\ shown = NoOffer
          /\ answer = [o \in Offers |-> IF Held(o) THEN "dropped" ELSE answer[o]]
      BY <1>1, <1>4, NothingHeld DEF ParseArguments, PlaceInv, RouterInv
    <3>2. DropOffers
      BY <1>4, <3>1 DEF ParseArguments, DropOffers, offerVars
    <3> QED
      BY <1>4, <2>2, <3>2, FrontCloses DEF ParseArguments, Front!Next
  <2> QED
    BY <1>4, <2>1, <2>2 DEF ParseArguments
<1>5. CASE BindEndpoint
  BY <1>2, <1>3, <1>5 DEF BindEndpoint
<1>6. CASE Announce
  <2>1. command \in {"ui", "send", "send_to", "receive"}
    BY <1>1, <1>6 DEF Announce, PlaceInv, CommandInv
  <2>2. CASE ~Abandon("not_started")
    <3>1. at' \in {"window", "searching", "sending", "waiting"} /\ UNCHANGED offerVars
      BY <1>6, <2>1, <2>2 DEF Announce
    <3> QED
      BY <1>3, <1>6, <3>1 DEF Announce
  <2> QED
    BY <1>2, <1>6, <2>2 DEF Announce
<1>7. CASE CommandReturns
  BY <1>2, <1>7 DEF CommandReturns
<1>8. CASE Search
  BY <1>2, <1>3, <1>8 DEF Search
<1>9. CASE PrintList
  BY <1>3, <1>9 DEF PrintList
<1>10. CASE Choose
  BY <1>2, <1>3, <1>10 DEF Choose, Select
<1>11. CASE InterruptLoop
  BY <1>2, <1>11 DEF InterruptLoop, CatchSignal
<1>12. CASE ShowOffer
  <2>1. shown = NoOffer
    BY <1>1, <1>12 DEF ShowOffer, PlaceInv, HoldInv
  <2>2. Front!Show
    BY <1>12, <2>1 DEF ShowOffer, Front!Show
  <2> QED
    BY <2>2 DEF Front!Next
<1>13. CASE Confirm
  <2>1. PICK line \in Line :
          IF line \in Garbled THEN End("err") ELSE NextOffer /\ TellHandler(line)
    BY <1>13 DEF Confirm
  <2>2. CASE End("err")
    BY <1>2, <1>13, <2>2 DEF Confirm
  <2>3. CASE NextOffer /\ TellHandler(line)
    <3>1. shown # NoOffer
      BY <1>1, <1>13 DEF Confirm, PlaceInv, HoldInv
    <3>2. Front!Answer
      BY <1>13, <2>3, <3>1 DEF Confirm, NextOffer, TellHandler, Front!Answer
    <3> QED
      BY <3>2 DEF Front!Next
  <2> QED
    BY <2>1, <2>2, <2>3
<1>14. CASE Shutdown
  BY <1>14, FrontUntouched DEF Shutdown
<1> QED
  BY <1>4, <1>5, <1>6, <1>7, <1>8, <1>9, <1>10, <1>11, <1>12, <1>13, <1>14 DEF MainStep

LEMMA FrontStep == IInv /\ [Next]_vars => [Front!Next]_Front!frontVars
<1> SUFFICES ASSUME IInv, [Next]_vars PROVE Front!Next \/ UNCHANGED Front!frontVars
  OBVIOUS
<1>1. PlaceInv
  BY DEF IInv
<1>2. CASE CtrlC
  <2>1. CASE Abandon("killed") /\ at # "ended"
    <3>1. at \notin {"ended", "exited"} /\ DropOffers /\ at' = "exited"
      BY <1>2, <2>1 DEF CtrlC, Abandon
    <3> QED
      BY <3>1, FrontCloses DEF Front!Next
  <2>2. CASE Abandon("killed") /\ at = "ended"
    <3>1. UNCHANGED offerVars
      BY <2>2, NothingHeld DEF Abandon, DropOffers, offerVars
    <3> QED
      BY <2>2, <3>1, FrontUntouched DEF Abandon
  <2>3. CASE UNCHANGED <<at, result, router, offerVars>>
    BY <2>3, FrontUntouched
  <2> QED
    BY <1>2, <2>1, <2>2, <2>3 DEF CtrlC
<1>3. CASE TypeLine \/ EndInput \/ DeviceEvent \/ Exited \/ UNCHANGED vars
  BY <1>3, FrontUntouched DEF TypeLine, EndInput, DeviceEvent, Exited, vars, mainVars
<1>4. ASSUME NEW o \in Offers, OfferArrives(o)
      PROVE  Front!Next
  <2>1. at \notin {"ended", "exited"} /\ UNCHANGED at
    BY <1>1, <1>4 DEF OfferArrives, Enqueue, mainVars, PlaceInv, RouterInv
  <2>2. Front!Arrive(o)
    BY <1>4, <2>1 DEF OfferArrives, Enqueue, Held, Front!Arrive, Front!Held
  <2> QED
    BY <2>2 DEF Front!Next
<1> QED
  BY <1>2, <1>3, <1>4, MainFront DEF Next

\* The receive loop, and the program that has none, serve the handlers as
\* FrontEnd says: in order, one at a time, and at the end all are dropped.
THEOREM TerminalIsFrontEnd == Spec => IsFrontEnd
<1>1. Init => Front!Init
  BY DEF Init, Front!Init
<1> QED
  BY <1>1, FrontStep, Invariance, PTL DEF Spec, IsFrontEnd, Front!Spec
=============================================================================
