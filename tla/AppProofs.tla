-------------------------------- MODULE AppProofs --------------------------------
(***************************************************************************)
(* Proofs about App, for any devices, tickets and offers of any size, any  *)
(* capacity of the queue and any number of sends: one send at a time and   *)
(* its own outcome on the screen, no progress of an earlier download, and  *)
(* the window as a front end.                                              *)
(***************************************************************************)
EXTENDS App, QueueLemmas, FiniteSetTheorems

DownloadState == {"none", "offered", "declined", "dropped", "fetching", "exporting", "saved",
                  "done", "failed"}

PanelType == [offer : Offers \cup {NoOffer}, bytes : Nat,
              state : {"receiving", "received", "expired"},
              from : Offers \cup {NoOffer}, rivals : SUBSET Offers]

-----------------------------------------------------------------------------
(* Kinds of steps.  Apart from a refresh and the end of the window, a step *)
(* is about the choice of a device, about a send or about an offer, and    *)
(* leaves the variables of the other two alone.                            *)

SelectStep ==
    \/ UseTicket \/ EditTicket \/ (\E id \in Tickets : ContinueWith(id))
    \/ ContinueInvalid \/ CancelTicket \/ (\E p \in Peers : SelectPeer(p))
    \/ NoClick \/ NoDrop \/ PeerEvent

SendStep ==
    \/ ClickBack \/ ChooseFile \/ ClickReset \/ DropFile
    \/ \E n \in SendNo : SendProgresses(n) \/ SendReturns(n)

OfferStep ==
    \/ AcceptOffer \/ DeclineOffer \/ PanelExpires
    \/ \E o \in Offers :
         OfferArrives(o) \/ Downloads(o) \/ DownloadEnds(o) \/ ReportSize(o)

LEMMA StepKinds ==
    Next => \/ Refresh \/ SelectStep \/ SendStep \/ OfferStep
            \/ CloseWindow \/ UNCHANGED vars
BY DEF Next, UiStep, SelectStep, SendStep, OfferStep, Closed, SendNo

LEMMA SelectStepScope ==
    ASSUME SelectStep
    PROVE  UNCHANGED <<sendVars, receiveVars>> /\ (phase' = "closed" <=> phase = "closed")
BY DEF SelectStep, UseTicket, EditTicket, ContinueWith, ContinueInvalid, CancelTicket,
       SelectPeer, NoClick, NoDrop, PeerEvent, Click

LEMMA SendStepScope ==
    ASSUME SendStep
    PROVE  /\ UNCHANGED <<discoveryVars, peers, ticket, receiveVars>>
           /\ selected' \in {selected, NoPeer}
           /\ phase' = "closed" <=> phase = "closed"
BY DEF SendStep, ClickBack, ChooseFile, ClickReset, DropFile, SendProgresses, SendReturns,
       Click, selectVars

LEMMA OfferStepScope ==
    ASSUME OfferStep
    PROVE  /\ UNCHANGED <<discoveryVars, selectVars, sendVars>>
           /\ phase' = "closed" <=> phase = "closed"
BY DEF OfferStep, AcceptOffer, OpenPanel, DeclineOffer, PanelExpires, OfferArrives, Downloads,
       DownloadEnds, ReportSize, LeaveSaved, Click

-----------------------------------------------------------------------------
(* Types.                                                                  *)

\* The variables about devices, sends and offers, each of which a step
\* seldom changes together.
PeersTypeOK ==
    /\ DiscoveryTypeOK /\ phase \in {"refresh", "click", "drop", "closed"}
    /\ peers \subseteq Peers
    /\ selected \in {NoPeer} \cup [id : Peers \cup Tickets, via : {"list", "ticket"}]
    /\ ticket \in {"closed", "open", "error"}

SendTypeOK ==
    /\ status \in {"none", "sending"} \cup Outcomes
    /\ sends \in 0 .. MaxSends
    /\ recipient \in Peers \cup Tickets \cup {NoId}
    /\ running \subseteq SendNo
    /\ results \in Seq([send : SendNo, outcome : Outcomes])
    /\ shownSend \in 0 .. MaxSends /\ sendProgress \in 0 .. MaxSends

ReceiveTypeOK ==
    /\ offers \in Seq(Offers) /\ Len(offers) <= QueueCap
    /\ pending \in Offers \cup {NoOffer}
    /\ panel \in PanelType
    /\ progress \in [bytes : Nat, from : Offers \cup {NoOffer}]
    /\ progressFresh \in BOOLEAN
    /\ download \in [Offers -> [state : DownloadState, bytes : Nat]]

LEMMA TypeParts == TypeOK <=> PeersTypeOK /\ SendTypeOK /\ ReceiveTypeOK
BY DEF TypeOK, PeersTypeOK, SendTypeOK, ReceiveTypeOK, PanelType, DownloadState

LEMMA PeersTypeKept ==
    ASSUME PeersTypeOK, UNCHANGED <<discoveryVars, selectVars>>,
           phase' \in {"refresh", "click", "drop", "closed"}
    PROVE  PeersTypeOK'
BY DEF PeersTypeOK, DiscoveryTypeOK, discoveryVars, selectVars

LEMMA SendTypeKept ==
    ASSUME SendTypeOK, UNCHANGED sendVars
    PROVE  SendTypeOK'
BY DEF SendTypeOK, sendVars

LEMMA ReceiveTypeKept ==
    ASSUME ReceiveTypeOK, UNCHANGED receiveVars
    PROVE  ReceiveTypeOK'
BY DEF ReceiveTypeOK, receiveVars

\* The panel with the latest bytes.
LEMMA UpdatedType == ReceiveTypeOK => Updated \in PanelType
BY DEF ReceiveTypeOK, Updated, PanelType

LEMMA NoPanelType == NoPanel \in PanelType
BY DEF NoPanel, PanelType

\* Taking the outcome of a send.
LEMMA ResultType ==
    ASSUME SendTypeOK, results # <<>>
    PROVE  /\ Head(results).send \in SendNo /\ Head(results).outcome \in Outcomes
           /\ Tail(results) \in Seq([send : SendNo, outcome : Outcomes])
<1>1. /\ Head(results) \in [send : SendNo, outcome : Outcomes]
      /\ Tail(results) \in Seq([send : SendNo, outcome : Outcomes])
  BY HeadTailProperties DEF SendTypeOK
<1> QED
  BY <1>1

\* Taking the first offer of the queue.
LEMMA OfferType ==
    ASSUME ReceiveTypeOK, offers # <<>>
    PROVE  /\ Head(offers) \in Offers
           /\ Tail(offers) \in Seq(Offers) /\ Len(Tail(offers)) <= QueueCap
<1>1. offers \in Seq(Offers) /\ Len(offers) \in Nat /\ Len(offers) <= QueueCap
  BY LenProperties DEF ReceiveTypeOK
<1>2. Head(offers) \in Offers /\ Tail(offers) \in Seq(Offers) /\ Len(Tail(offers)) = Len(offers) - 1
  BY <1>1, HeadTailProperties
<1> QED
  BY <1>1, <1>2, BoundsAssumption

LEMMA TypeInit == Init => TypeOK
<1> SUFFICES ASSUME Init PROVE TypeOK
  OBVIOUS
<1>1. /\ offers \in Seq(Offers) /\ Len(offers) = 0
      /\ results \in Seq([send : SendNo, outcome : Outcomes])
  BY EmptySeq DEF Init
<1>2. PeersTypeOK
  BY DEF Init, DiscoveryInit, PeersTypeOK, DiscoveryTypeOK
<1>3. SendTypeOK
  BY <1>1, BoundsAssumption DEF Init, SendTypeOK
<1>4. ReceiveTypeOK
  <2>1. Len(offers) <= QueueCap
    BY <1>1, BoundsAssumption
  <2>2. download \in [Offers -> [state : DownloadState, bytes : Nat]]
    BY DEF Init, DownloadState
  <2> QED
    BY <1>1, <2>1, <2>2, NoPanelType DEF Init, ReceiveTypeOK
<1> QED
  BY <1>2, <1>3, <1>4, TypeParts

LEMMA RefreshTyping ==
    ASSUME PeersTypeOK, SendTypeOK, ReceiveTypeOK, Refresh
    PROVE  PeersTypeOK' /\ SendTypeOK' /\ ReceiveTypeOK'
<1>1. PeersTypeOK'
  BY DEF Refresh, RefreshPeers, PeersTypeOK, DiscoveryTypeOK
<1>2. SendTypeOK'
  <2>1. CASE results # <<>> /\ TakeResult
    BY <2>1, ResultType, BoundsAssumption DEF Refresh, TakeResult, SendTypeOK, SendNo
  <2>2. CASE UNCHANGED <<status, shownSend, results>>
    BY <2>2 DEF Refresh, SendTypeOK
  <2> QED
    BY <2>1, <2>2 DEF Refresh, RefreshSendStatus
<1>3. ReceiveTypeOK'
  <2>1. pending' \in Offers \cup {NoOffer} /\ offers' \in Seq(Offers) /\ Len(offers') <= QueueCap
    BY OfferType DEF Refresh, RefreshOffers, ReceiveTypeOK
  <2>2. panel' \in PanelType /\ progressFresh' \in BOOLEAN
    BY UpdatedType, NoPanelType DEF Refresh, RefreshReceiveStatus, ReceiveTypeOK
  <2> QED
    BY <2>1, <2>2 DEF Refresh, ReceiveTypeOK
<1> QED
  BY <1>1, <1>2, <1>3

LEMMA StartSendType ==
    ASSUME PeersTypeOK, SendTypeOK, SendFile
    PROVE  SendTypeOK'
<1>1. sends + 1 \in SendNo /\ sends' \in 0 .. MaxSends
  BY BoundsAssumption DEF SendFile, StartSend, SendTypeOK, SendNo
<1>2. selected.id \in Peers \cup Tickets
  BY DEF PeersTypeOK, SendFile, StartSend
<1> QED
  BY <1>1, <1>2, BoundsAssumption DEF SendFile, StartSend, SendTypeOK

\* The choice of a device.
LEMMA SelectTyping ==
    ASSUME PeersTypeOK, SelectStep
    PROVE  PeersTypeOK'
<1> USE DEF PeersTypeOK, DiscoveryTypeOK, discoveryVars, Click
<1>1. CASE UseTicket \/ EditTicket \/ ContinueInvalid \/ CancelTicket
  BY <1>1 DEF UseTicket, EditTicket, ContinueInvalid, CancelTicket
<1>2. CASE \E id \in Tickets : ContinueWith(id)
  BY <1>2 DEF ContinueWith
<1>3. CASE \E p \in Peers : SelectPeer(p)
  BY <1>3 DEF SelectPeer
<1>4. CASE NoClick \/ NoDrop
  BY <1>4 DEF NoClick, NoDrop, selectVars
<1>5. CASE PeerEvent
  BY <1>5 DEF PeerEvent, Discovered, Expired, DiscoveryStops, selectVars
<1> QED
  BY <1>1, <1>2, <1>3, <1>4, <1>5 DEF SelectStep

\* The steps of a send.
LEMMA SendTyping ==
    ASSUME PeersTypeOK, SendTypeOK, SendStep
    PROVE  PeersTypeOK' /\ SendTypeOK'
<1>1. PeersTypeOK'
  <2>1. phase' \in {"refresh", "click", "drop", "closed"}
    BY DEF SendStep, ClickBack, ChooseFile, ClickReset, DropFile, SendProgresses,
           SendReturns, Click, PeersTypeOK
  <2> QED
    BY <2>1, SendStepScope DEF PeersTypeOK, DiscoveryTypeOK, discoveryVars
<1>2. CASE ClickBack
  BY <1>1, <1>2 DEF ClickBack, SendTypeOK
<1>3. CASE ChooseFile \/ DropFile
  BY <1>1, <1>3, StartSendType DEF ChooseFile, DropFile
<1>4. CASE ClickReset
  BY <1>1, <1>4, BoundsAssumption DEF ClickReset, SendTypeOK
<1>5. ASSUME NEW n \in SendNo, SendProgresses(n)
      PROVE  SendTypeOK'
  BY <1>5, BoundsAssumption DEF SendProgresses, SendTypeOK, SendNo
<1>6. ASSUME NEW n \in SendNo, SendReturns(n)
      PROVE  SendTypeOK'
  <2>1. results' \in Seq([send : SendNo, outcome : Outcomes])
    <3>1. ASSUME NEW outcome \in Outcomes
          PROVE  Append(results, [send |-> n, outcome |-> outcome])
                   \in Seq([send : SendNo, outcome : Outcomes])
      BY AppendProperties DEF SendTypeOK
    <3> QED
      BY <1>6, <3>1 DEF SendReturns, SendTypeOK
  <2> QED
    BY <1>6, <2>1 DEF SendReturns, SendTypeOK
<1> QED
  BY <1>1, <1>2, <1>3, <1>4, <1>5, <1>6 DEF SendStep

\* The steps of an offer.
LEMMA OfferTyping ==
    ASSUME PeersTypeOK, ReceiveTypeOK, OfferStep
    PROVE  PeersTypeOK' /\ ReceiveTypeOK'
<1>1. PeersTypeOK'
  <2>1. phase' \in {"refresh", "click", "drop", "closed"}
    BY DEF OfferStep, AcceptOffer, OpenPanel, DeclineOffer, PanelExpires, OfferArrives,
           Downloads, DownloadEnds, ReportSize, LeaveSaved, Click, PeersTypeOK
  <2> QED
    BY <2>1, OfferStepScope, PeersTypeKept
<1>2. CASE AcceptOffer
  <2>1. Active \subseteq Offers
    BY DEF Active
  <2>2. panel' \in PanelType /\ download' \in [Offers -> [state : DownloadState, bytes : Nat]]
    BY <1>2, <2>1 DEF AcceptOffer, OpenPanel, ReceiveTypeOK, PanelType, NoPanel, DownloadState
  <2> QED
    BY <1>1, <1>2, <2>2 DEF AcceptOffer, OpenPanel, ReceiveTypeOK
<1>3. CASE DeclineOffer
  BY <1>1, <1>3 DEF DeclineOffer, ReceiveTypeOK, DownloadState
<1>4. CASE PanelExpires
  BY <1>1, <1>4 DEF PanelExpires, ReceiveTypeOK, PanelType
<1>5. ASSUME NEW o \in Offers, OfferArrives(o)
      PROVE  ReceiveTypeOK'
  <2>1. Len(offers) \in Nat /\ offers' \in Seq(Offers) /\ Len(offers') = Len(offers) + 1
    BY <1>5, AppendProperties, LenProperties DEF OfferArrives, ReceiveTypeOK
  <2>2. Len(offers') <= QueueCap
    BY <1>5, <2>1, BoundsAssumption DEF OfferArrives
  <2> QED
    BY <1>5, <2>1, <2>2 DEF OfferArrives, ReceiveTypeOK, DownloadState
<1>6. ASSUME NEW o \in Offers, Downloads(o)
      PROVE  ReceiveTypeOK'
  <2>1. PICK n \in download[o].bytes .. BlobSize[o] :
          download' = [download EXCEPT ![o].bytes = n] /\ Report(n, o)
    BY <1>6 DEF Downloads
  <2>2. n \in Nat
    BY <2>1, SizeAssumption DEF ReceiveTypeOK
  <2> QED
    BY <1>6, <2>1, <2>2 DEF Downloads, Report, ReceiveTypeOK
<1>7. ASSUME NEW o \in Offers, DownloadEnds(o)
      PROVE  ReceiveTypeOK'
  BY <1>7 DEF DownloadEnds, ReceiveTypeOK, DownloadState
<1>8. ASSUME NEW o \in Offers, ReportSize(o)
      PROVE  ReceiveTypeOK'
  BY <1>8, SizeAssumption DEF ReportSize, LeaveSaved, Report, ReceiveTypeOK, DownloadState
<1> QED
  BY <1>1, <1>2, <1>3, <1>4, <1>5, <1>6, <1>7, <1>8 DEF OfferStep

\* The end of the window.
LEMMA CloseTyping ==
    ASSUME PeersTypeOK, SendTypeOK, ReceiveTypeOK, CloseWindow
    PROVE  PeersTypeOK' /\ SendTypeOK' /\ ReceiveTypeOK'
<1>1. /\ offers' \in Seq(Offers) /\ Len(offers') = 0
      /\ results' \in Seq([send : SendNo, outcome : Outcomes])
  BY EmptySeq DEF CloseWindow
<1>2. PeersTypeOK'
  BY DEF CloseWindow, PeersTypeOK, DiscoveryTypeOK, discoveryVars
<1>3. SendTypeOK'
  BY <1>1 DEF CloseWindow, SendTypeOK
<1>4. download' \in [Offers -> [state : DownloadState, bytes : Nat]]
  BY DEF CloseWindow, ReceiveTypeOK, DownloadState
<1>5. ReceiveTypeOK'
  <2>1. Len(offers') <= QueueCap
    BY <1>1, BoundsAssumption
  <2>2. panel' \in PanelType
    BY NoPanelType DEF CloseWindow
  <2> QED
    BY <1>1, <1>4, <2>1, <2>2 DEF CloseWindow, ReceiveTypeOK
<1> QED
  BY <1>2, <1>3, <1>5

LEMMA TypeStep == TypeOK /\ [Next]_vars => TypeOK'
<1> SUFFICES ASSUME PeersTypeOK, SendTypeOK, ReceiveTypeOK, [Next]_vars
             PROVE  PeersTypeOK' /\ SendTypeOK' /\ ReceiveTypeOK'
  <2>1. TypeOK' <=> PeersTypeOK' /\ SendTypeOK' /\ ReceiveTypeOK'
    BY DEF TypeOK, PeersTypeOK, SendTypeOK, ReceiveTypeOK, PanelType, DownloadState
  <2> QED
    BY <2>1, TypeParts
<1>1. CASE SelectStep
  BY <1>1, SelectStepScope, SelectTyping, SendTypeKept, ReceiveTypeKept
<1>2. CASE SendStep
  BY <1>2, SendStepScope, SendTyping, ReceiveTypeKept
<1>3. CASE OfferStep
  BY <1>3, OfferStepScope, OfferTyping, SendTypeKept
<1>4. CASE UNCHANGED vars
  <2>1. phase' \in {"refresh", "click", "drop", "closed"}
    BY <1>4 DEF vars, PeersTypeOK
  <2> QED
    BY <1>4, <2>1, PeersTypeKept, SendTypeKept, ReceiveTypeKept DEF vars
<1> QED
  BY <1>1, <1>2, <1>3, <1>4, RefreshTyping, CloseTyping, StepKinds

\* The variables of the window have their types.
THEOREM Typing == Spec => []TypeOK
  BY TypeInit, TypeStep, PTL DEF Spec

-----------------------------------------------------------------------------
(* The sends.  The window can be between a send and the next one in three  *)
(* ways only: the task of the latest send runs, its result waits to be     *)
(* read, or there is neither and the window does not say "sending".  The   *)
(* counts of SendingHasOneSender alone are not inductive: they do not say  *)
(* that it is the latest send whose task or result is there.               *)

TaskRuns == Sending /\ running = {sends} /\ results = <<>>

ResultWaits ==
    Sending /\ running = {} /\ Len(results) = 1 /\ results[1].send = sends

NothingSent == ~Sending /\ running = {} /\ results = <<>>

SendInv ==
    /\ Open => TaskRuns \/ ResultWaits \/ NothingSent
    /\ ShownOutcomeIsCurrent
    /\ ProgressIsCurrent

LEMMA SendInvInit == Init => SendInv
BY DEF Init, SendInv, NothingSent, Sending, ShownOutcomeIsCurrent, ProgressIsCurrent, Outcomes

LEMMA SendInvKept ==
    ASSUME SendInv, UNCHANGED sendVars, phase' = "closed" <=> phase = "closed"
    PROVE  SendInv'
BY DEF SendInv, TaskRuns, ResultWaits, NothingSent, Sending, Open, ShownOutcomeIsCurrent,
       ProgressIsCurrent, sendVars

\* A frame takes the outcome of the latest send, or there is none.
LEMMA SendInvRefresh ==
    ASSUME SendTypeOK, SendInv, Refresh
    PROVE  SendInv'
<1>1. CASE results = <<>>
  <2>1. UNCHANGED sendVars /\ Open /\ Open'
    BY <1>1 DEF Refresh, RefreshSendStatus, sendVars, Open
  <2> QED
    BY <2>1, SendInvKept DEF Open
<1>2. CASE results # <<>>
  <2>1. Open /\ ResultWaits
    BY <1>2 DEF SendInv, Refresh, Open, TaskRuns, NothingSent
  <2>2. /\ Head(results) = results[1]
        /\ Len(Tail(results)) = 0 /\ Tail(results) \in Seq([send : SendNo, outcome : Outcomes])
    BY <1>2, <2>1, HeadTailProperties DEF ResultWaits, SendTypeOK
  <2>3. Tail(results) = <<>>
    BY <2>2, EmptySeq
  <2>4. status' \in Outcomes /\ shownSend' = sends' /\ results' = <<>> /\ running' = {}
    BY <1>2, <2>1, <2>2, <2>3, ResultType
       DEF Refresh, RefreshSendStatus, TakeResult, ResultWaits
  <2> QED
    BY <2>4 DEF SendInv, NothingSent, Sending, ShownOutcomeIsCurrent, ProgressIsCurrent, Outcomes
<1> QED
  BY <1>1, <1>2

LEMMA SendInvSend ==
    ASSUME SendTypeOK, SendInv, SendStep
    PROVE  SendInv'
<1> USE DEF SendInv, Sending, ShownOutcomeIsCurrent, ProgressIsCurrent, Outcomes
<1>1. CASE ClickBack
  BY <1>1 DEF ClickBack, Click, Open, TaskRuns, ResultWaits, NothingSent
<1>2. CASE SendFile /\ Open
  <2>1. running = {} /\ results = <<>>
    BY <1>2 DEF SendFile, StartSend, TaskRuns, ResultWaits, NothingSent
  <2>2. running' = {sends'} /\ results' = <<>>
    BY <1>2, <2>1 DEF SendFile, StartSend
  <2> QED
    BY <1>2, <2>2 DEF SendFile, TaskRuns
<1>3. CASE ChooseFile \/ DropFile
  <2>1. SendFile /\ Open
    BY <1>3 DEF ChooseFile, DropFile, Click, Open
  <2> QED
    BY <1>2, <2>1
<1>4. CASE ClickReset
  BY <1>4 DEF ClickReset, Click, Open, TaskRuns, ResultWaits, NothingSent
<1>5. ASSUME NEW n \in SendNo, SendProgresses(n)
      PROVE  SendInv'
  <2>1. Open /\ TaskRuns /\ n = sends
    BY <1>5 DEF SendProgresses, TaskRuns, ResultWaits, NothingSent
  <2> QED
    BY <1>5, <2>1 DEF SendProgresses, TaskRuns, Open
<1>6. ASSUME NEW n \in SendNo, SendReturns(n)
      PROVE  SendInv'
  <2>1. UNCHANGED <<phase, status, sends, shownSend, sendProgress>>
    BY <1>6 DEF SendReturns
  <2>2. CASE ~Open
    BY <2>1, <2>2 DEF Open
  <2>3. CASE Open
    <3>1. TaskRuns /\ n = sends
      BY <1>6, <2>3 DEF SendReturns, TaskRuns, ResultWaits, NothingSent
    <3>2. PICK outcome \in Outcomes :
            results' = Append(results, [send |-> n, outcome |-> outcome])
      BY <1>6, <2>3 DEF SendReturns
    <3>3. Len(results) = 0
      BY <3>1, EmptySeq DEF TaskRuns
    <3>4. Len(results') = 1 /\ results'[1].send = n
      BY <3>2, <3>3, AppendProperties DEF SendTypeOK
    <3>5. running' = {}
      BY <1>6, <3>1 DEF SendReturns, TaskRuns
    <3>6. ResultWaits'
      BY <2>1, <3>1, <3>4, <3>5 DEF ResultWaits, TaskRuns
    <3> QED
      BY <2>1, <3>1, <3>6 DEF TaskRuns
  <2> QED
    BY <2>2, <2>3
<1> QED
  BY <1>1, <1>3, <1>4, <1>5, <1>6 DEF SendStep

LEMMA SendInvStep == SendTypeOK /\ SendInv /\ [Next]_vars => SendInv'
<1> SUFFICES ASSUME SendTypeOK, SendInv, [Next]_vars
             PROVE  SendInv'
  OBVIOUS
<1>1. CASE CloseWindow
  BY <1>1 DEF CloseWindow, SendInv, Open, Sending, ShownOutcomeIsCurrent, ProgressIsCurrent,
              Outcomes
<1>2. CASE UNCHANGED vars
  BY <1>2, SendInvKept DEF vars
<1> QED
  BY <1>1, <1>2, SendInvRefresh, SendInvSend, SelectStepScope, OfferStepScope, SendInvKept,
     StepKinds

\* The three ways, in numbers.
LEMMA SendInvCounts == SendInv => SendingHasOneSender
<1> SUFFICES ASSUME SendInv, Open
             PROVE  Cardinality(running) + Len(results) = IF Sending THEN 1 ELSE 0
  BY DEF SendingHasOneSender
<1>1. /\ Cardinality({}) = 0 /\ Cardinality({sends}) = 1
      /\ Len(<<>>) = 0
  BY FS_EmptySet, FS_Singleton, EmptySeq
<1>2. CASE TaskRuns
  <2>1. Cardinality(running) = 1 /\ Len(results) = 0
    BY <1>1, <1>2, Zenon DEF TaskRuns
  <2> QED
    BY <1>2, <2>1 DEF TaskRuns
<1>3. CASE ResultWaits
  <2>1. Cardinality(running) = 0
    BY <1>1, <1>3, Zenon DEF ResultWaits
  <2> QED
    BY <1>3, <2>1 DEF ResultWaits
<1>4. CASE NothingSent
  <2>1. Cardinality(running) = 0 /\ Len(results) = 0
    BY <1>1, <1>4, Zenon DEF NothingSent
  <2> QED
    BY <1>4, <2>1 DEF NothingSent
<1> QED
  BY <1>2, <1>3, <1>4 DEF SendInv

LEMMA SendInvHolds == Spec => []SendInv
<1>1. TypeOK => SendTypeOK
  BY TypeParts
<1> QED
  BY <1>1, Typing, SendInvInit, SendInvStep, PTL DEF Spec

\* While the window says "sending" there is exactly one running task or
\* unread result, and otherwise none, for as long as the window is open.
THEOREM OneSendAtATime == Spec => []SendingHasOneSender
  BY SendInvHolds, SendInvCounts, PTL

\* The outcome on the screen is that of the latest send, and the progress
\* bar never shows the bytes of an earlier one.
THEOREM SendIsShownAsItIs == Spec => [](ShownOutcomeIsCurrent /\ ProgressIsCurrent)
<1>1. SendInv => ShownOutcomeIsCurrent /\ ProgressIsCurrent
  BY DEF SendInv
<1> QED
  BY <1>1, SendInvHolds, PTL

-----------------------------------------------------------------------------
(* The devices.                                                            *)

LEMMA PeersInit == Init => PeersFollowDiscovery
BY DEF Init, DiscoveryInit, NoPeer, PeersFollowDiscovery

LEMMA PeersStep == PeersFollowDiscovery /\ [Next]_vars => PeersFollowDiscovery'
<1> SUFFICES ASSUME PeersFollowDiscovery, [Next]_vars
             PROVE  PeersFollowDiscovery'
  OBVIOUS
<1> USE DEF PeersFollowDiscovery, NoPeer, discoveryVars
<1>1. CASE Refresh
  BY <1>1 DEF Refresh, RefreshPeers
<1>2. CASE SelectStep
  <2>1. CASE UseTicket \/ EditTicket \/ ContinueInvalid \/ CancelTicket \/ NoClick \/ NoDrop
    BY <2>1 DEF UseTicket, EditTicket, ContinueInvalid, CancelTicket, NoClick, NoDrop, selectVars
  <2>2. CASE \E id \in Tickets : ContinueWith(id)
    BY <2>2 DEF ContinueWith
  <2>3. CASE \E p \in Peers : SelectPeer(p)
    BY <2>3 DEF SelectPeer
  <2>4. CASE PeerEvent
    BY <2>4 DEF PeerEvent, Discovered, Expired, DiscoveryStops, selectVars
  <2> QED
    BY <1>2, <2>1, <2>2, <2>3, <2>4 DEF SelectStep
<1>3. CASE SendStep
  BY <1>3, SendStepScope
<1>4. CASE OfferStep
  BY <1>4, OfferStepScope DEF selectVars
<1>5. CASE CloseWindow
  BY <1>5 DEF CloseWindow
<1>6. CASE UNCHANGED vars
  BY <1>6 DEF vars, selectVars
<1> QED
  BY <1>1, <1>2, <1>3, <1>4, <1>5, <1>6, StepKinds

\* The window's list is the published one unless a newer one is unread, and
\* a device chosen from the list is still in it.
THEOREM ListIsFollowed == Spec => []PeersFollowDiscovery
  BY PeersInit, PeersStep, PTL DEF Spec

-----------------------------------------------------------------------------
(* The receive panel.  While it is open, every download that may still     *)
(* write is its own or was running when it was opened - a later one cannot *)
(* have been accepted without opening a panel of its own - and progress    *)
(* that is still unread is from one of those.                              *)

Welcome(o) == o = panel.offer \/ o \in panel.rivals

PanelInv ==
    /\ NoStaleProgress
    /\ panel # NoPanel => /\ panel.offer # NoOffer
                          /\ \A o \in Active : Welcome(o)
                          /\ progressFresh => Welcome(progress.from)

LEMMA PanelInit == Init => PanelInv
BY DEF Init, PanelInv, NoPanel, NoStaleProgress

\* A step that leaves the panel and the channel alone, and starts no
\* download, keeps the invariant.
LEMMA PanelKept ==
    ASSUME PanelInv, UNCHANGED panel, Active' \subseteq Active,
           UNCHANGED <<progress, progressFresh>> \/ progressFresh' = FALSE
    PROVE  PanelInv'
BY DEF PanelInv, Welcome, NoStaleProgress

\* A running download writes to the channel.
LEMMA PanelReport ==
    ASSUME PanelInv, UNCHANGED panel, Active' \subseteq Active,
           NEW o \in Active, NEW n, Report(n, o)
    PROVE  PanelInv'
BY DEF PanelInv, Welcome, NoStaleProgress, Report

LEMMA PanelRefresh ==
    ASSUME ReceiveTypeOK, PanelInv, Refresh
    PROVE  PanelInv'
<1>1. Active' = Active /\ UNCHANGED progress
  BY DEF Refresh, Active
<1>2. CASE UNCHANGED <<panel, progressFresh>>
  BY <1>1, <1>2, PanelKept
<1>3. CASE progressFresh' = FALSE /\ panel' = NoPanel
  BY <1>3 DEF PanelInv, NoStaleProgress, NoPanel
<1>4. CASE progressFresh' = FALSE /\ UNCHANGED panel
  BY <1>1, <1>4, PanelKept
<1>5. CASE panel # NoPanel /\ progressFresh /\ progressFresh' = FALSE /\ panel' = Updated
  <2>1. /\ panel'.offer = panel.offer /\ panel'.rivals = panel.rivals
        /\ panel'.from = progress.from
    BY <1>5 DEF Updated, ReceiveTypeOK, PanelType
  <2>2. panel.offer # NoOffer /\ Welcome(progress.from) /\ \A o \in Active : Welcome(o)
    BY <1>5 DEF PanelInv
  <2> QED
    BY <1>1, <1>5, <2>1, <2>2 DEF PanelInv, NoStaleProgress, Welcome
<1> QED
  BY <1>2, <1>3, <1>4, <1>5 DEF Refresh, RefreshReceiveStatus

LEMMA PanelOffer ==
    ASSUME ReceiveTypeOK, PanelInv, OfferStep
    PROVE  PanelInv'
<1>1. CASE AcceptOffer
  <2>1. /\ panel'.offer = pending /\ panel'.rivals = Active /\ panel'.from = NoOffer
        /\ pending # NoOffer /\ progressFresh' = FALSE
    BY <1>1 DEF AcceptOffer, OpenPanel, NoPanel
  <2>2. Active' \subseteq Active \cup {pending}
    BY <1>1 DEF AcceptOffer, OpenPanel, Active, ReceiveTypeOK
  <2> QED
    BY <2>1, <2>2 DEF PanelInv, NoStaleProgress, Welcome
<1>2. CASE DeclineOffer
  <2>1. Active' \subseteq Active
    BY <1>2 DEF DeclineOffer, Active, ReceiveTypeOK
  <2> QED
    BY <1>2, <2>1, PanelKept DEF DeclineOffer
<1>3. CASE PanelExpires
  <2>1. Active' = Active /\ UNCHANGED <<progress, progressFresh>>
    BY <1>3 DEF PanelExpires, Active
  <2>2. panel # NoPanel
    BY <1>3 DEF PanelExpires, NoPanel
  <2>3. /\ panel'.offer = panel.offer /\ panel'.rivals = panel.rivals
        /\ panel'.from = panel.from
    BY <1>3 DEF PanelExpires, ReceiveTypeOK, PanelType
  <2> QED
    BY <2>1, <2>2, <2>3 DEF PanelInv, NoStaleProgress, Welcome
<1>4. ASSUME NEW o \in Offers, OfferArrives(o)
      PROVE  PanelInv'
  <2>1. Active' \subseteq Active
    BY <1>4 DEF OfferArrives, Active, ReceiveTypeOK
  <2> QED
    BY <1>4, <2>1, PanelKept DEF OfferArrives
<1>5. ASSUME NEW o \in Offers, Downloads(o)
      PROVE  PanelInv'
  <2>1. PICK n \in download[o].bytes .. BlobSize[o] :
          download' = [download EXCEPT ![o].bytes = n] /\ Report(n, o)
    BY <1>5 DEF Downloads
  <2>2. o \in Active /\ Active' \subseteq Active
    BY <1>5, <2>1 DEF Downloads, Active, ReceiveTypeOK
  <2> QED
    BY <1>5, <2>1, <2>2, PanelReport DEF Downloads
<1>6. ASSUME NEW o \in Offers, DownloadEnds(o)
      PROVE  PanelInv'
  <2>1. Active' \subseteq Active
    BY <1>6 DEF DownloadEnds, Active, ReceiveTypeOK
  <2> QED
    BY <1>6, <2>1, PanelKept DEF DownloadEnds
<1>7. ASSUME NEW o \in Offers, ReportSize(o)
      PROVE  PanelInv'
  <2>1. o \in Active /\ Active' \subseteq Active
    BY <1>7 DEF ReportSize, LeaveSaved, Active, ReceiveTypeOK
  <2> QED
    BY <1>7, <2>1, PanelReport DEF ReportSize, LeaveSaved
<1> QED
  BY <1>1, <1>2, <1>3, <1>4, <1>5, <1>6, <1>7 DEF OfferStep

LEMMA PanelStep == ReceiveTypeOK /\ PanelInv /\ [Next]_vars => PanelInv'
<1> SUFFICES ASSUME ReceiveTypeOK, PanelInv, [Next]_vars
             PROVE  PanelInv'
  OBVIOUS
<1>1. CASE UNCHANGED receiveVars
  <2>1. Active' = Active
    BY <1>1 DEF Active, receiveVars
  <2> QED
    BY <1>1, <2>1, PanelKept DEF receiveVars
<1>2. CASE CloseWindow
  BY <1>2 DEF CloseWindow, PanelInv, NoStaleProgress, NoPanel
<1>3. UNCHANGED vars => UNCHANGED receiveVars
  BY DEF vars
<1> QED
  BY <1>1, <1>2, <1>3, PanelRefresh, PanelOffer, SelectStepScope, SendStepScope, StepKinds

\* The panel never shows the progress of a transfer that had ended before
\* its offer was accepted.
THEOREM ProgressIsNotStale == Spec => []NoStaleProgress
<1>1. TypeOK => ReceiveTypeOK
  BY TypeParts
<1>2. PanelInv => NoStaleProgress
  BY DEF PanelInv
<1> QED
  BY <1>1, <1>2, Typing, PanelInit, PanelStep, PTL DEF Spec

-----------------------------------------------------------------------------
(* The window as a front end.  An offer waits for an answer exactly while  *)
(* it is in the queue or on the screen, and is there once: so a handler    *)
(* that queues its offer has not been answered, and an answer goes to a    *)
(* handler that waits for one.                                             *)

Waits(o) == pending = o \/ Contains(offers, o)

HeldInv ==
    /\ \A o \in Offers : Waits(o) <=> download[o].state = "offered"
    /\ Distinct(offers)
    /\ ~Contains(offers, pending)

\* What the handlers have been told.
Told == [o \in Offers |-> Answer(download[o].state)]

LEMMA FrontHeld == \A o : (Front!Held(o) <=> Waits(o)) /\ (InQueue(o) <=> Contains(offers, o))
BY DEF Front!Held, Waits, Contains, InQueue

LEMMA HeldInit == Init => HeldInv
<1> SUFFICES ASSUME Init PROVE HeldInv
  OBVIOUS
<1>1. Distinct(offers) /\ \A x : ~Contains(offers, x)
  BY EmptyQueue DEF Init
<1>2. \A o \in Offers : pending # o /\ download[o].state = "none"
  BY NoOfferAssumption DEF Init
<1> QED
  BY <1>1, <1>2 DEF HeldInv, Waits

\* A step that leaves the queue and the screen alone and offers nothing.
LEMMA HeldKept ==
    ASSUME HeldInv, UNCHANGED <<offers, pending>>,
           \A o \in Offers : download'[o].state = "offered" <=> download[o].state = "offered"
    PROVE  HeldInv'
BY DEF HeldInv, Waits

\* A step that changes no answer is no step of the front end.
LEMMA FrontStutters ==
    ASSUME UNCHANGED <<offers, pending>>, phase' = "closed" <=> phase = "closed",
           \A o \in Offers : Answer(download'[o].state) = Answer(download[o].state)
    PROVE  UNCHANGED Front!frontVars
<1>1. UNCHANGED Told
  BY DEF Told
<1> QED
  BY <1>1 DEF Front!frontVars, Told, Open

\* A frame shows the next offer.
LEMMA FrontRefresh ==
    ASSUME ReceiveTypeOK, HeldInv, Refresh
    PROVE  HeldInv' /\ [Front!Next]_Front!frontVars
<1>1. UNCHANGED download /\ phase # "closed" /\ phase' # "closed"
  BY DEF Refresh
<1>2. CASE UNCHANGED <<pending, offers>>
  BY <1>1, <1>2, HeldKept, FrontStutters
<1>3. CASE pending = NoOffer /\ offers # <<>> /\ pending' = Head(offers) /\ offers' = Tail(offers)
  <2>1. /\ offers \in Seq(Offers) /\ offers # <<>> /\ Distinct(offers)
    BY <1>3 DEF HeldInv, ReceiveTypeOK
  <2>2. /\ Head(offers) \in Offers
        /\ Contains(offers, Head(offers))
        /\ \A y : Contains(Tail(offers), y) <=> Contains(offers, y) /\ y # Head(offers)
        /\ Distinct(Tail(offers))
    BY <2>1, ContainsTail
  <2>3. HeldInv'
    BY <1>1, <1>3, <2>2, NoOfferAssumption DEF HeldInv, Waits
  <2>4. Front!Show
    BY <1>1, <1>3 DEF Front!Show, Open
  <2> QED
    BY <2>3, <2>4 DEF Front!Next
<1> QED
  BY <1>2, <1>3 DEF Refresh, RefreshOffers

\* A click answers the offer that is shown.
LEMMA FrontAnswers ==
    ASSUME ReceiveTypeOK, HeldInv, pending # NoOffer, pending' = NoOffer, UNCHANGED offers,
           phase # "closed", phase' # "closed",
           NEW state \in {"fetching", "declined"},
           download' = [download EXCEPT ![pending].state = state]
    PROVE  HeldInv' /\ Front!Next
<1>1. pending \in Offers
  BY DEF ReceiveTypeOK
<1>2. /\ download'[pending].state = state
      /\ \A o \in Offers : o # pending => download'[o] = download[o]
  BY <1>1 DEF ReceiveTypeOK
<1>3. ~Contains(offers, NoOffer)
  BY NoOfferAssumption DEF ReceiveTypeOK, Contains
<1>4. HeldInv'
  BY <1>1, <1>2, <1>3, NoOfferAssumption DEF HeldInv, Waits
<1>5. Answer(state) \in {"accept", "decline"}
  BY DEF Answer
<1>6. Told' = [Told EXCEPT ![pending] = Answer(state)]
  <2>1. /\ Told'[pending] = Answer(state)
        /\ \A o \in Offers : o # pending => Told'[o] = Told[o]
    BY <1>1, <1>2 DEF Told
  <2> QED
    BY <2>1 DEF Told
<1>7. Front!Answer
  BY <1>5, <1>6 DEF Front!Answer, Told, Open
<1> QED
  BY <1>4, <1>7 DEF Front!Next

\* The steps of an offer.
LEMMA FrontOffer ==
    ASSUME ReceiveTypeOK, HeldInv, OfferStep
    PROVE  HeldInv' /\ [Front!Next]_Front!frontVars
<1>1. phase' = "closed" <=> phase = "closed"
  BY OfferStepScope
<1>2. CASE AcceptOffer
  BY <1>2, FrontAnswers DEF AcceptOffer, OpenPanel, Click
<1>3. CASE DeclineOffer
  BY <1>3, FrontAnswers DEF DeclineOffer, Click
<1>4. CASE PanelExpires
  BY <1>1, <1>4, HeldKept, FrontStutters DEF PanelExpires
<1>5. ASSUME NEW o \in Offers, OfferArrives(o)
      PROVE  HeldInv' /\ Front!Next
  <2>1. offers \in Seq(Offers) /\ ~Waits(o)
    BY <1>5 DEF HeldInv, OfferArrives, ReceiveTypeOK
  <2>2. /\ \A y : Contains(offers', y) <=> Contains(offers, y) \/ y = o
        /\ Distinct(offers')
    BY <1>5, <2>1, ContainsAppend DEF OfferArrives, HeldInv, Waits
  <2>3. /\ download'[o].state = "offered"
        /\ \A p \in Offers : p # o => download'[p] = download[p]
    BY <1>5 DEF OfferArrives, ReceiveTypeOK
  <2>4. HeldInv'
    BY <1>5, <2>1, <2>2, <2>3 DEF HeldInv, Waits, OfferArrives
  <2>5. Told[o] = "none" /\ UNCHANGED Told
    BY <1>5, <2>3 DEF Told, Answer, OfferArrives
  <2>6. Front!Arrive(o)
    BY <1>1, <1>5, <2>1, <2>5, FrontHeld DEF Front!Arrive, OfferArrives, Told, Open
  <2> QED
    BY <2>4, <2>6 DEF Front!Next
<1>6. ASSUME NEW o \in Offers, Downloads(o) \/ DownloadEnds(o) \/ ReportSize(o)
      PROVE  HeldInv' /\ UNCHANGED Front!frontVars
  <2> DEFINE Going == {"fetching", "exporting", "saved", "done", "failed"}
  <2>1. UNCHANGED <<offers, pending>>
    BY <1>6 DEF Downloads, DownloadEnds, ReportSize, LeaveSaved
  <2>2. /\ download[o].state \in Going /\ download'[o].state \in Going
        /\ \A p \in Offers : p # o => download'[p] = download[p]
    BY <1>6 DEF Downloads, DownloadEnds, ReportSize, LeaveSaved, ReceiveTypeOK
  <2>3. \A s \in Going : s # "offered" /\ Answer(s) = "accept"
    BY DEF Answer
  <2> QED
    BY <1>1, <2>1, <2>2, <2>3, HeldKept, FrontStutters
<1> QED
  BY <1>2, <1>3, <1>4, <1>5, <1>6 DEF OfferStep, Front!Next

\* The window drops what it holds.
LEMMA FrontClose ==
    ASSUME ReceiveTypeOK, HeldInv, CloseWindow
    PROVE  HeldInv' /\ Front!Next
<1>1. Distinct(offers') /\ \A x : ~Contains(offers', x)
  BY EmptyQueue DEF CloseWindow
<1>2. /\ pending' = NoOffer /\ offers' = <<>> /\ Open /\ Open' = FALSE
  BY DEF CloseWindow, Open
<1>3. \A o \in Offers : download'[o] = IF Waits(o)
                                       THEN [download[o] EXCEPT !.state = "dropped"]
                                       ELSE download[o]
  BY FrontHeld DEF CloseWindow, Waits
<1>4. \A o \in Offers : IF Waits(o) THEN download'[o].state = "dropped"
                        ELSE download'[o].state = download[o].state
  BY <1>3 DEF ReceiveTypeOK
<1>5. HeldInv'
  BY <1>1, <1>2, <1>4, NoOfferAssumption DEF HeldInv, Waits
<1>6. Told' = [o \in Offers |-> IF Front!Held(o) THEN "dropped" ELSE Told[o]]
  BY <1>4, FrontHeld DEF Told, Answer
<1>7. Front!Close
  BY <1>2, <1>6 DEF Front!Close, Told
<1> QED
  BY <1>5, <1>7 DEF Front!Next

LEMMA FrontStep ==
    ReceiveTypeOK /\ HeldInv /\ [Next]_vars => HeldInv' /\ [Front!Next]_Front!frontVars
<1> SUFFICES ASSUME ReceiveTypeOK, HeldInv, [Next]_vars
             PROVE  HeldInv' /\ [Front!Next]_Front!frontVars
  OBVIOUS
<1>1. CASE UNCHANGED receiveVars /\ (phase' = "closed" <=> phase = "closed")
  BY <1>1, HeldKept, FrontStutters DEF receiveVars
<1>2. UNCHANGED vars => UNCHANGED receiveVars /\ (phase' = "closed" <=> phase = "closed")
  BY DEF vars
<1> QED
  BY <1>1, <1>2, FrontRefresh, FrontOffer, FrontClose, SelectStepScope, SendStepScope, StepKinds

\* The window implements a front end: offers are shown one at a time in the
\* order of their arrival, answered once, and dropped when it is closed.
THEOREM WindowIsFrontEnd == Spec => IsFrontEnd
<1>1. Init => Front!Init
  BY DEF Init, Front!Init, Answer, Open
<1>2. TypeOK => ReceiveTypeOK
  BY TypeParts
<1> QED
  BY <1>1, <1>2, Typing, HeldInit, FrontStep, PTL DEF Spec, IsFrontEnd, Front!Spec
=============================================================================
