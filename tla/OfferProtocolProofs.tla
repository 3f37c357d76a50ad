-------------------------- MODULE OfferProtocolProofs --------------------------
(***************************************************************************)
(* Proofs about OfferProtocol, for any number of transfers, any names and  *)
(* directories and any capacity of the queue.                              *)
(***************************************************************************)
EXTENDS OfferProtocol, QueueLemmas

-----------------------------------------------------------------------------
(* Types.                                                                  *)

\* Writing a byte leaves a sequence of bytes on every stream.
LEMMA SentType ==
    ASSUME TypeOK, NEW t \in Transfers, NEW byte \in StatusByte
    PROVE  Sent(t, byte) \in [Transfers -> Seq(StatusByte)]
<1>1. stream[t] \in Seq(StatusByte)
  BY DEF TypeOK
<1>2. Append(stream[t], byte) \in Seq(StatusByte)
  BY <1>1, AppendProperties
<1> QED
  BY <1>2 DEF Sent, TypeOK

\* So do the two ways in which run_sender goes on after a read.
LEMMA ReadType ==
    ASSUME TypeOK, NEW t \in Transfers, NEW s \in SenderState,
           (stream[t] # <<>> /\ Continue(t, s)) \/ Return(t, s)
    PROVE  /\ sender' \in [Transfers -> SenderState]
           /\ stream' \in [Transfers -> Seq(StatusByte)]
<1>1. stream[t] # <<>> => Tail(stream[t]) \in Seq(StatusByte)
  <2>1. stream[t] \in Seq(StatusByte)
    BY DEF TypeOK
  <2> QED
    BY <2>1, HeadTailProperties
<1>2. <<>> \in Seq(StatusByte)
  BY EmptySeq
<1>3. sender \in [Transfers -> SenderState] /\ stream \in [Transfers -> Seq(StatusByte)]
  BY DEF TypeOK
<1>4. CASE stream[t] # <<>> /\ Continue(t, s)
  BY <1>1, <1>3, <1>4 DEF Continue
<1>5. CASE Return(t, s)
  BY <1>2, <1>3, <1>5 DEF Return
<1> QED
  BY <1>4, <1>5

LEMMA Bytes ==
    /\ Declined \in StatusByte /\ Accepted \in StatusByte
    /\ Progress \in StatusByte /\ Completed \in StatusByte /\ Failed \in StatusByte
BY DEF StatusByte, Declined, Accepted, Progress, Completed, Failed

LEMMA SenderTypes == Reading \cup Returned \subseteq SenderState
BY DEF SenderState

LEMMA HandlerTypes == Running \cup Over \subseteq HandlerState
BY DEF HandlerState

\* A step of run_sender keeps the types.
LEMMA SenderTyping ==
    ASSUME TypeOK, NEW t \in Transfers, ImportFile(t) \/ SenderStep(t)
    PROVE  TypeOK'
<1> USE DEF frontVars, diskVars, deviceVars
<1>1. CASE ImportFile(t)
  <2>1. {"imported", "error"} \subseteq SenderState
    BY DEF SenderState, Returned
  <2> QED
    BY <1>1, <2>1 DEF ImportFile, TypeOK
<1>2. CASE SendOffer(t)
  <2>1. {"awaiting", "error"} \subseteq SenderState /\ "reading" \in HandlerState
    BY DEF SenderState, Returned, Reading, HandlerState, Running
  <2>2. /\ sender' \in [Transfers -> SenderState]
        /\ handler' \in [Transfers -> HandlerState]
    <3>1. sender \in [Transfers -> SenderState] /\ handler \in [Transfers -> HandlerState]
      BY DEF TypeOK
    <3>2. CASE /\ sender' = [sender EXCEPT ![t] = "awaiting"]
               /\ handler' = [handler EXCEPT ![t] = "reading"]
      BY <2>1, <3>1, <3>2
    <3>3. CASE sender' = [sender EXCEPT ![t] = "error"] /\ UNCHANGED handler
      BY <2>1, <3>1, <3>3
    <3> QED
      BY <1>2, <3>2, <3>3 DEF SendOffer
  <2> QED
    BY <1>2, <2>2 DEF SendOffer, TypeOK
<1>3. ASSUME NEW s \in SenderState,
             (stream[t] # <<>> /\ Continue(t, s)) \/ Return(t, s),
             UNCHANGED <<name, handler, lost, cut, frontVars, diskVars, deviceVars>>
      PROVE  TypeOK'
  <2>1. /\ sender' \in [Transfers -> SenderState]
        /\ stream' \in [Transfers -> Seq(StatusByte)]
    BY <1>3, ReadType
  <2> QED
    BY <1>3, <2>1 DEF TypeOK
<1>4. {"downloading", "declined", "error", "timed_out", "unwatched", "completed",
          "download_failed"}
        \subseteq SenderState
  BY DEF SenderState, Reading, Returned
<1>5. CASE ReadDecision(t)
  BY <1>3, <1>4, <1>5 DEF ReadDecision
<1>6. CASE DecisionTimeout(t)
  BY <1>3, <1>4, <1>6 DEF DecisionTimeout
<1>7. CASE ReadStatus(t)
  BY <1>3, <1>4, <1>7 DEF ReadStatus
<1>8. CASE SenderSeesClose(t)
  BY <1>3, <1>4, <1>8 DEF SenderSeesClose
<1> QED
  BY <1>1, <1>2, <1>5, <1>6, <1>7, <1>8 DEF SenderStep

\* A step of accept keeps the types.
LEMMA HandlerTyping ==
    ASSUME TypeOK, NEW t \in Transfers, HandlerStep(t)
    PROVE  TypeOK'
<1> USE DEF frontVars, senderVars, diskVars, deviceVars
<1>1. ASSUME NEW s \in Running \cup Over, Goto(t, s)
      PROVE  handler' \in [Transfers -> HandlerState]
  BY <1>1, HandlerTypes DEF Goto, TypeOK
<1>2. /\ {"queueing", "deciding", "accepting", "declining", "closing_err", "checking",
          "fetching", "failing", "exporting", "completing", "closing_ok"} \subseteq Running
      /\ {"ok", "err"} \subseteq Over
  BY DEF Running, Over
<1>3. ASSUME NEW byte \in StatusByte, NEW s \in Running, WriteOrErr(t, byte, s)
      PROVE  /\ handler' \in [Transfers -> HandlerState]
             /\ stream' \in [Transfers -> Seq(StatusByte)]
  <2>1. handler' \in [Transfers -> HandlerState]
    BY <1>1, <1>2, <1>3 DEF WriteOrErr
  <2>2. stream' \in [Transfers -> Seq(StatusByte)]
    BY <1>3, SentType DEF WriteOrErr, TypeOK
  <2> QED
    BY <2>1, <2>2
<1>4. CASE ReadOffer(t)
  BY <1>1, <1>2, <1>4 DEF ReadOffer, TypeOK
<1>5. CASE EnqueueOffer(t)
  <2>1. queue' \in Seq(Transfers) /\ Len(queue') <= QueueCap
    <3>1. CASE queue' = Append(queue, t) /\ Len(queue) < QueueCap
      <4>1. queue' \in Seq(Transfers) /\ Len(queue') = Len(queue) + 1
        BY <3>1, AppendProperties DEF TypeOK
      <4>2. Len(queue) \in Nat
        BY LenProperties DEF TypeOK
      <4> QED
        BY <3>1, <4>1, <4>2, QueueCapAssumption
    <3>2. CASE UNCHANGED queue
      BY <3>2 DEF TypeOK
    <3> QED
      BY <1>5, <3>1, <3>2 DEF EnqueueOffer
  <2>2. handler' \in [Transfers -> HandlerState]
    BY <1>1, <1>2, <1>5 DEF EnqueueOffer
  <2> QED
    BY <1>5, <2>1, <2>2 DEF EnqueueOffer, TypeOK
<1>6. CASE TakeDecision(t)
  BY <1>1, <1>2, <1>6 DEF TakeDecision, TypeOK
<1>7. CASE WriteDeclined(t)
  <2>1. stream' \in [Transfers -> Seq(StatusByte)]
    BY <1>7, SentType, Bytes DEF WriteDeclined, TypeOK
  <2>2. handler' \in [Transfers -> HandlerState]
    BY <1>1, <1>2, <1>7 DEF WriteDeclined
  <2> QED
    BY <1>7, <2>1, <2>2 DEF WriteDeclined, TypeOK
<1>8. CASE WriteAccepted(t)
  <2>1. /\ handler' \in [Transfers -> HandlerState]
        /\ stream' \in [Transfers -> Seq(StatusByte)]
    BY <1>2, <1>3, <1>8, Bytes DEF WriteAccepted
  <2> QED
    BY <1>8, <2>1 DEF WriteAccepted, TypeOK
<1>9. CASE CheckTarget(t)
  BY <1>1, <1>2, <1>9 DEF CheckTarget, TypeOK
<1>10. CASE FetchProgress(t)
  <2>1. stream' \in [Transfers -> Seq(StatusByte)]
    BY <1>10, SentType, Bytes DEF FetchProgress, TypeOK
  <2>2. handler' \in [Transfers -> HandlerState]
    BY <1>1, <1>2, <1>10 DEF FetchProgress, TypeOK
  <2> QED
    BY <1>10, <2>1, <2>2 DEF FetchProgress, TypeOK
<1>11. CASE FetchEnds(t)
  BY <1>1, <1>2, <1>11 DEF FetchEnds, TypeOK
<1>12. CASE Export(t)
  <2>1. handler' \in [Transfers -> HandlerState]
    BY <1>1, <1>2, <1>12 DEF Export
  <2>2. /\ disk' \in [Paths -> {"absent", "user", "partial"} \cup Transfers]
        /\ saved' \subseteq Transfers
    BY <1>12 DEF Export, TypeOK
  <2> QED
    BY <1>12, <2>1, <2>2 DEF Export, TypeOK
<1>13. CASE WriteCompleted(t)
  <2>1. /\ handler' \in [Transfers -> HandlerState]
        /\ stream' \in [Transfers -> Seq(StatusByte)]
    BY <1>2, <1>3, <1>13, Bytes DEF WriteCompleted
  <2> QED
    BY <1>13, <2>1 DEF WriteCompleted, TypeOK
<1>14. CASE WriteFailed(t)
  <2>1. /\ handler' \in [Transfers -> HandlerState]
        /\ stream' \in [Transfers -> Seq(StatusByte)]
    BY <1>2, <1>3, <1>14, Bytes DEF WriteFailed
  <2> QED
    BY <1>14, <2>1 DEF WriteFailed, TypeOK
<1>15. CASE AwaitClosed(t)
  BY <1>1, <1>2, <1>15 DEF AwaitClosed, TypeOK
<1> QED
  BY <1>4, <1>5, <1>6, <1>7, <1>8, <1>9, <1>10, <1>11, <1>12, <1>13, <1>14, <1>15
     DEF HandlerStep

\* A step of the front end or of the router keeps the types.
LEMMA DeviceTyping ==
    ASSUME TypeOK, TakeOffer \/ Decide \/ CloseFront \/ ShutdownRouter
    PROVE  TypeOK'
<1> USE DEF frontVars, senderVars, diskVars, deviceVars
<1>1. CASE TakeOffer
  <2>1. /\ pending' \in Transfers
        /\ queue' \in Seq(Transfers)
        /\ Len(queue') = Len(queue) - 1
    BY <1>1, HeadTailProperties DEF TakeOffer, TypeOK
  <2>2. Len(queue) \in Nat
    BY LenProperties DEF TypeOK
  <2>3. Len(queue') <= QueueCap
    BY <2>1, <2>2, QueueCapAssumption DEF TypeOK
  <2> QED
    BY <1>1, <2>1, <2>3 DEF TakeOffer, TypeOK
<1>2. CASE Decide
  <2>1. /\ decision' \in [Transfers -> {"none", "accept", "decline", "dropped"}]
        /\ target' \in [Transfers -> Paths \cup {NoPath}]
    <3>1. \A d \in Dirs : <<d, name[pending]>> \in Paths
      <4>1. pending \in Transfers
        BY <1>2 DEF Decide, TypeOK
      <4>2. name[pending] \in Names
        BY <4>1 DEF TypeOK
      <4> QED
        BY <4>2 DEF Paths
    <3>2. /\ decision \in [Transfers -> {"none", "accept", "decline", "dropped"}]
          /\ target \in [Transfers -> Paths \cup {NoPath}]
      BY DEF TypeOK
    <3>3. decision' \in [Transfers -> {"none", "accept", "decline", "dropped"}]
      BY <1>2, <3>2 DEF Decide
    <3>4. target' \in [Transfers -> Paths \cup {NoPath}]
      BY <1>2, <3>1, <3>2 DEF Decide
    <3> QED
      BY <3>3, <3>4
  <2> QED
    BY <1>2, <2>1 DEF Decide, TypeOK
<1>3. CASE CloseFront
  <2>1. decision' \in [Transfers -> {"none", "accept", "decline", "dropped"}]
    BY <1>3 DEF CloseFront, TypeOK
  <2>2. queue' \in Seq(Transfers) /\ Len(queue') <= QueueCap
    BY <1>3, EmptySeq, QueueCapAssumption DEF CloseFront
  <2> QED
    BY <1>3, <2>1, <2>2 DEF CloseFront, TypeOK
<1>4. CASE ShutdownRouter
  BY <1>4 DEF ShutdownRouter, TypeOK, HandlerState, Over
<1> QED
  BY <1>1, <1>2, <1>3, <1>4

LEMMA TypeInit == Init => TypeOK
<1> SUFFICES ASSUME Init PROVE TypeOK
  OBVIOUS
<1>1. queue \in Seq(Transfers) /\ Len(queue) <= QueueCap
  BY EmptySeq, QueueCapAssumption DEF Init
<1>2. stream \in [Transfers -> Seq(StatusByte)]
  BY EmptySeq DEF Init
<1> QED
  BY <1>1, <1>2 DEF Init, TypeOK, SenderState, HandlerState

LEMMA TypeStep == TypeOK /\ [Next]_vars => TypeOK'
<1> SUFFICES ASSUME TypeOK, [Next]_vars PROVE TypeOK'
  OBVIOUS
<1>1. ASSUME NEW t \in Transfers, LoseConnection(t) \/ ReceiverSeesClose(t)
      PROVE  TypeOK'
  BY <1>1 DEF LoseConnection, ReceiverSeesClose, TypeOK, senderVars, frontVars,
              diskVars, deviceVars
<1>2. CASE UNCHANGED vars
  BY <1>2 DEF vars, TypeOK
<1> QED
  BY <1>1, <1>2, SenderTyping, HandlerTyping, DeviceTyping DEF Next, Finished

\* The variables keep their types, and the queue of offers its capacity, in
\* every step of run_sender, accept, the front end and the network.
THEOREM Typing == Spec => []TypeOK
BY TypeInit, TypeStep, PTL DEF Spec

-----------------------------------------------------------------------------
(***************************************************************************)
(* What the sender is told.  None of the three properties on the verdicts  *)
(* is inductive: a Completed byte on the stream, say, will make run_sender *)
(* return Ok(Completed), and only the history of the handler tells that    *)
(* the file is there by then.  IInv adds how far the handler is with each  *)
(* answer, where it can be once a file is saved, and what each byte that   *)
(* is still on its way means.                                              *)
(***************************************************************************)

\* The handler has not asked yet; it acts on an acceptance.
Early == {"none", "reading", "queueing"}
Granted == {"accepting", "checking", "fetching", "exporting", "completing", "failing",
            "closing_ok"}
Refusals == {"decline", "dropped"}

OnStream(t, byte) == \E i \in 1 .. Len(stream[t]) : stream[t][i] = byte

\* There is no handler before the offer is sent.
StartInv == \A t \in Transfers : sender[t] \in {"idle", "imported"} => handler[t] = "none"

AnswerInv ==
    \A t \in Transfers :
      /\ handler[t] \in Early => decision[t] = "none"
      /\ handler[t] \in Granted => decision[t] = "accept"
      /\ handler[t] = "declining" => decision[t] \in Refusals

SavedInv ==
    \A t \in Transfers :
      /\ handler[t] \in {"completing", "closing_ok", "ok"} => t \in saved
      /\ t \in saved => /\ handler[t] \in {"completing", "closing_ok"} \cup Over
                        /\ decision[t] = "accept"

StreamInv ==
    \A t \in Transfers :
      /\ OnStream(t, Completed) => t \in saved
      /\ OnStream(t, Declined) => /\ decision[t] \in Refusals
                                  /\ handler[t] \in {"closing_err"} \cup Over
      /\ OnStream(t, Failed) => /\ t \notin saved
                                /\ handler[t] \in {"closing_err"} \cup Over

\* Nobody holds an offer once the front end is gone.
FrontInv == ~front => queue = <<>> /\ pending = NoTransfer

Verdicts == CompletedMeansSaved /\ DeclinedMeansNotTaken /\ FailedMeansNotSaved

IInv ==
    TypeOK /\ StartInv /\ NoOfferLost /\ AnswerInv /\ FrontInv /\ SavedInv /\ StreamInv /\ Verdicts

-----------------------------------------------------------------------------
(* The queue of offers.                                                    *)

NoDuplicates == \A i, j \in 1 .. Len(queue) : queue[i] = queue[j] => i = j

\* Appending an offer that is not in the queue.
LEMMA QueueAppend ==
    ASSUME TypeOK, NEW t \in Transfers, ~InQueue(t), NoDuplicates,
           queue' = Append(queue, t)
    PROVE  /\ \A u \in Transfers : InQueue(u)' <=> (InQueue(u) \/ u = t)
           /\ NoDuplicates'
<1>1. queue \in Seq(Transfers) /\ Distinct(queue) /\ ~Contains(queue, t)
  BY DEF TypeOK, NoDuplicates, Distinct, InQueue, Contains
<1>2. /\ \A u : Contains(queue', u) <=> Contains(queue, u) \/ u = t
      /\ Distinct(queue')
  BY <1>1, ContainsAppend
<1> QED
  BY <1>2 DEF NoDuplicates, Distinct, InQueue, Contains

\* Taking the first offer.
LEMMA QueueTail ==
    ASSUME TypeOK, queue # <<>>, NoDuplicates, queue' = Tail(queue)
    PROVE  /\ Head(queue) \in Transfers
           /\ InQueue(Head(queue))
           /\ \A u \in Transfers : InQueue(u)' <=> (InQueue(u) /\ u # Head(queue))
           /\ NoDuplicates'
<1>1. queue \in Seq(Transfers) /\ Distinct(queue)
  BY DEF TypeOK, NoDuplicates, Distinct
<1>2. /\ Head(queue) \in Transfers
      /\ Contains(queue, Head(queue))
      /\ \A u : Contains(queue', u) <=> Contains(queue, u) /\ u # Head(queue)
      /\ Distinct(queue')
  BY <1>1, ContainsTail
<1> QED
  BY <1>2 DEF NoDuplicates, Distinct, InQueue, Contains

\* NoOfferLost, transfer by transfer.
Waits(t) == handler[t] = "deciding" /\ decision[t] = "none"
Held(t) == pending = t \/ InQueue(t)

LEMMA OffersHeld ==
    ASSUME TypeOK
    PROVE  NoOfferLost <=> /\ \A t \in Transfers : Waits(t) <=> Held(t)
                           /\ NoDuplicates
                           /\ pending \in Transfers => ~InQueue(pending)
<1>1. \A i \in 1 .. Len(queue) : queue[i] \in Transfers
  BY ElementOfSeq DEF TypeOK
<1> QED
  BY <1>1 DEF NoOfferLost, NoDuplicates, InQueue, Waits, Held

LEMMA OffersHeldNext ==
    ASSUME TypeOK'
    PROVE  NoOfferLost' <=> /\ \A t \in Transfers : Waits(t)' <=> Held(t)'
                            /\ NoDuplicates'
                            /\ pending' \in Transfers => ~InQueue(pending)'
<1>1. \A i \in 1 .. Len(queue') : queue'[i] \in Transfers
  BY ElementOfSeq DEF TypeOK
<1> QED
  BY <1>1 DEF NoOfferLost, NoDuplicates, InQueue, Waits, Held

\* A step of a handler that is not waiting for an answer, to a state in
\* which it does not wait either and in which the answer is as it should be.
LEMMA HandlerMoves ==
    ASSUME TypeOK, NoOfferLost, AnswerInv, NEW t \in Transfers, NEW s,
           Goto(t, s),
           UNCHANGED <<queue, pending, decision>>,
           ~Waits(t),
           s # "deciding",
           s \in Early => decision[t] = "none",
           s \in Granted => decision[t] = "accept",
           s = "declining" => decision[t] \in Refusals
    PROVE  NoOfferLost' /\ AnswerInv'
<1>1. /\ handler'[t] = s
      /\ \A u \in Transfers : u # t => handler'[u] = handler[u]
  BY DEF Goto, TypeOK
<1>2. AnswerInv'
  BY <1>1 DEF AnswerInv
<1>3. NoOfferLost'
  BY <1>1 DEF NoOfferLost, InQueue, Waits
<1> QED
  BY <1>2, <1>3

\* No step starts a handler without its sender.
LEMMA StartKept ==
    ASSUME TypeOK, StartInv, [Next]_vars
    PROVE  StartInv'
<1> USE DEF StartInv, frontVars, senderVars, diskVars, deviceVars
<1>1. ASSUME NEW t \in Transfers, ImportFile(t) \/ SendOffer(t)
      PROVE  StartInv'
  <2>1. CASE ImportFile(t)
    BY <2>1 DEF ImportFile, TypeOK
  <2>2. CASE SendOffer(t)
    <3>1. \A u \in Transfers : u # t => sender'[u] = sender[u] /\ handler'[u] = handler[u]
      BY <2>2 DEF SendOffer, TypeOK
    <3>2. sender'[t] \in {"awaiting", "error"}
      BY <2>2 DEF SendOffer, TypeOK
    <3> QED
      BY <3>1, <3>2
  <2> QED
    BY <1>1, <2>1, <2>2
<1>2. ASSUME NEW t \in Transfers,
             ReadDecision(t) \/ DecisionTimeout(t) \/ ReadStatus(t) \/ SenderSeesClose(t)
      PROVE  StartInv'
  <2>1. /\ UNCHANGED handler
        /\ \E s \in {"downloading"} \cup Returned : sender' = [sender EXCEPT ![t] = s]
    BY <1>2 DEF ReadDecision, DecisionTimeout, ReadStatus, SenderSeesClose, Continue, Return,
       Returned
  <2> QED
    BY <2>1 DEF TypeOK, Returned
<1>3. ASSUME NEW t \in Transfers, HandlerStep(t)
      PROVE  StartInv'
  <2>1. handler[t] # "none" /\ UNCHANGED sender
    BY <1>3 DEF HandlerStep, ReadOffer, EnqueueOffer, TakeDecision, WriteDeclined,
       WriteAccepted, CheckTarget, FetchProgress, FetchEnds, Export, WriteCompleted,
       WriteFailed, AwaitClosed
  <2>2. UNCHANGED handler \/ \E s \in Running \cup Over : Goto(t, s)
    BY <1>3 DEF HandlerStep, ReadOffer, EnqueueOffer, TakeDecision, WriteDeclined,
       WriteAccepted, CheckTarget, FetchProgress, FetchEnds, Export, WriteCompleted,
       WriteFailed, AwaitClosed, WriteOrErr, Running, Over
  <2> QED
    BY <2>1, <2>2 DEF Goto, TypeOK
<1>4. CASE ShutdownRouter
  BY <1>4 DEF ShutdownRouter, TypeOK, Running
<1>5. CASE TakeOffer \/ Decide \/ CloseFront \/ UNCHANGED vars
  BY <1>5 DEF TakeOffer, Decide, CloseFront, vars
<1>6. ASSUME NEW t \in Transfers, LoseConnection(t) \/ ReceiverSeesClose(t)
      PROVE  StartInv'
  BY <1>6 DEF LoseConnection, ReceiverSeesClose
<1> QED
  BY <1>1, <1>2, <1>3, <1>4, <1>5, <1>6 DEF Next, SenderStep, Finished

\* Every step keeps each offer with exactly one holder, and each handler
\* within what its answer allows.
LEMMA OffersKept ==
    ASSUME TypeOK, StartInv, NoOfferLost, AnswerInv, FrontInv, [Next]_vars
    PROVE  NoOfferLost' /\ AnswerInv' /\ FrontInv'
<1> USE DEF frontVars, senderVars, diskVars, deviceVars
<1>1. ASSUME UNCHANGED <<handler, queue, pending, decision, front>>
      PROVE  NoOfferLost' /\ AnswerInv' /\ FrontInv'
  BY <1>1 DEF NoOfferLost, InQueue, AnswerInv, FrontInv
<1>2. ASSUME NEW t \in Transfers, NEW s, Goto(t, s),
             UNCHANGED <<queue, pending, decision, front>>,
             ~Waits(t),
             s # "deciding",
             s \in Early => decision[t] = "none",
             s \in Granted => decision[t] = "accept",
             s = "declining" => decision[t] \in Refusals
      PROVE  NoOfferLost' /\ AnswerInv' /\ FrontInv'
  BY <1>2, HandlerMoves DEF FrontInv
<1>3. ASSUME NEW t \in Transfers, ImportFile(t) \/ SenderStep(t)
      PROVE  NoOfferLost' /\ AnswerInv' /\ FrontInv'
  <2>1. CASE SendOffer(t) /\ handler' # handler
    <3>1. Goto(t, "reading") /\ UNCHANGED <<queue, pending, decision, front>>
      BY <2>1 DEF SendOffer, Goto
    <3>2. handler[t] = "none" /\ decision[t] = "none"
      BY <2>1 DEF SendOffer, StartInv, AnswerInv, Early
    <3> QED
      BY <1>2, <2>1, <3>1, <3>2 DEF Waits, Granted
  <2>2. CASE UNCHANGED <<handler, queue, pending, decision, front>>
    BY <1>1, <2>2
  <2> QED
    BY <1>3, <2>1, <2>2 DEF ImportFile, SenderStep, SendOffer, ReadDecision, DecisionTimeout,
       ReadStatus, SenderSeesClose
<1>4. ASSUME NEW t \in Transfers, HandlerStep(t)
      PROVE  NoOfferLost' /\ AnswerInv' /\ FrontInv'
  <2> USE DEF Waits, Early, Granted, Refusals
  <2>1. CASE ReadOffer(t)
    <3>1. decision[t] = "none"
      BY <2>1 DEF ReadOffer, AnswerInv
    <3> QED
      BY <1>2, <2>1, <3>1 DEF ReadOffer
  <2>2. CASE EnqueueOffer(t) /\ ~front
    BY <1>2, <2>2 DEF EnqueueOffer
  <2>3. CASE EnqueueOffer(t) /\ front
    <3>1. /\ handler[t] = "queueing"
          /\ queue' = Append(queue, t)
          /\ handler' = [handler EXCEPT ![t] = "deciding"]
          /\ UNCHANGED <<pending, decision, front>>
      BY <2>3 DEF EnqueueOffer, Goto
    <3>2. decision[t] = "none"
      BY <3>1 DEF AnswerInv
    <3>3. ~Held(t)
      BY <3>1, OffersHeld
    <3>4. /\ \A u \in Transfers : InQueue(u)' <=> (InQueue(u) \/ u = t)
          /\ NoDuplicates'
      BY <3>1, <3>3, QueueAppend, OffersHeld DEF Held
    <3>5. \A u \in Transfers : handler'[u] = IF u = t THEN "deciding" ELSE handler[u]
      BY <3>1 DEF TypeOK
    <3>6. \A u \in Transfers : Waits(u)' <=> Held(u)'
      BY <3>1, <3>2, <3>4, <3>5, OffersHeld DEF Held
    <3>7. pending' \in Transfers => ~InQueue(pending)'
      BY <3>1, <3>3, <3>4, OffersHeld DEF Held
    <3>8. TypeOK'
      BY <1>4, HandlerTyping
    <3>9. NoOfferLost'
      BY <3>4, <3>6, <3>7, <3>8, OffersHeldNext
    <3>10. AnswerInv'
      BY <3>1, <3>5 DEF AnswerInv
    <3> QED
      BY <2>3, <3>1, <3>9, <3>10 DEF FrontInv
  <2>4. CASE TakeDecision(t)
    <3>1. decision[t] \in {"none", "accept", "decline", "dropped"}
      BY DEF TypeOK
    <3> QED
      BY <1>2, <2>4, <3>1 DEF TakeDecision
  <2>5. CASE WriteDeclined(t)
    BY <1>2, <2>5 DEF WriteDeclined
  <2>6. CASE \/ WriteAccepted(t)
             \/ CheckTarget(t)
             \/ FetchProgress(t)
             \/ FetchEnds(t)
             \/ Export(t)
             \/ WriteCompleted(t)
             \/ WriteFailed(t)
    <3>1. /\ handler[t] \in Granted /\ decision[t] = "accept"
          /\ UNCHANGED <<queue, pending, decision, front>>
      BY <2>6 DEF WriteAccepted, CheckTarget, FetchProgress, FetchEnds, Export,
         WriteCompleted, WriteFailed, AnswerInv
    <3>2. \/ UNCHANGED handler
          \/ \E s \in Granted \cup {"closing_err", "err"} : Goto(t, s)
      BY <2>6 DEF WriteAccepted, CheckTarget, FetchProgress, FetchEnds, Export,
         WriteCompleted, WriteFailed, WriteOrErr
    <3> QED
      BY <1>1, <1>2, <3>1, <3>2
  <2>7. CASE AwaitClosed(t)
    BY <1>2, <2>7 DEF AwaitClosed
  <2> QED
    BY <1>4, <2>1, <2>2, <2>3, <2>4, <2>5, <2>6, <2>7 DEF HandlerStep
<1>5. CASE TakeOffer
  <2>1. /\ front
        /\ pending = NoTransfer
        /\ queue # <<>>
        /\ pending' = Head(queue)
        /\ queue' = Tail(queue)
        /\ UNCHANGED <<handler, decision, front>>
    BY <1>5 DEF TakeOffer
  <2>2. /\ Head(queue) \in Transfers
        /\ InQueue(Head(queue))
        /\ \A u \in Transfers : InQueue(u)' <=> (InQueue(u) /\ u # Head(queue))
        /\ NoDuplicates'
    BY <2>1, QueueTail, OffersHeld
  <2>3. \A u \in Transfers : Waits(u)' <=> Held(u)'
    BY <2>1, <2>2, OffersHeld, NoTransferAssumption DEF Held, Waits
  <2>4. TypeOK'
    BY <1>5, DeviceTyping
  <2>5. NoOfferLost'
    BY <2>1, <2>2, <2>3, <2>4, OffersHeldNext
  <2> QED
    BY <2>1, <2>5 DEF AnswerInv, FrontInv
<1>6. CASE Decide
  <2>1. /\ pending \in Transfers
        /\ pending' = NoTransfer
        /\ \E d \in {"accept", "decline"} : decision' = [decision EXCEPT ![pending] = d]
        /\ UNCHANGED <<handler, queue, front>>
    BY <1>6 DEF Decide, TypeOK
  <2>2. /\ \A u \in Transfers : u # pending => decision'[u] = decision[u]
        /\ decision'[pending] \in {"accept", "decline"}
    BY <2>1 DEF TypeOK
  <2>3. handler[pending] = "deciding" /\ ~InQueue(pending)
    BY <2>1, OffersHeld DEF Waits, Held
  <2>4. \A u \in Transfers : Waits(u)' <=> Held(u)'
    BY <2>1, <2>2, <2>3, OffersHeld, NoTransferAssumption DEF Held, Waits, InQueue
  <2>5. TypeOK'
    BY <1>6, DeviceTyping
  <2>6. NoDuplicates'
    BY <2>1, OffersHeld DEF NoDuplicates
  <2>7. NoOfferLost'
    BY <2>1, <2>4, <2>5, <2>6, OffersHeldNext, NoTransferAssumption
  <2>8. AnswerInv'
    BY <2>1, <2>2, <2>3 DEF AnswerInv, Early, Granted
  <2> QED
    BY <2>1, <2>7, <2>8 DEF FrontInv
<1>7. CASE CloseFront
  <2>1. /\ queue' = <<>> /\ pending' = NoTransfer
        /\ UNCHANGED handler
        /\ \A u \in Transfers :
             decision'[u] = IF Held(u) THEN "dropped" ELSE decision[u]
    BY <1>7 DEF CloseFront, Held
  <2>2. Len(queue') = 0
    BY <2>1, EmptySeq
  <2>3. /\ \A u \in Transfers : ~InQueue(u)'
        /\ NoDuplicates'
    BY <2>2 DEF InQueue, NoDuplicates
  <2>4. \A u \in Transfers : ~Waits(u)'
    BY <2>1, OffersHeld DEF Waits
  <2>5. TypeOK'
    BY <1>7, DeviceTyping
  <2>6. NoOfferLost'
    BY <2>1, <2>3, <2>4, <2>5, OffersHeldNext, NoTransferAssumption DEF Held
  <2>7. \A u \in Transfers : Held(u) => handler[u] = "deciding"
    BY OffersHeld DEF Waits
  <2>8. AnswerInv'
    BY <2>1, <2>7 DEF AnswerInv, Early, Granted
  <2> QED
    BY <2>1, <2>6, <2>8 DEF FrontInv
<1>8. CASE ShutdownRouter
  <2>1. /\ queue = <<>> /\ pending = NoTransfer
        /\ UNCHANGED <<queue, pending, decision, front>>
        /\ \A u \in Transfers :
             handler'[u] = IF handler[u] \in Running THEN "aborted" ELSE handler[u]
    BY <1>8 DEF ShutdownRouter, FrontInv
  <2>2. Len(queue) = 0
    BY <2>1, EmptySeq
  <2>3. \A u \in Transfers : handler'[u] # "deciding" /\ ~InQueue(u)'
    BY <2>1, <2>2 DEF Running, InQueue
  <2>4. NoOfferLost'
    BY <2>1, <2>2, <2>3, NoTransferAssumption DEF NoOfferLost
  <2>5. AnswerInv'
    BY <2>1 DEF AnswerInv, Early, Granted, Running
  <2> QED
    BY <2>1, <2>4, <2>5 DEF FrontInv
<1>9. ASSUME NEW t \in Transfers, LoseConnection(t) \/ ReceiverSeesClose(t)
      PROVE  NoOfferLost' /\ AnswerInv' /\ FrontInv'
  BY <1>1, <1>9 DEF LoseConnection, ReceiverSeesClose
<1>10. CASE UNCHANGED vars
  BY <1>1, <1>10 DEF vars
<1> QED
  BY <1>3, <1>4, <1>5, <1>6, <1>7, <1>8, <1>9, <1>10 DEF Next, Finished

-----------------------------------------------------------------------------
(* The bytes on their way.                                                 *)

\* A write adds at most the byte that is written.
LEMMA StreamWrite ==
    ASSUME TypeOK, NEW t \in Transfers, NEW byte \in StatusByte,
           stream' = Sent(t, byte) \/ UNCHANGED stream,
           NEW u \in Transfers, NEW b, OnStream(u, b)'
    PROVE  OnStream(u, b) \/ (u = t /\ b = byte)
<1>1. CASE stream'[u] = stream[u]
  BY <1>1 DEF OnStream
<1>2. CASE u = t /\ stream'[t] = Append(stream[t], byte)
  <2>1. stream[t] \in Seq(StatusByte) /\ Len(stream[t]) \in Nat
    BY LenProperties DEF TypeOK
  <2>2. /\ Len(stream'[t]) = Len(stream[t]) + 1
        /\ \A i \in 1 .. Len(stream[t]) : stream'[t][i] = stream[t][i]
        /\ stream'[t][Len(stream[t]) + 1] = byte
    BY <1>2, <2>1, AppendProperties
  <2>3. PICK i \in 1 .. Len(stream'[t]) : stream'[t][i] = b
    BY <1>2 DEF OnStream
  <2>4. i \in 1 .. Len(stream[t]) \/ i = Len(stream[t]) + 1
    BY <2>1, <2>2, <2>3
  <2> QED
    BY <1>2, <2>2, <2>3, <2>4 DEF OnStream
<1> QED
  BY <1>1, <1>2 DEF Sent, TypeOK

\* A read adds none, and what is read was there.
LEMMA StreamRead ==
    ASSUME TypeOK, NEW t \in Transfers, NEW s,
           (stream[t] # <<>> /\ Continue(t, s)) \/ Return(t, s)
    PROVE  /\ \A u \in Transfers, b \in StatusByte : OnStream(u, b)' => OnStream(u, b)
           /\ stream[t] # <<>> => OnStream(t, Head(stream[t]))
<1>1. stream[t] \in Seq(StatusByte)
  BY DEF TypeOK
<1>2. ASSUME NEW u \in Transfers, NEW b \in StatusByte, OnStream(u, b)'
      PROVE  OnStream(u, b)
  <2>1. CASE u # t
    BY <1>2, <2>1 DEF OnStream, Continue, Return, TypeOK
  <2>2. CASE u = t /\ stream'[t] = <<>>
    <3>1. Len(stream'[t]) = 0
      BY <2>2, EmptySeq
    <3> QED
      BY <1>2, <2>2, <3>1 DEF OnStream
  <2>3. CASE u = t /\ stream[t] # <<>> /\ stream'[t] = Tail(stream[t])
    <3>1. /\ Len(stream[t]) \in Nat \ {0}
          /\ Len(stream'[t]) = Len(stream[t]) - 1
          /\ \A i \in 1 .. Len(stream'[t]) : stream'[t][i] = stream[t][i + 1]
      BY <1>1, <2>3, HeadTailProperties, EmptySeq
    <3>2. PICK i \in 1 .. Len(stream'[t]) : stream'[t][i] = b
      BY <1>2, <2>3 DEF OnStream
    <3>3. i + 1 \in 1 .. Len(stream[t])
      BY <3>1, <3>2
    <3> QED
      BY <2>3, <3>1, <3>2, <3>3 DEF OnStream
  <2> QED
    BY <2>1, <2>2, <2>3 DEF Continue, Return, TypeOK
<1>3. ASSUME stream[t] # <<>> PROVE OnStream(t, Head(stream[t]))
  <2>1. Head(stream[t]) = stream[t][1] /\ Len(stream[t]) \in Nat \ {0}
    BY <1>1, <1>3, HeadTailProperties, EmptySeq
  <2>2. 1 \in 1 .. Len(stream[t])
    BY <2>1
  <2> QED
    BY <2>1, <2>2 DEF OnStream
<1> QED
  BY <1>2, <1>3

-----------------------------------------------------------------------------
(* One step, seen from a transfer u: what is settled stays settled, and    *)
(* what is new has its reason in the state before.                         *)

Ended == {"closing_err"} \cup Over
AfterExport == {"completing", "closing_ok"} \cup Over

Settled(u) ==
    /\ u \in saved => u \in saved'
    /\ decision[u] # "none" => decision'[u] = decision[u]
    /\ handler[u] \in Ended => handler'[u] \in Ended
    /\ handler[u] \in AfterExport => handler'[u] \in AfterExport

Caused(u) ==
    /\ u \in saved' => u \in saved \/ (handler[u] = "exporting" /\ handler'[u] = "completing")
    /\ handler'[u] \in {"completing", "closing_ok", "ok"} =>
         u \in saved' \/ handler[u] \in {"completing", "closing_ok", "ok"}
    /\ OnStream(u, Completed)' => OnStream(u, Completed) \/ handler[u] = "completing"
    /\ OnStream(u, Declined)' =>
         OnStream(u, Declined) \/ (handler[u] = "declining" /\ handler'[u] = "closing_err")
    /\ OnStream(u, Failed)' =>
         OnStream(u, Failed) \/ (handler[u] = "failing" /\ handler'[u] = "closing_err")
    /\ sender'[u] = "completed" => sender[u] = "completed" \/ OnStream(u, Completed)
    /\ sender'[u] = "declined" => sender[u] = "declined" \/ OnStream(u, Declined)
    /\ sender'[u] = "download_failed" =>
         sender[u] = "download_failed" \/ OnStream(u, Failed)

LEMMA BytesDiffer ==
    /\ Completed # Declined /\ Completed # Accepted /\ Completed # Progress
    /\ Failed # Declined /\ Failed # Accepted /\ Failed # Progress /\ Failed # Completed
    /\ Declined # Accepted /\ Declined # Progress
BY DEF Declined, Accepted, Progress, Completed, Failed

\* Nothing that is settled is undone: no save, no answer, no end of a handler.
LEMMA StepSettles ==
    ASSUME TypeOK, StartInv, NoOfferLost, [Next]_vars, NEW u \in Transfers
    PROVE  Settled(u)
<1> USE DEF Settled, frontVars, senderVars, diskVars, deviceVars
<1>1. CASE UNCHANGED <<saved, decision, handler>>
  BY <1>1
<1>2. ASSUME NEW t \in Transfers, SendOffer(t)
      PROVE  Settled(u)
  <2>1. handler[t] = "none" /\ UNCHANGED <<saved, decision>>
    BY <1>2 DEF SendOffer, StartInv
  <2>2. u # t => handler'[u] = handler[u]
    BY <1>2 DEF SendOffer, TypeOK
  <2> QED
    BY <2>1, <2>2 DEF Ended, AfterExport, Over
<1>3. ASSUME NEW t \in Transfers, HandlerStep(t)
      PROVE  Settled(u)
  <2> USE DEF Ended, AfterExport, Over
  <2>1. UNCHANGED decision /\ saved \subseteq saved'
    BY <1>3 DEF HandlerStep, ReadOffer, EnqueueOffer, TakeDecision, WriteDeclined,
       WriteAccepted, CheckTarget, FetchProgress, FetchEnds, Export, WriteCompleted,
       WriteFailed, AwaitClosed
  <2>2. u # t => handler'[u] = handler[u]
    BY <1>3 DEF HandlerStep, ReadOffer, EnqueueOffer, TakeDecision, WriteDeclined,
       WriteAccepted, CheckTarget, FetchProgress, FetchEnds, Export, WriteCompleted,
       WriteFailed, AwaitClosed, WriteOrErr, Goto, TypeOK
  <2>3. CASE WriteCompleted(t)
    BY <2>1, <2>2, <2>3 DEF WriteCompleted, WriteOrErr, Goto, TypeOK
  <2>4. CASE AwaitClosed(t)
    BY <2>1, <2>2, <2>4 DEF AwaitClosed, Goto, TypeOK
  <2>5. ASSUME ~WriteCompleted(t), ~AwaitClosed(t)
        PROVE  handler[t] \notin Ended \cup AfterExport
    BY <1>3, <2>5 DEF HandlerStep, ReadOffer, EnqueueOffer, TakeDecision, WriteDeclined,
       WriteAccepted, CheckTarget, FetchProgress, FetchEnds, Export, WriteFailed
  <2> QED
    BY <2>1, <2>2, <2>3, <2>4, <2>5
<1>4. CASE Decide
  <2>1. pending \in Transfers
    BY <1>4 DEF Decide, TypeOK
  <2>2. decision[pending] = "none"
    BY <2>1, OffersHeld DEF Waits, Held
  <2>3. u # pending => decision'[u] = decision[u]
    BY <1>4 DEF Decide, TypeOK
  <2>4. UNCHANGED <<saved, handler>>
    BY <1>4 DEF Decide
  <2> QED
    BY <2>2, <2>3, <2>4
<1>5. CASE CloseFront
  <2>1. Held(u) => decision[u] = "none"
    BY OffersHeld DEF Waits
  <2> QED
    BY <1>5, <2>1 DEF CloseFront, Held
<1>6. CASE ShutdownRouter
  BY <1>6 DEF ShutdownRouter, Ended, AfterExport, Over
<1>7. ASSUME NEW t \in Transfers,
             \/ ImportFile(t)
             \/ ReadDecision(t)
             \/ DecisionTimeout(t)
             \/ ReadStatus(t)
             \/ SenderSeesClose(t)
             \/ LoseConnection(t)
             \/ ReceiverSeesClose(t)
      PROVE  Settled(u)
  BY <1>1, <1>7 DEF ImportFile, ReadDecision, DecisionTimeout, ReadStatus, SenderSeesClose,
     LoseConnection, ReceiverSeesClose
<1>8. CASE TakeOffer \/ UNCHANGED vars
  BY <1>1, <1>8 DEF TakeOffer, vars
<1> QED
  BY <1>2, <1>3, <1>4, <1>5, <1>6, <1>7, <1>8 DEF Next, SenderStep, Finished

\* Nothing happens without its cause: no save but by an export, no byte but
\* from the handler that writes it, no verdict but from a byte.
LEMMA StepCauses ==
    ASSUME TypeOK, StartInv, [Next]_vars, NEW u \in Transfers
    PROVE  Caused(u)
<1> USE Bytes, BytesDiffer DEF frontVars, senderVars, diskVars, deviceVars
<1>1. ASSUME UNCHANGED <<saved, stream, sender>>,
             handler'[u] \in {"completing", "closing_ok", "ok"} => handler'[u] = handler[u]
      PROVE  Caused(u)
  BY <1>1 DEF Caused, OnStream
<1>2. ASSUME NEW t \in Transfers, ImportFile(t) \/ SendOffer(t)
      PROVE  Caused(u)
  <2>1. UNCHANGED <<saved, stream>>
    BY <1>2 DEF ImportFile, SendOffer
  <2>2. sender'[u] = sender[u] \/ sender'[u] \in {"imported", "awaiting", "error"}
    BY <1>2 DEF ImportFile, SendOffer, TypeOK
  <2>3. handler'[u] = handler[u] \/ handler'[u] = "reading"
    BY <1>2 DEF ImportFile, SendOffer, TypeOK
  <2> QED
    BY <2>1, <2>2, <2>3 DEF Caused, OnStream
<1>3. ASSUME NEW t \in Transfers, NEW s, UNCHANGED <<saved, handler>>,
             (stream[t] # <<>> /\ Continue(t, s)) \/ Return(t, s),
             s = "completed" => stream[t] # <<>> /\ Head(stream[t]) = Completed,
             s = "declined" => stream[t] # <<>> /\ Head(stream[t]) = Declined,
             s = "download_failed" => stream[t] # <<>> /\ Head(stream[t]) = Failed
      PROVE  Caused(u)
  <2>1. /\ \A b \in StatusByte : OnStream(u, b)' => OnStream(u, b)
        /\ stream[t] # <<>> => OnStream(t, Head(stream[t]))
    BY <1>3, StreamRead
  <2>2. sender'[u] = IF u = t THEN s ELSE sender[u]
    BY <1>3 DEF Continue, Return, TypeOK
  <2> QED
    BY <1>3, <2>1, <2>2 DEF Caused
<1>4. ASSUME NEW t \in Transfers,
             ReadDecision(t) \/ DecisionTimeout(t) \/ ReadStatus(t) \/ SenderSeesClose(t)
      PROVE  Caused(u)
  <2>1. CASE ReadDecision(t)
    BY <1>3, <2>1 DEF ReadDecision
  <2>2. CASE DecisionTimeout(t)
    BY <1>3, <2>2 DEF DecisionTimeout
  <2>3. CASE ReadStatus(t)
    BY <1>3, <2>3 DEF ReadStatus
  <2>4. CASE SenderSeesClose(t)
    BY <1>3, <2>4 DEF SenderSeesClose
  <2> QED
    BY <1>4, <2>1, <2>2, <2>3, <2>4
<1>5. ASSUME NEW t \in Transfers, NEW byte \in StatusByte, NEW s,
             UNCHANGED <<saved, sender>>,
             stream' = Sent(t, byte) \/ UNCHANGED stream,
             Goto(t, s),
             s \in {"completing", "ok"} => handler[t] \in {"closing_ok"},
             s = "closing_ok" => handler[t] = "completing",
             byte = Completed => handler[t] = "completing",
             byte = Declined => handler[t] = "declining" /\ s = "closing_err",
             byte = Failed => UNCHANGED stream \/ (handler[t] = "failing" /\ s = "closing_err")
      PROVE  Caused(u)
  <2>1. handler'[u] = IF u = t THEN s ELSE handler[u]
    BY <1>5 DEF Goto, TypeOK
  <2>2. \A b : OnStream(u, b)' => OnStream(u, b) \/ (u = t /\ b = byte)
    BY <1>5, StreamWrite
  <2>3. UNCHANGED stream => \A b : OnStream(u, b)' => OnStream(u, b)
    BY DEF OnStream
  <2> QED
    BY <1>5, <2>1, <2>2, <2>3 DEF Caused
<1>6. ASSUME NEW t \in Transfers, HandlerStep(t)
      PROVE  Caused(u)
  <2>1. CASE \/ ReadOffer(t) \/ EnqueueOffer(t) \/ TakeDecision(t) \/ CheckTarget(t)
             \/ FetchEnds(t) \/ AwaitClosed(t)
    <3>1. /\ UNCHANGED <<saved, sender, stream>>
          /\ \E s \in {"queueing", "err", "deciding", "accepting", "declining", "fetching",
                       "failing", "exporting", "ok"} :
               Goto(t, s) /\ (s = "ok" => handler[t] = "closing_ok")
      BY <2>1 DEF ReadOffer, EnqueueOffer, TakeDecision, CheckTarget, FetchEnds, AwaitClosed
    <3> QED
      BY <1>5, <3>1
  <2>2. CASE WriteDeclined(t)
    BY <1>5, <2>2 DEF WriteDeclined
  <2>3. CASE WriteAccepted(t)
    BY <1>5, <2>3 DEF WriteAccepted, WriteOrErr
  <2>4. CASE FetchProgress(t)
    <3>1. \E s \in {"fetching", "failing"} : Goto(t, s)
      BY <2>4 DEF FetchProgress, Goto, TypeOK
    <3> QED
      BY <1>5, <2>4, <3>1 DEF FetchProgress
  <2>5. CASE Export(t)
    <3>1. /\ UNCHANGED <<sender, stream>>
          /\ handler'[t] \in {"completing", "failing"}
          /\ u # t => handler'[u] = handler[u] /\ (u \in saved' => u \in saved)
          /\ t \in saved' => t \in saved \/ handler'[t] = "completing"
          /\ handler'[t] = "completing" => t \in saved'
          /\ handler[t] = "exporting"
      BY <2>5 DEF Export, Goto, TypeOK
    <3> QED
      BY <3>1 DEF Caused, OnStream
  <2>6. CASE WriteCompleted(t)
    BY <1>5, <2>6 DEF WriteCompleted, WriteOrErr
  <2>7. CASE WriteFailed(t)
    BY <1>5, <2>7 DEF WriteFailed, WriteOrErr
  <2> QED
    BY <1>6, <2>1, <2>2, <2>3, <2>4, <2>5, <2>6, <2>7 DEF HandlerStep
<1>7. CASE ShutdownRouter
  BY <1>1, <1>7 DEF ShutdownRouter
<1>8. CASE TakeOffer \/ Decide \/ CloseFront \/ UNCHANGED vars
  BY <1>1, <1>8 DEF TakeOffer, Decide, CloseFront, vars
<1>9. ASSUME NEW t \in Transfers, LoseConnection(t) \/ ReceiverSeesClose(t)
      PROVE  Caused(u)
  BY <1>1, <1>9 DEF LoseConnection, ReceiverSeesClose
<1> QED
  BY <1>2, <1>4, <1>6, <1>7, <1>8, <1>9 DEF Next, SenderStep, Finished

-----------------------------------------------------------------------------
(* The invariant and its consequences.                                     *)

LEMMA Inductive == IInv /\ [Next]_vars => IInv'
<1> SUFFICES ASSUME IInv, [Next]_vars PROVE IInv'
  OBVIOUS
<1>1. TypeOK'
  BY TypeStep DEF IInv
<1>2. StartInv' /\ NoOfferLost' /\ AnswerInv' /\ FrontInv'
  BY StartKept, OffersKept DEF IInv
<1>3. \A u \in Transfers : Settled(u) /\ Caused(u)
  BY StepSettles, StepCauses DEF IInv
<1>4. SavedInv'
  BY <1>2, <1>3 DEF IInv, SavedInv, AnswerInv, Settled, Caused, AfterExport, Granted, Over
<1>5. StreamInv'
  <2> SUFFICES ASSUME NEW u \in Transfers
               PROVE  /\ OnStream(u, Completed)' => u \in saved'
                      /\ OnStream(u, Declined)' => /\ decision'[u] \in Refusals
                                                   /\ handler'[u] \in Ended
                      /\ OnStream(u, Failed)' => /\ u \notin saved'
                                                 /\ handler'[u] \in Ended
    BY DEF StreamInv, Ended
  <2>1. OnStream(u, Completed)' => u \in saved'
    BY <1>3 DEF IInv, StreamInv, SavedInv, Settled, Caused
  <2>2. OnStream(u, Declined)' => decision'[u] \in Refusals /\ handler'[u] \in Ended
    BY <1>3 DEF IInv, StreamInv, AnswerInv, Settled, Caused, Ended, Refusals
  <2>3. OnStream(u, Failed)' => u \notin saved' /\ handler'[u] \in Ended
    BY <1>3 DEF IInv, StreamInv, SavedInv, Settled, Caused, Ended, Over
  <2> QED
    BY <2>1, <2>2, <2>3
<1>6. Verdicts'
  <2>1. CompletedMeansSaved'
    BY <1>3, <1>4 DEF IInv, Verdicts, CompletedMeansSaved, StreamInv, SavedInv, Settled, Caused
  <2>2. DeclinedMeansNotTaken'
    BY <1>3, <1>4 DEF IInv, Verdicts, DeclinedMeansNotTaken, StreamInv, SavedInv, Settled,
       Caused, Ended, Refusals
  <2>3. FailedMeansNotSaved'
    BY <1>3 DEF IInv, Verdicts, FailedMeansNotSaved, StreamInv, Settled, Caused, Ended, Over
  <2> QED
    BY <2>1, <2>2, <2>3 DEF Verdicts
<1> QED
  BY <1>1, <1>2, <1>4, <1>5, <1>6 DEF IInv

LEMMA Initial == Init => IInv
<1> SUFFICES ASSUME Init PROVE IInv
  OBVIOUS
<1>1. Len(queue) = 0 /\ \A t \in Transfers : Len(stream[t]) = 0
  BY EmptySeq DEF Init
<1>2. NoOfferLost
  BY <1>1, NoTransferAssumption DEF Init, NoOfferLost, InQueue
<1>3. StreamInv
  BY <1>1 DEF StreamInv, OnStream
<1>4. StartInv /\ AnswerInv /\ FrontInv /\ SavedInv /\ Verdicts
  BY DEF Init, StartInv, AnswerInv, FrontInv, SavedInv, Verdicts, CompletedMeansSaved,
     DeclinedMeansNotTaken, FailedMeansNotSaved, Early, Granted
<1> QED
  BY <1>2, <1>3, <1>4, TypeInit DEF IInv

LEMMA Invariance == Spec => []IInv
BY Initial, Inductive, PTL DEF Spec

\* A handler that waits has its offer in the queue or on the screen, and no
\* offer is there twice or without a handler: nobody waits for an answer
\* that can no longer come.
THEOREM OffersAreHeld == Spec => []NoOfferLost
<1>1. IInv => NoOfferLost
  BY DEF IInv
<1> QED
  BY <1>1, Invariance, PTL

\* What run_sender returns is true: Completed only when the receiver agreed
\* and has the file, Declined only when no one agreed, "download failed"
\* only when the file is not there and will not be.
THEOREM VerdictsAreTrue ==
    Spec => []CompletedMeansSaved /\ []DeclinedMeansNotTaken /\ []FailedMeansNotSaved
<1>1. IInv => CompletedMeansSaved /\ DeclinedMeansNotTaken /\ FailedMeansNotSaved
  BY DEF IInv, Verdicts
<1> QED
  BY <1>1, Invariance, PTL
=============================================================================
