------------------------ MODULE OfferProtocolRefinement ------------------------
(***************************************************************************)
(* OfferProtocol implements TransferContract, the promise to the two       *)
(* users, and FrontEnd, what handlers may expect of a front end.  Most     *)
(* steps of the protocol are invisible to both; each other step is mapped  *)
(* to one step of theirs.                                                  *)
(***************************************************************************)
EXTENDS OfferProtocolProofs

-----------------------------------------------------------------------------
(* The contract.  A report needs evidence in the state it is made in, and  *)
(* of that of a failure IInv has half: that nothing is saved.              *)

\* A Failed status was preceded by an acceptance.
FailInv == \A t \in Transfers : OnStream(t, Failed) => decision[t] = "accept"

LEMMA FailKept == IInv /\ FailInv /\ [Next]_vars => FailInv'
<1> SUFFICES ASSUME IInv, FailInv, [Next]_vars, NEW u \in Transfers, OnStream(u, Failed)'
             PROVE  decision'[u] = "accept"
  BY DEF FailInv
<1>1. Settled(u) /\ Caused(u)
  BY StepSettles, StepCauses DEF IInv
<1>2. OnStream(u, Failed) \/ handler[u] = "failing"
  BY <1>1 DEF Caused
<1>3. decision[u] = "accept"
  BY <1>2 DEF FailInv, IInv, AnswerInv, Granted
<1> QED
  BY <1>1, <1>3 DEF Settled

LEMMA FailInvariance == Spec => []FailInv
<1>1. Init => FailInv
  <2> SUFFICES ASSUME Init, NEW t \in Transfers PROVE ~OnStream(t, Failed)
    BY DEF FailInv
  <2>1. Len(stream[t]) = 0
    BY EmptySeq DEF Init
  <2> QED
    BY <2>1 DEF OnStream
<1> QED
  BY <1>1, FailKept, Invariance, PTL DEF Spec

\* A step that changes neither an answer, nor what is saved, nor a verdict.
LEMMA ContractStutters ==
    ASSUME UNCHANGED <<decision, saved>>,
           \A t \in Transfers : Verdict(sender'[t]) = Verdict(sender[t])
    PROVE  UNCHANGED Contract!contractVars
BY DEF Contract!contractVars

\* run_sender returns, with a verdict the state bears out.
LEMMA ContractReports ==
    ASSUME TypeOK, NEW t \in Transfers, NEW s \in Returned, sender' = [sender EXCEPT ![t] = s],
           sender[t] \in Reading \cup {"idle", "imported"}, UNCHANGED <<decision, saved>>,
           s = "completed" => t \in saved,
           s = "declined" => decision[t] \in Refusals,
           s = "download_failed" => decision[t] = "accept" /\ t \notin saved
    PROVE  Contract!Report(t)
<1>1. Verdict(sender[t]) = "none"
  BY DEF Verdict, Reading
<1>2. Verdict(s) \in {"kept", "refused", "not_kept", "unknown"}
  BY DEF Verdict, Returned
<1>3. [u \in Transfers |-> Verdict(sender'[u])] =
      [[u \in Transfers |-> Verdict(sender[u])] EXCEPT ![t] = Verdict(s)]
  BY DEF TypeOK
<1>4. Contract!Justified(t, Verdict(s))
  BY DEF Contract!Justified, Verdict, Consent, Refusals, Returned
<1> QED
  BY <1>1, <1>2, <1>3, <1>4 DEF Contract!Report

LEMMA ContractSender ==
    ASSUME IInv, FailInv, NEW t \in Transfers, ImportFile(t) \/ SenderStep(t)
    PROVE  Contract!Next \/ UNCHANGED Contract!contractVars
<1> USE DEF frontVars, diskVars, deviceVars
<1>1. TypeOK /\ UNCHANGED <<decision, saved>>
  BY DEF IInv, ImportFile, SenderStep, SendOffer, ReadDecision, DecisionTimeout, ReadStatus,
     SenderSeesClose
<1>2. ASSUME NEW s \in Returned, sender' = [sender EXCEPT ![t] = s],
             sender[t] \in Reading \cup {"idle", "imported"},
             s = "completed" => t \in saved,
             s = "declined" => decision[t] \in Refusals,
             s = "download_failed" => decision[t] = "accept" /\ t \notin saved
      PROVE  Contract!Next
  BY <1>1, <1>2, ContractReports DEF Contract!Next
<1>3. ASSUME NEW s \in {"imported", "awaiting", "downloading"},
             sender' = [sender EXCEPT ![t] = s],
             sender[t] \in Reading \cup {"idle", "imported"}
      PROVE  UNCHANGED Contract!contractVars
  <2>1. Verdict(s) = "none" /\ Verdict(sender[t]) = "none"
    BY <1>3 DEF Verdict, Reading
  <2>2. \A u \in Transfers : Verdict(sender'[u]) = Verdict(sender[u])
    BY <1>1, <1>3, <2>1 DEF TypeOK
  <2> QED
    BY <1>1, <2>2, ContractStutters
<1>4. CASE ImportFile(t)
  BY <1>2, <1>3, <1>4 DEF ImportFile, Returned
<1>5. CASE SendOffer(t)
  BY <1>2, <1>3, <1>5 DEF SendOffer, Returned
<1>6. ASSUME stream[t] # <<>>
      PROVE  /\ Head(stream[t]) = Completed => t \in saved
             /\ Head(stream[t]) = Declined => decision[t] \in Refusals
             /\ Head(stream[t]) = Failed => decision[t] = "accept" /\ t \notin saved
  <2>1. OnStream(t, Head(stream[t]))
    <3>1. stream[t] \in Seq(StatusByte)
      BY <1>1 DEF TypeOK
    <3>2. Head(stream[t]) = stream[t][1] /\ Len(stream[t]) \in Nat \ {0}
      BY <1>6, <3>1, HeadTailProperties, EmptySeq
    <3>3. 1 \in 1 .. Len(stream[t])
      BY <3>2
    <3> QED
      BY <3>2, <3>3 DEF OnStream
  <2> QED
    BY <2>1 DEF IInv, StreamInv, FailInv
<1>7. CASE ReadDecision(t)
  BY <1>2, <1>3, <1>6, <1>7 DEF ReadDecision, Continue, Return, Reading, Returned
<1>8. CASE DecisionTimeout(t)
  BY <1>2, <1>8 DEF DecisionTimeout, Return, Reading, Returned
<1>9. CASE ReadStatus(t)
  BY <1>2, <1>3, <1>6, <1>9 DEF ReadStatus, Continue, Return, Reading, Returned
<1>10. CASE SenderSeesClose(t)
  BY <1>2, <1>10 DEF SenderSeesClose, Return, Returned
<1> QED
  BY <1>4, <1>5, <1>7, <1>8, <1>9, <1>10 DEF SenderStep

\* Of the steps of accept only a successful export is visible: the file is
\* kept, with consent, and before any report of a failure.
LEMMA ContractHandler ==
    ASSUME IInv, NEW t \in Transfers, HandlerStep(t)
    PROVE  Contract!Next \/ UNCHANGED Contract!contractVars
<1> USE DEF frontVars, senderVars, diskVars, deviceVars
<1>1. UNCHANGED <<sender, decision>>
  BY DEF HandlerStep, ReadOffer, EnqueueOffer, TakeDecision, WriteDeclined, WriteAccepted,
     CheckTarget, FetchProgress, FetchEnds, Export, WriteCompleted, WriteFailed, AwaitClosed
<1>2. CASE UNCHANGED saved
  BY <1>1, <1>2, ContractStutters
<1>3. CASE saved' # saved
  <2>1. handler[t] = "exporting" /\ saved' = saved \cup {t}
    BY <1>3 DEF HandlerStep, ReadOffer, EnqueueOffer, TakeDecision, WriteDeclined,
       WriteAccepted, CheckTarget, FetchProgress, FetchEnds, Export, WriteCompleted,
       WriteFailed, AwaitClosed
  <2>2. Consent(decision[t]) = "given"
    BY <2>1 DEF IInv, AnswerInv, Granted, Consent
  <2>3. sender[t] # "download_failed"
    BY <2>1 DEF IInv, Verdicts, FailedMeansNotSaved, Over
  <2>4. Verdict(sender[t]) # "not_kept"
    BY <2>3 DEF Verdict
  <2>5. Contract!Keep(t)
    BY <1>1, <2>1, <2>2, <2>4 DEF Contract!Keep
  <2> QED
    BY <2>5 DEF Contract!Next
<1> QED
  BY <1>2, <1>3

\* The user's answer is Accept or Refuse; closing the front end refuses all
\* offers it holds at once.
LEMMA ContractFront ==
    ASSUME IInv, Decide \/ CloseFront
    PROVE  Contract!Next
<1> USE DEF diskVars
<1>1. TypeOK /\ UNCHANGED <<saved, sender>>
  BY DEF IInv, Decide, CloseFront
<1>2. \A t \in Transfers : Held(t) => decision[t] = "none" /\ Consent(decision[t]) = "open"
  BY OffersHeld DEF IInv, Waits, Consent
<1>3. CASE Decide
  <2>1. pending \in Transfers /\ Consent(decision[pending]) = "open"
    BY <1>1, <1>2, <1>3 DEF Decide, TypeOK, Held
  <2>2. CASE decision' = [decision EXCEPT ![pending] = "accept"]
    <3>1. [u \in Transfers |-> Consent(decision'[u])] =
          [[u \in Transfers |-> Consent(decision[u])] EXCEPT ![pending] = "given"]
      BY <1>1, <2>2 DEF TypeOK, Consent
    <3>2. Contract!Accept(pending)
      BY <1>1, <2>1, <3>1 DEF Contract!Accept
    <3> QED
      BY <2>1, <3>2 DEF Contract!Next
  <2>3. CASE decision' = [decision EXCEPT ![pending] = "decline"]
    <3>1. [u \in Transfers |-> Consent(decision'[u])] =
          [u \in Transfers |-> IF u \in {pending} THEN "refused"
                               ELSE [v \in Transfers |-> Consent(decision[v])][u]]
      BY <1>1, <2>3 DEF TypeOK, Consent
    <3>2. Contract!Refuse({pending})
      BY <1>1, <2>1, <3>1 DEF Contract!Refuse
    <3> QED
      BY <2>1, <3>2 DEF Contract!Next
  <2> QED
    BY <1>3, <2>2, <2>3 DEF Decide
<1>4. CASE CloseFront
  <2> DEFINE T == {t \in Transfers : Held(t)}
  <2>1. [u \in Transfers |-> Consent(decision'[u])] =
        [u \in Transfers |-> IF u \in T THEN "refused"
                             ELSE [v \in Transfers |-> Consent(decision[v])][u]]
    BY <1>4 DEF CloseFront, Held, Consent
  <2>2. Contract!Refuse(T)
    BY <1>1, <1>2, <2>1 DEF Contract!Refuse
  <2>3. T \in SUBSET Transfers
    OBVIOUS
  <2> QED
    BY <2>2, <2>3 DEF Contract!Next
<1> QED
  BY <1>3, <1>4

LEMMA ContractStep == IInv /\ FailInv /\ [Next]_vars => [Contract!Next]_Contract!contractVars
<1> SUFFICES ASSUME IInv, FailInv, [Next]_vars
             PROVE  Contract!Next \/ UNCHANGED Contract!contractVars
  OBVIOUS
<1> USE DEF frontVars, senderVars, diskVars, deviceVars
<1>1. ASSUME UNCHANGED <<decision, saved, sender>>
      PROVE  UNCHANGED Contract!contractVars
  BY <1>1, ContractStutters
<1>2. CASE TakeOffer \/ ShutdownRouter \/ UNCHANGED vars
  BY <1>1, <1>2 DEF TakeOffer, ShutdownRouter, vars
<1>3. ASSUME NEW t \in Transfers, LoseConnection(t) \/ ReceiverSeesClose(t)
      PROVE  UNCHANGED Contract!contractVars
  BY <1>1, <1>3 DEF LoseConnection, ReceiverSeesClose
<1> QED
  BY <1>2, <1>3, ContractSender, ContractHandler, ContractFront DEF Next, Finished

\* Whatever the network and the tasks do, the two users see a transfer in
\* which consent is asked once and comes first, a file is kept only with it,
\* and the sender gets at most one verdict, which is true.
THEOREM ContractIsKept == Spec => KeepsContract
<1>1. Init => Contract!Init
  BY DEF Init, Contract!Init, Consent, Verdict
<1> QED
  BY <1>1, ContractStep, Invariance, FailInvariance, PTL DEF Spec, KeepsContract, Contract!Spec

-----------------------------------------------------------------------------
(* The front end.                                                          *)

LEMMA FrontStep == IInv /\ [Next]_vars => [FrontEndOf!Next]_FrontEndOf!frontVars
<1> SUFFICES ASSUME IInv, [Next]_vars
             PROVE  FrontEndOf!Next \/ UNCHANGED FrontEndOf!frontVars
  OBVIOUS
<1> USE DEF senderVars, diskVars, deviceVars
<1>1. TypeOK
  BY DEF IInv
<1>2. \A t : FrontEndOf!Held(t) <=> Held(t)
  BY DEF FrontEndOf!Held, Held, InQueue
<1>3. ASSUME NEW t \in Transfers, EnqueueOffer(t)
      PROVE  FrontEndOf!Next \/ UNCHANGED FrontEndOf!frontVars
  <2>1. CASE UNCHANGED queue
    BY <1>3, <2>1 DEF EnqueueOffer, FrontEndOf!frontVars
  <2>2. CASE queue' # queue
    <3>1. /\ handler[t] = "queueing" /\ front /\ Len(queue) < QueueCap
          /\ queue' = Append(queue, t) /\ UNCHANGED <<pending, decision, front>>
      BY <1>3, <2>2 DEF EnqueueOffer
    <3>2. decision[t] = "none"
      BY <3>1 DEF IInv, AnswerInv, Early
    <3>3. ~FrontEndOf!Held(t)
      BY <1>1, <1>2, <3>1, OffersHeld DEF IInv, Waits
    <3>4. FrontEndOf!Arrive(t)
      BY <3>1, <3>2, <3>3 DEF FrontEndOf!Arrive
    <3> QED
      BY <3>4 DEF FrontEndOf!Next
  <2> QED
    BY <2>1, <2>2
<1>4. ASSUME NEW t \in Transfers, HandlerStep(t), ~EnqueueOffer(t)
      PROVE  UNCHANGED FrontEndOf!frontVars
  BY <1>4 DEF HandlerStep, ReadOffer, TakeDecision, WriteDeclined, WriteAccepted, CheckTarget,
     FetchProgress, FetchEnds, Export, WriteCompleted, WriteFailed, AwaitClosed, frontVars,
     FrontEndOf!frontVars
<1>5. ASSUME NEW t \in Transfers,
             ImportFile(t) \/ SenderStep(t) \/ LoseConnection(t) \/ ReceiverSeesClose(t)
      PROVE  UNCHANGED FrontEndOf!frontVars
  BY <1>5 DEF ImportFile, SenderStep, SendOffer, ReadDecision, DecisionTimeout, ReadStatus,
     SenderSeesClose, LoseConnection, ReceiverSeesClose, frontVars, FrontEndOf!frontVars
<1>6. CASE TakeOffer
  <2>1. FrontEndOf!Show
    BY <1>6 DEF TakeOffer, FrontEndOf!Show
  <2> QED
    BY <2>1 DEF FrontEndOf!Next
<1>7. CASE Decide
  <2>1. FrontEndOf!Answer
    BY <1>7 DEF Decide, FrontEndOf!Answer
  <2> QED
    BY <2>1 DEF FrontEndOf!Next
<1>8. CASE CloseFront
  <2>1. FrontEndOf!Close
    BY <1>2, <1>8 DEF CloseFront, Held, FrontEndOf!Close
  <2> QED
    BY <2>1 DEF FrontEndOf!Next
<1>9. CASE ShutdownRouter \/ UNCHANGED vars
  BY <1>9 DEF ShutdownRouter, vars, frontVars, FrontEndOf!frontVars
<1> QED
  BY <1>3, <1>4, <1>5, <1>6, <1>7, <1>8, <1>9 DEF Next, Finished

\* The handlers are served by a front end as FrontEnd describes it: a
\* bounded queue, one offer shown at a time and in order, one answer each.
THEOREM FrontEndIsUsed == Spec => UsesFrontEnd
<1>1. Init => FrontEndOf!Init
  BY DEF Init, FrontEndOf!Init
<1> QED
  BY <1>1, FrontStep, Invariance, PTL DEF Spec, UsesFrontEnd, FrontEndOf!Spec
=============================================================================
