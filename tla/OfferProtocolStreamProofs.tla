----------------------- MODULE OfferProtocolStreamProofs -----------------------
(***************************************************************************)
(* More proofs about OfferProtocol: what travels on the stream and in      *)
(* which order, what run_sender has read when accept returns Ok, and what  *)
(* an export may write to.                                                 *)
(***************************************************************************)
EXTENDS OfferProtocolProofs

-----------------------------------------------------------------------------
(***************************************************************************)
(* The order of the bytes.  That the sender can read what is first on the  *)
(* stream says nothing of what will be first after the read.  Ordered adds *)
(* the bytes behind the first, and ties the stream to the handler: it is   *)
(* empty until the decision is written, and from then on it is not, as     *)
(* long as the sender has not read the decision and the network holds.     *)
(***************************************************************************)

Undecided == Early \cup {"deciding", "declining", "accepting"}
Reporting == {"checking", "fetching", "exporting", "completing", "failing"}
Decisions == {Declined, Accepted}
Statuses == {Progress, Completed, Failed}

Ordered(t) ==
    /\ stream[t] # <<>> => sender[t] \in Reading
    /\ sender[t] = "awaiting" /\ stream[t] # <<>> => stream[t][1] \in Decisions
    /\ \A i \in 1 .. Len(stream[t]) :
         sender[t] = "downloading" \/ i > 1 => stream[t][i] \in Statuses
    /\ handler[t] \in Undecided => stream[t] = <<>> /\ sender[t] # "downloading"
    /\ handler[t] \in Reporting /\ sender[t] = "awaiting" /\ t \notin lost => stream[t] # <<>>

OrderInv == \A t \in Transfers : Ordered(t)

\* A step that leaves the stream of u and its sender alone.
LEMMA OrderUntouched ==
    ASSUME NEW u \in Transfers, Ordered(u),
           stream'[u] = stream[u], sender'[u] = sender[u], lost \subseteq lost',
           handler'[u] \in Undecided => handler[u] \in Undecided,
           handler'[u] \in Reporting => handler[u] \in Reporting
    PROVE  Ordered(u)'
BY DEF Ordered

\* A write puts its byte behind those that are there, or nowhere.
LEMMA Written ==
    ASSUME TypeOK, NEW t \in Transfers, NEW byte \in StatusByte, stream' = Sent(t, byte)
    PROVE  /\ \A u \in Transfers : u # t => stream'[u] = stream[u]
           /\ \/ /\ stream'[t] = stream[t]
                 /\ t \in lost \/ sender[t] \notin Reading
              \/ /\ t \notin lost /\ sender[t] \in Reading
                 /\ stream'[t] # <<>>
                 /\ Len(stream[t]) \in Nat /\ Len(stream'[t]) = Len(stream[t]) + 1
                 /\ \A i \in 1 .. Len(stream[t]) : stream'[t][i] = stream[t][i]
                 /\ stream'[t][Len(stream[t]) + 1] = byte
<1>1. stream[t] \in Seq(StatusByte) /\ Len(stream[t]) \in Nat
  BY LenProperties DEF TypeOK
<1>2. CASE t \notin lost /\ sender[t] \in Reading
  <2>1. stream'[t] = Append(stream[t], byte) /\ \A u \in Transfers : u # t => stream'[u] = stream[u]
    BY <1>2 DEF Sent, TypeOK
  <2>2. /\ stream'[t] # <<>>
        /\ Len(stream'[t]) = Len(stream[t]) + 1
        /\ \A i \in 1 .. Len(stream[t]) : stream'[t][i] = stream[t][i]
        /\ stream'[t][Len(stream[t]) + 1] = byte
    BY <1>1, <2>1, AppendProperties
  <2> QED
    BY <1>1, <1>2, <2>1, <2>2
<1>3. CASE t \in lost \/ sender[t] \notin Reading
  BY <1>3 DEF Sent
<1> QED
  BY <1>2, <1>3

\* A byte is written when it is due: the decision on an empty stream, a
\* status behind the decision.
LEMMA OrderWrite ==
    ASSUME TypeOK, OrderInv, NEW t \in Transfers, NEW byte \in StatusByte,
           stream' = Sent(t, byte), UNCHANGED <<sender, lost>>,
           \A v \in Transfers : v # t => handler'[v] = handler[v],
           handler'[t] \notin Undecided,
           \/ byte \in Decisions /\ handler[t] \in Undecided
           \/ byte \in Statuses /\ handler[t] \in Reporting,
           NEW u \in Transfers
    PROVE  Ordered(u)'
<1>1. Ordered(u) /\ Ordered(t)
  BY DEF OrderInv
<1>2. /\ \A v \in Transfers : v # t => stream'[v] = stream[v]
      /\ \/ /\ stream'[t] = stream[t]
            /\ t \in lost \/ sender[t] \notin Reading
         \/ /\ t \notin lost /\ sender[t] \in Reading
            /\ stream'[t] # <<>>
            /\ Len(stream[t]) \in Nat /\ Len(stream'[t]) = Len(stream[t]) + 1
            /\ \A i \in 1 .. Len(stream[t]) : stream'[t][i] = stream[t][i]
            /\ stream'[t][Len(stream[t]) + 1] = byte
  BY Written
<1>3. CASE u # t
  BY <1>1, <1>2, <1>3 DEF Ordered
<1>4. CASE u = t /\ stream'[t] = stream[t] /\ (t \in lost \/ sender[t] \notin Reading)
  BY <1>1, <1>4 DEF Ordered, Reading
<1>5. CASE /\ u = t /\ t \notin lost /\ sender[t] \in Reading
           /\ stream'[t] # <<>>
           /\ Len(stream[t]) \in Nat /\ Len(stream'[t]) = Len(stream[t]) + 1
           /\ \A i \in 1 .. Len(stream[t]) : stream'[t][i] = stream[t][i]
           /\ stream'[t][Len(stream[t]) + 1] = byte
  <2>1. stream[t] = <<>> => Len(stream[t]) = 0
    BY EmptySeq
  <2>2. stream[t] # <<>> => Len(stream[t]) > 0
    <3>1. stream[t] \in Seq(StatusByte)
      BY DEF TypeOK
    <3> QED
      BY <1>5, <3>1, EmptySeq
  <2>3. CASE handler[t] \in Undecided /\ byte \in Decisions
    <3>1. stream[t] = <<>> /\ sender[t] = "awaiting"
      BY <1>1, <1>5, <2>3 DEF Ordered, Reading
    <3>2. Len(stream'[t]) = 1 /\ stream'[t][1] = byte
      BY <1>5, <2>1, <3>1
    <3>3. \A i \in 1 .. Len(stream'[t]) : ~(i > 1)
      BY <3>2
    <3> QED
      BY <1>5, <2>3, <3>1, <3>2, <3>3 DEF Ordered
  <2>4. CASE handler[t] \in Reporting /\ byte \in Statuses
    <3>1. \A i \in 1 .. Len(stream'[t]) : i \in 1 .. Len(stream[t]) \/ i = Len(stream[t]) + 1
      BY <1>5
    <3>2. sender[t] = "awaiting" => stream'[t][1] = stream[t][1] /\ stream[t] # <<>>
      BY <1>1, <1>5, <2>2, <2>4 DEF Ordered
    <3>3. ASSUME NEW i \in 1 .. Len(stream'[t]), sender[t] = "downloading" \/ i > 1
          PROVE  stream'[t][i] \in Statuses
      BY <1>1, <1>5, <2>4, <3>1, <3>3 DEF Ordered
    <3> QED
      BY <1>1, <1>5, <3>2, <3>3 DEF Ordered
  <2> QED
    BY <2>3, <2>4
<1> QED
  BY <1>2, <1>3, <1>4, <1>5

\* run_sender reads the decision, or a progress status, and goes on: what is
\* left are statuses.
LEMMA OrderContinue ==
    ASSUME TypeOK, OrderInv, NEW t \in Transfers, sender[t] \in Reading, stream[t] # <<>>,
           Continue(t, "downloading"), UNCHANGED <<handler, lost>>, NEW u \in Transfers
    PROVE  Ordered(u)'
<1>1. Ordered(u) /\ Ordered(t)
  BY DEF OrderInv
<1>2. /\ sender' = [sender EXCEPT ![t] = "downloading"]
      /\ stream'[t] = Tail(stream[t])
      /\ \A v \in Transfers : v # t => stream'[v] = stream[v] /\ sender'[v] = sender[v]
      /\ sender'[t] = "downloading"
  BY DEF Continue, TypeOK
<1>3. CASE u # t
  BY <1>1, <1>2, <1>3 DEF Ordered
<1>4. CASE u = t
  <2>1. /\ Len(stream[t]) \in Nat \ {0}
        /\ Len(stream'[t]) = Len(stream[t]) - 1
        /\ \A i \in 1 .. Len(stream'[t]) : stream'[t][i] = stream[t][i + 1]
    <3>1. stream[t] \in Seq(StatusByte)
      BY DEF TypeOK
    <3> QED
      BY <1>2, <3>1, HeadTailProperties, EmptySeq
  <2>2. \A i \in 1 .. Len(stream'[t]) : i + 1 \in 1 .. Len(stream[t]) /\ i + 1 > 1
    BY <2>1
  <2>3. \A i \in 1 .. Len(stream'[t]) : stream'[t][i] \in Statuses
    BY <1>1, <2>1, <2>2 DEF Ordered
  <2>4. handler[t] \notin Undecided
    BY <1>1 DEF Ordered
  <2> QED
    BY <1>2, <1>4, <2>3, <2>4 DEF Ordered, Reading
<1> QED
  BY <1>3, <1>4

\* run_sender returns, and what it has not read is gone.
LEMMA OrderReturn ==
    ASSUME TypeOK, OrderInv, NEW t \in Transfers, NEW s \in Returned, Return(t, s),
           UNCHANGED <<handler, lost>>, NEW u \in Transfers
    PROVE  Ordered(u)'
<1>1. Ordered(u)
  BY DEF OrderInv
<1>2. /\ stream'[t] = <<>> /\ sender'[t] = s
      /\ \A v \in Transfers : v # t => stream'[v] = stream[v] /\ sender'[v] = sender[v]
  BY DEF Return, TypeOK
<1>3. CASE u # t
  BY <1>1, <1>2, <1>3 DEF Ordered
<1>4. CASE u = t
  <2>1. Len(stream'[t]) = 0
    BY <1>2, EmptySeq
  <2>2. s \notin Reading
    BY DEF Reading, Returned
  <2> QED
    BY <1>2, <1>4, <2>1, <2>2 DEF Ordered, Reading
<1> QED
  BY <1>3, <1>4

\* A handler that does not write leaves the stream alone, and does not go
\* back to a state before its decision.
LEMMA OrderMove ==
    ASSUME TypeOK, OrderInv, NEW t \in Transfers, NEW s, Goto(t, s),
           UNCHANGED <<stream, sender, lost>>,
           s \in Undecided => handler[t] \in Undecided,
           s \in Reporting => handler[t] \in Reporting,
           NEW u \in Transfers
    PROVE  Ordered(u)'
<1>1. handler'[u] = IF u = t THEN s ELSE handler[u]
  BY DEF Goto, TypeOK
<1> QED
  BY <1>1, OrderUntouched DEF OrderInv

LEMMA OrderHandler ==
    ASSUME TypeOK, OrderInv, NEW t \in Transfers, HandlerStep(t), NEW u \in Transfers
    PROVE  Ordered(u)'
<1> USE DEF frontVars, senderVars, diskVars, deviceVars
<1> USE DEF Undecided, Reporting, Early
<1>1. ASSUME NEW byte \in StatusByte, NEW s, s \notin Undecided \cup Reporting,
             WriteOrErr(t, byte, s) \/ (Goto(t, s) /\ stream' = Sent(t, byte)),
             \/ byte \in Decisions /\ handler[t] \in Undecided
             \/ byte \in Statuses /\ handler[t] \in Reporting,
             UNCHANGED <<sender, lost>>
      PROVE  Ordered(u)'
  <2>1. CASE Goto(t, "err") /\ UNCHANGED stream
    BY <1>1, <2>1, OrderMove
  <2>2. CASE Goto(t, s) /\ stream' = Sent(t, byte)
    <3>1. handler'[t] = s /\ \A v \in Transfers : v # t => handler'[v] = handler[v]
      BY <2>2 DEF Goto, TypeOK
    <3> QED
      BY <1>1, <2>2, <3>1, OrderWrite
  <2> QED
    BY <1>1, <2>1, <2>2 DEF WriteOrErr
<1>2. CASE ReadOffer(t) \/ EnqueueOffer(t) \/ TakeDecision(t)
  <2>1. /\ UNCHANGED <<stream, sender, lost>> /\ handler[t] \in Undecided
        /\ \E s \in {"queueing", "err", "deciding", "accepting", "declining"} : Goto(t, s)
    BY <1>2 DEF ReadOffer, EnqueueOffer, TakeDecision
  <2> QED
    BY <2>1, OrderMove
<1>3. CASE WriteDeclined(t)
  <2>1. CASE t \in cut
    BY <1>3, <2>1, OrderMove DEF WriteDeclined
  <2>2. CASE t \notin cut
    BY <1>1, <1>3, <2>2, Bytes DEF WriteDeclined, Decisions
  <2> QED
    BY <2>1, <2>2
<1>4. CASE WriteAccepted(t)
  <2>1. CASE t \in cut
    BY <1>4, <2>1, OrderMove DEF WriteAccepted, WriteOrErr
  <2>2. CASE t \notin cut
    <3>1. /\ handler[t] \in Undecided /\ Goto(t, "checking") /\ stream' = Sent(t, Accepted)
          /\ UNCHANGED <<sender, lost>>
      BY <1>4, <2>2 DEF WriteAccepted, WriteOrErr
    <3>2. handler'[t] = "checking" /\ \A v \in Transfers : v # t => handler'[v] = handler[v]
      BY <3>1 DEF Goto, TypeOK
    <3> QED
      BY <3>1, <3>2, OrderWrite, Bytes DEF Decisions
  <2> QED
    BY <2>1, <2>2
<1>5. CASE CheckTarget(t) \/ FetchEnds(t) \/ Export(t)
  <2>1. /\ UNCHANGED <<stream, sender, lost>> /\ handler[t] \in Reporting
        /\ \E s \in {"fetching", "failing", "exporting", "completing"} : Goto(t, s)
    BY <1>5 DEF CheckTarget, FetchEnds, Export
  <2> QED
    BY <2>1, OrderMove
<1>6. CASE FetchProgress(t)
  <2>1. CASE front /\ t \notin cut
    <3>1. /\ handler[t] = "fetching" /\ stream' = Sent(t, Progress)
          /\ UNCHANGED <<sender, lost, handler>>
      BY <1>6, <2>1 DEF FetchProgress
    <3> QED
      BY <3>1, OrderWrite, Bytes DEF Statuses
  <2>2. CASE ~(front /\ t \notin cut)
    BY <1>6, <2>2, OrderMove DEF FetchProgress
  <2> QED
    BY <2>1, <2>2
<1>7. CASE WriteCompleted(t)
  BY <1>1, <1>7, Bytes DEF WriteCompleted, Statuses
<1>8. CASE WriteFailed(t)
  BY <1>1, <1>8, Bytes DEF WriteFailed, Statuses
<1>9. CASE AwaitClosed(t)
  BY <1>9, OrderMove DEF AwaitClosed
<1> QED
  BY <1>2, <1>3, <1>4, <1>5, <1>6, <1>7, <1>8, <1>9 DEF HandlerStep

LEMMA OrderSender ==
    ASSUME TypeOK, OrderInv, StartInv, NEW t \in Transfers, ImportFile(t) \/ SenderStep(t),
           NEW u \in Transfers
    PROVE  Ordered(u)'
<1> USE DEF frontVars, senderVars, diskVars, deviceVars
<1>1. Ordered(t) /\ Ordered(u)
  BY DEF OrderInv
<1>2. CASE ImportFile(t) \/ SendOffer(t)
  <2>1. UNCHANGED <<stream, lost>> /\ sender[t] \notin Reading
    BY <1>2 DEF ImportFile, SendOffer, Reading
  <2>2. \A v \in Transfers : v # t => handler'[v] = handler[v] /\ sender'[v] = sender[v]
    BY <1>2 DEF ImportFile, SendOffer, TypeOK
  <2>3. sender'[t] # "downloading" /\ handler'[t] \in {handler[t], "reading"}
    BY <1>2 DEF ImportFile, SendOffer, TypeOK
  <2>4. stream[t] = <<>> /\ Len(stream[t]) = 0
    BY <1>1, <2>1, EmptySeq DEF Ordered
  <2>5. handler[t] = "none"
    BY <1>2 DEF ImportFile, SendOffer, StartInv
  <2>6. CASE u = t
    BY <2>1, <2>3, <2>4, <2>5, <2>6 DEF Ordered, Reporting
  <2>7. CASE u # t
    BY <1>1, <2>1, <2>2, <2>7, OrderUntouched
  <2> QED
    BY <2>6, <2>7
<1>3. ASSUME NEW s \in Returned, Return(t, s), UNCHANGED <<handler, lost>>
      PROVE  Ordered(u)'
  BY <1>3, OrderReturn
<1>4. ASSUME sender[t] \in Reading, stream[t] # <<>>, Continue(t, "downloading"),
             UNCHANGED <<handler, lost>>
      PROVE  Ordered(u)'
  BY <1>4, OrderContinue
<1>5. CASE ReadDecision(t)
  BY <1>3, <1>4, <1>5 DEF ReadDecision, Reading, Returned
<1>6. CASE DecisionTimeout(t)
  BY <1>3, <1>6 DEF DecisionTimeout, Returned
<1>7. CASE ReadStatus(t)
  BY <1>3, <1>4, <1>7 DEF ReadStatus, Reading, Returned
<1>8. CASE SenderSeesClose(t)
  BY <1>3, <1>8 DEF SenderSeesClose, Returned
<1> QED
  BY <1>2, <1>5, <1>6, <1>7, <1>8 DEF SenderStep

LEMMA OrderKept ==
    ASSUME TypeOK, StartInv, OrderInv, [Next]_vars
    PROVE  OrderInv'
<1> SUFFICES ASSUME NEW u \in Transfers PROVE Ordered(u)'
  BY DEF OrderInv
<1> USE DEF frontVars, senderVars, diskVars, deviceVars
<1>1. ASSUME UNCHANGED <<stream, sender>>, lost \subseteq lost',
             handler'[u] \in {handler[u], "aborted"}
      PROVE  Ordered(u)'
  BY <1>1, OrderUntouched DEF OrderInv, Undecided, Early, Reporting
<1>2. CASE TakeOffer \/ Decide \/ CloseFront \/ UNCHANGED vars
  BY <1>1, <1>2 DEF TakeOffer, Decide, CloseFront, vars
<1>3. CASE ShutdownRouter
  BY <1>1, <1>3 DEF ShutdownRouter
<1>4. ASSUME NEW t \in Transfers, LoseConnection(t) \/ ReceiverSeesClose(t)
      PROVE  Ordered(u)'
  BY <1>1, <1>4 DEF LoseConnection, ReceiverSeesClose
<1> QED
  BY <1>2, <1>3, <1>4, OrderHandler, OrderSender DEF Next, Finished

LEMMA OrderInitial == Init => OrderInv
<1> SUFFICES ASSUME Init, NEW t \in Transfers PROVE Ordered(t)
  BY DEF OrderInv
<1>1. stream[t] = <<>> /\ Len(stream[t]) = 0 /\ sender[t] = "idle"
  BY EmptySeq DEF Init
<1> QED
  BY <1>1 DEF Ordered, Init, Reporting

LEMMA OrderInvariance == Spec => []OrderInv
<1>1. IInv /\ OrderInv /\ [Next]_vars => OrderInv'
  BY OrderKept DEF IInv
<1> QED
  BY <1>1, OrderInitial, Invariance, PTL DEF Spec

\* The sender reads a decision first and statuses afterwards, whatever the
\* handler writes while the sender waits, times out or reads: the untyped
\* stream is never misread.
THEOREM StreamIsParsed == Spec => []NeverMisparsed
<1>1. TypeOK /\ OrderInv => NeverMisparsed
  <2> SUFFICES ASSUME TypeOK, OrderInv, NEW t \in Transfers, stream[t] # <<>>
               PROVE  /\ sender[t] = "awaiting" => Head(stream[t]) \in Decisions
                      /\ sender[t] = "downloading" => Head(stream[t]) \in Statuses
    BY DEF NeverMisparsed, Decisions, Statuses
  <2>1. Head(stream[t]) = stream[t][1] /\ 1 \in 1 .. Len(stream[t])
    <3>1. stream[t] \in Seq(StatusByte)
      BY DEF TypeOK
    <3>2. Len(stream[t]) \in Nat \ {0}
      BY <3>1, EmptySeq
    <3> QED
      BY <3>1, <3>2, HeadTailProperties
  <2> QED
    BY <2>1 DEF OrderInv, Ordered
<1> QED
  BY <1>1, Typing, OrderInvariance, PTL

-----------------------------------------------------------------------------
(***************************************************************************)
(* The end of the connection.  accept returns Ok once the connection has   *)
(* ended; why has run_sender dropped its end by then?  EndInv says that    *)
(* the receiving endpoint notices an end only when there was one, and that *)
(* run_sender fails without a verdict only when the network failed or the  *)
(* handler is over.                                                        *)
(***************************************************************************)

CutInv == \A t \in cut : sender[t] \in Returned \/ t \in lost

ErrorInv == \A t \in Transfers : sender[t] = "error" => t \in lost \/ handler[t] \in {"none"} \cup Over

EndInv == CutInv /\ ErrorInv /\ OkMeansReported

\* What becomes of run_sender, of the network and of accept in one step.
\* The decision byte run_sender reads is one of the two it knows.
LEMMA StepEnds ==
    ASSUME TypeOK, StartInv, OrderInv, [Next]_vars, NEW u \in Transfers
    PROVE  /\ sender[u] \in Returned => sender'[u] = sender[u]
           /\ u \in lost => u \in lost'
           /\ handler[u] \in Over => handler'[u] = handler[u]
           /\ u \in cut' => u \in cut \/ sender'[u] \in Returned \/ u \in lost'
           /\ handler'[u] = "ok" => handler[u] = "ok" \/ (handler[u] = "closing_ok" /\ u \in cut)
           /\ handler'[u] = "none" => handler[u] = "none"
           /\ sender'[u] = "error" /\ sender[u] # "error" =>
                u \in lost' \/ handler'[u] \in {"none"} \cup Over
<1> USE DEF frontVars, senderVars, diskVars, deviceVars
<1> DEFINE Goal ==
      /\ sender[u] \in Returned => sender'[u] = sender[u]
      /\ u \in lost => u \in lost'
      /\ handler[u] \in Over => handler'[u] = handler[u]
      /\ u \in cut' => u \in cut \/ sender'[u] \in Returned \/ u \in lost'
      /\ handler'[u] = "ok" => handler[u] = "ok" \/ (handler[u] = "closing_ok" /\ u \in cut)
      /\ handler'[u] = "none" => handler[u] = "none"
      /\ sender'[u] = "error" /\ sender[u] # "error" =>
           u \in lost' \/ handler'[u] \in {"none"} \cup Over
<1> SUFFICES Goal
  OBVIOUS
<1>1. ASSUME NEW t \in Transfers, ImportFile(t) \/ SendOffer(t)
      PROVE  Goal
  <2>1. handler[t] = "none" /\ sender[t] \notin Returned /\ UNCHANGED <<lost, cut>>
    BY <1>1 DEF ImportFile, SendOffer, StartInv, Returned
  <2>2. u # t => sender'[u] = sender[u] /\ handler'[u] = handler[u]
    BY <1>1 DEF ImportFile, SendOffer, TypeOK
  <2>3. \/ handler'[t] = "none"
        \/ handler'[t] = "reading" /\ sender'[t] = "awaiting"
    BY <1>1, <2>1 DEF ImportFile, SendOffer, TypeOK
  <2> QED
    BY <2>1, <2>2, <2>3 DEF Over
<1>2. ASSUME NEW t \in Transfers, NEW s, Continue(t, s) \/ Return(t, s),
             s = "error" => t \in lost \/ handler[t] \in Over,
             sender[t] \in Reading, UNCHANGED <<handler, lost, cut>>
      PROVE  Goal
  <2>1. sender'[u] = IF u = t THEN s ELSE sender[u]
    BY <1>2 DEF Continue, Return, TypeOK
  <2> QED
    BY <1>2, <2>1 DEF Reading, Returned
<1>3. ASSUME NEW t \in Transfers, stream[t] # <<>>
      PROVE  /\ sender[t] = "awaiting" => Head(stream[t]) \in Decisions
             /\ sender[t] = "downloading" => Head(stream[t]) \in Statuses
  <2>1. Head(stream[t]) = stream[t][1] /\ 1 \in 1 .. Len(stream[t])
    <3>1. stream[t] \in Seq(StatusByte)
      BY DEF TypeOK
    <3>2. Len(stream[t]) \in Nat \ {0}
      BY <1>3, <3>1, EmptySeq
    <3> QED
      BY <1>3, <3>1, <3>2, HeadTailProperties
  <2> QED
    BY <1>3, <2>1 DEF OrderInv, Ordered
<1>4. ASSUME NEW t \in Transfers,
             ReadDecision(t) \/ DecisionTimeout(t) \/ ReadStatus(t) \/ SenderSeesClose(t)
      PROVE  Goal
  <2>1. CASE ReadDecision(t)
    <3>1. Head(stream[t]) \in Decisions
      BY <1>3, <2>1 DEF ReadDecision
    <3> QED
      BY <1>2, <2>1, <3>1 DEF ReadDecision, Decisions, Reading
  <2>2. CASE DecisionTimeout(t)
    BY <1>2, <2>2 DEF DecisionTimeout, Reading
  <2>3. CASE ReadStatus(t)
    <3>1. Head(stream[t]) \in Statuses
      BY <1>3, <2>3 DEF ReadStatus
    <3> QED
      BY <1>2, <2>3, <3>1 DEF ReadStatus, Statuses, Reading
  <2>4. CASE SenderSeesClose(t)
    BY <1>2, <2>4 DEF SenderSeesClose
  <2> QED
    BY <1>4, <2>1, <2>2, <2>3, <2>4
<1>5. ASSUME NEW t \in Transfers, NEW s, Goto(t, s), UNCHANGED <<sender, lost, cut>>,
             handler[t] \in Running, s # "none",
             s = "ok" => handler[t] = "closing_ok" /\ t \in cut
      PROVE  Goal
  <2>1. handler'[u] = IF u = t THEN s ELSE handler[u]
    BY <1>5 DEF Goto, TypeOK
  <2> QED
    BY <1>5, <2>1 DEF Running, Over
<1>6. ASSUME NEW t \in Transfers, HandlerStep(t)
      PROVE  Goal
  <2>1. handler[t] \in Running /\ UNCHANGED <<sender, lost, cut>>
    BY <1>6 DEF HandlerStep, ReadOffer, EnqueueOffer, TakeDecision, WriteDeclined,
       WriteAccepted, CheckTarget, FetchProgress, FetchEnds, Export, WriteCompleted,
       WriteFailed, AwaitClosed, Running
  <2>2. \/ UNCHANGED handler
        \/ \E s \in (Running \cup Over) \ {"ok"} : Goto(t, s)
        \/ Goto(t, "ok") /\ handler[t] = "closing_ok" /\ t \in cut
    BY <1>6 DEF HandlerStep, ReadOffer, EnqueueOffer, TakeDecision, WriteDeclined,
       WriteAccepted, CheckTarget, FetchProgress, FetchEnds, Export, WriteCompleted,
       WriteFailed, AwaitClosed, WriteOrErr, Running, Over
  <2>3. "none" \notin Running \cup Over
    BY DEF Running, Over
  <2> QED
    BY <1>5, <2>1, <2>2, <2>3
<1>7. CASE ShutdownRouter
  <2>1. /\ UNCHANGED <<sender, lost, cut>>
        /\ handler'[u] = IF handler[u] \in Running THEN "aborted" ELSE handler[u]
    BY <1>7 DEF ShutdownRouter
  <2> QED
    BY <2>1 DEF Running, Over
<1>8. CASE TakeOffer \/ Decide \/ CloseFront \/ UNCHANGED vars
  BY <1>8 DEF TakeOffer, Decide, CloseFront, vars
<1>9. ASSUME NEW t \in Transfers, LoseConnection(t) \/ ReceiverSeesClose(t)
      PROVE  Goal
  BY <1>9 DEF LoseConnection, ReceiverSeesClose
<1> QED
  BY <1>1, <1>4, <1>6, <1>7, <1>8, <1>9 DEF Next, SenderStep, Finished

\* Only an offer that is sent gives rise to a handler.
LEMMA NoneMoves ==
    ASSUME TypeOK, [Next]_vars, NEW u \in Transfers, handler[u] = "none"
    PROVE  handler'[u] = "none" \/ sender[u] = "imported"
<1> USE DEF frontVars, senderVars, diskVars, deviceVars
<1>1. ASSUME NEW t \in Transfers, SendOffer(t)
      PROVE  handler'[u] = "none" \/ sender[u] = "imported"
  BY <1>1 DEF SendOffer, TypeOK
<1>2. ASSUME NEW t \in Transfers, HandlerStep(t)
      PROVE  handler'[u] = "none"
  <2>1. handler[t] # "none"
    BY <1>2 DEF HandlerStep, ReadOffer, EnqueueOffer, TakeDecision, WriteDeclined,
       WriteAccepted, CheckTarget, FetchProgress, FetchEnds, Export, WriteCompleted,
       WriteFailed, AwaitClosed
  <2>2. UNCHANGED handler \/ \E s : Goto(t, s)
    BY <1>2 DEF HandlerStep, ReadOffer, EnqueueOffer, TakeDecision, WriteDeclined,
       WriteAccepted, CheckTarget, FetchProgress, FetchEnds, Export, WriteCompleted,
       WriteFailed, AwaitClosed, WriteOrErr
  <2> QED
    BY <2>1, <2>2 DEF Goto, TypeOK
<1>3. ASSUME NEW t \in Transfers,
             \/ ImportFile(t) \/ ReadDecision(t) \/ DecisionTimeout(t) \/ ReadStatus(t)
             \/ SenderSeesClose(t) \/ LoseConnection(t) \/ ReceiverSeesClose(t)
      PROVE  UNCHANGED handler
  BY <1>3 DEF ImportFile, ReadDecision, DecisionTimeout, ReadStatus, SenderSeesClose,
     LoseConnection, ReceiverSeesClose
<1>4. CASE ShutdownRouter
  BY <1>4 DEF ShutdownRouter, Running
<1>5. CASE TakeOffer \/ Decide \/ CloseFront \/ UNCHANGED vars
  BY <1>5 DEF TakeOffer, Decide, CloseFront, vars
<1> QED
  BY <1>1, <1>2, <1>3, <1>4, <1>5 DEF Next, SenderStep, Finished

LEMMA EndKept ==
    ASSUME IInv, OrderInv, EndInv, [Next]_vars
    PROVE  EndInv'
<1>1. TypeOK /\ TypeOK' /\ StartInv
  BY TypeStep DEF IInv
<1>2. CutInv'
  <2> SUFFICES ASSUME NEW u \in Transfers, u \in cut' PROVE sender'[u] \in Returned \/ u \in lost'
    BY <1>1 DEF CutInv, TypeOK
  <2> QED
    BY <1>1, StepEnds DEF EndInv, CutInv
<1>3. ErrorInv'
  <2> SUFFICES ASSUME NEW u \in Transfers, sender'[u] = "error"
               PROVE  u \in lost' \/ handler'[u] \in {"none"} \cup Over
    BY DEF ErrorInv
  <2>1. CASE sender[u] # "error"
    BY <1>1, <2>1, StepEnds
  <2>2. CASE sender[u] = "error" /\ (u \in lost \/ handler[u] \in Over)
    BY <1>1, <2>2, StepEnds
  <2>3. CASE sender[u] = "error" /\ handler[u] = "none"
    <3>1. handler'[u] = "none" \/ sender[u] = "imported"
      BY <2>3, NoneMoves, <1>1
    <3> QED
      BY <2>3, <3>1
  <2> QED
    BY <2>1, <2>2, <2>3 DEF EndInv, ErrorInv
<1>4. OkMeansReported'
  <2> SUFFICES ASSUME NEW u \in Transfers, handler'[u] = "ok", u \notin lost'
               PROVE  sender'[u] \in {"completed", "timed_out", "unwatched"}
    BY DEF OkMeansReported
  <2>1. u \notin lost
    BY <1>1, StepEnds
  <2>2. CASE handler[u] = "ok"
    <3>1. sender[u] \in {"completed", "timed_out", "unwatched"}
      BY <2>1, <2>2 DEF EndInv, OkMeansReported
    <3> QED
      BY <1>1, <3>1, StepEnds DEF Returned
  <2>3. CASE handler[u] = "closing_ok" /\ u \in cut
    <3>1. sender[u] \in Returned
      BY <2>1, <2>3 DEF EndInv, CutInv
    <3>2. sender[u] # "error"
      BY <2>1, <2>3 DEF EndInv, ErrorInv, Over
    <3>3. u \in saved
      BY <2>3 DEF IInv, SavedInv
    <3>4. sender[u] \notin {"declined", "download_failed"}
      BY <3>3 DEF IInv, Verdicts, DeclinedMeansNotTaken, FailedMeansNotSaved
    <3>5. sender'[u] = sender[u]
      BY <1>1, <3>1, StepEnds
    <3> QED
      BY <3>1, <3>2, <3>4, <3>5 DEF Returned
  <2> QED
    BY <1>1, <2>2, <2>3, StepEnds
<1> QED
  BY <1>2, <1>3, <1>4 DEF EndInv

\* When accept returns Ok the sender has been told, or the network failed,
\* or the sender had given up waiting for the decision: waiting for the end
\* of the connection loses no report.
THEOREM OkIsReported == Spec => []OkMeansReported
<1>1. Init => EndInv
  BY DEF Init, EndInv, CutInv, ErrorInv, OkMeansReported
<1>2. IInv /\ OrderInv /\ EndInv /\ [Next]_vars => EndInv'
  BY EndKept
<1>3. EndInv => OkMeansReported
  BY DEF EndInv
<1> QED
  BY <1>1, <1>2, <1>3, Invariance, OrderInvariance, PTL DEF Spec

-----------------------------------------------------------------------------
(***************************************************************************)
(* The disk.  The test of the target and the export are different steps,   *)
(* and other handlers export in between.  Still no export meets a file of  *)
(* the user: TargetInv says that none is at a target that has passed the   *)
(* test, and none gets there, since what the program writes is not one.    *)
(***************************************************************************)

TargetInv ==
    \A t \in Transfers :
      /\ decision[t] = "accept" => target[t] \in Paths
      /\ handler[t] \in {"fetching", "exporting"} => disk[target[t]] # "user"

\* Only an export changes what is at a path, and leaves its file or a part.
LEMMA StepWrites ==
    ASSUME TypeOK, [Next]_vars, NEW p \in Paths, disk'[p] # disk[p]
    PROVE  \E t \in Transfers : /\ handler[t] = "exporting" /\ target[t] = p
                                /\ disk'[p] \in {t, "partial"}
<1> USE DEF frontVars, senderVars, diskVars, deviceVars
<1>1. PICK t \in Transfers : Export(t)
  <2>1. disk' # disk
    OBVIOUS
  <2> QED
    BY <2>1 DEF Next, vars, Finished, ImportFile, SenderStep, SendOffer, ReadDecision,
       DecisionTimeout, ReadStatus, SenderSeesClose, HandlerStep, ReadOffer, EnqueueOffer,
       TakeDecision, WriteDeclined, WriteAccepted, CheckTarget, FetchProgress, FetchEnds,
       WriteCompleted, WriteFailed, AwaitClosed, LoseConnection, ReceiverSeesClose,
       TakeOffer, Decide, CloseFront, ShutdownRouter
<1>2. \/ disk' = [disk EXCEPT ![target[t]] = t]
      \/ disk' \in {disk, [disk EXCEPT ![target[t]] = "partial"]}
  BY <1>1 DEF Export
<1>3. target[t] = p /\ disk'[p] \in {t, "partial"}
  BY <1>2 DEF TypeOK
<1> QED
  BY <1>1, <1>3 DEF Export

\* A handler fetches after it has found nothing at its target, which was
\* settled by the answer.
LEMMA StepTargets ==
    ASSUME IInv, [Next]_vars, NEW u \in Transfers
    PROVE  /\ decision[u] = "accept" => target'[u] = target[u]
           /\ decision'[u] = "accept" => decision[u] = "accept" \/ target'[u] \in Paths
           /\ handler'[u] \in {"fetching", "exporting"} =>
                \/ handler[u] \in {"fetching", "exporting"}
                \/ handler[u] = "checking" /\ disk[target[u]] = "absent"
<1> USE DEF frontVars, senderVars, diskVars, deviceVars
<1> DEFINE Goal == /\ decision[u] = "accept" => target'[u] = target[u]
                   /\ decision'[u] = "accept" => decision[u] = "accept" \/ target'[u] \in Paths
                   /\ handler'[u] \in {"fetching", "exporting"} =>
                        \/ handler[u] \in {"fetching", "exporting"}
                        \/ handler[u] = "checking" /\ disk[target[u]] = "absent"
<1> SUFFICES Goal
  OBVIOUS
<1>1. TypeOK /\ NoOfferLost
  BY DEF IInv
<1>2. ASSUME UNCHANGED <<decision, target>>,
             \/ handler'[u] \notin {"fetching", "exporting"}
             \/ handler[u] \in {"fetching", "exporting"}
             \/ handler[u] = "checking" /\ disk[target[u]] = "absent"
      PROVE  Goal
  BY <1>2
<1>3. ASSUME NEW t \in Transfers, HandlerStep(t)
      PROVE  Goal
  <2>1. UNCHANGED <<decision, target>>
    BY <1>3 DEF HandlerStep, ReadOffer, EnqueueOffer, TakeDecision, WriteDeclined,
       WriteAccepted, CheckTarget, FetchProgress, FetchEnds, Export, WriteCompleted,
       WriteFailed, AwaitClosed
  <2>2. CASE u # t
    <3>1. UNCHANGED handler \/ \E s : Goto(t, s)
      BY <1>3 DEF HandlerStep, ReadOffer, EnqueueOffer, TakeDecision, WriteDeclined,
         WriteAccepted, CheckTarget, FetchProgress, FetchEnds, Export, WriteCompleted,
         WriteFailed, AwaitClosed, WriteOrErr
    <3>2. handler'[u] = handler[u]
      BY <1>1, <2>2, <3>1 DEF Goto, TypeOK
    <3> QED
      BY <2>1, <3>2
  <2>3. CASE u = t /\ ~CheckTarget(t) /\ ~FetchEnds(t) /\ ~FetchProgress(t)
    <3>1. \E s \in {"queueing", "err", "deciding", "accepting", "declining", "closing_err",
                    "checking", "completing", "failing", "closing_ok", "ok"} : Goto(t, s)
      BY <1>3, <2>3 DEF HandlerStep, ReadOffer, EnqueueOffer, TakeDecision, WriteDeclined,
         WriteAccepted, Export, WriteCompleted, WriteFailed, AwaitClosed, WriteOrErr
    <3>2. handler'[u] \notin {"fetching", "exporting"}
      BY <1>1, <2>3, <3>1 DEF Goto, TypeOK
    <3> QED
      BY <2>1, <3>2
  <2>4. CASE u = t /\ CheckTarget(t)
    <3>1. handler[t] = "checking" /\ (disk[target[t]] = "absent" \/ handler'[t] = "failing")
      BY <1>1, <2>4 DEF CheckTarget, Goto, TypeOK
    <3> QED
      BY <2>1, <2>4, <3>1
  <2>5. CASE u = t /\ (FetchEnds(t) \/ FetchProgress(t))
    BY <2>1, <2>5 DEF FetchEnds, FetchProgress
  <2> QED
    BY <2>2, <2>3, <2>4, <2>5
<1>4. ASSUME NEW t \in Transfers, ImportFile(t) \/ SenderStep(t)
      PROVE  Goal
  <2>1. /\ UNCHANGED <<decision, target>>
        /\ UNCHANGED handler \/ handler' = [handler EXCEPT ![t] = "reading"]
    BY <1>4 DEF ImportFile, SenderStep, SendOffer, ReadDecision, DecisionTimeout, ReadStatus,
       SenderSeesClose
  <2> QED
    BY <1>1, <2>1 DEF TypeOK
<1>5. CASE Decide
  <2>1. pending \in Transfers
    BY <1>1, <1>5 DEF Decide, TypeOK
  <2>2. decision[pending] = "none"
    BY <1>1, <2>1, OffersHeld DEF Waits, Held
  <2>3. UNCHANGED <<handler, disk>>
    BY <1>5 DEF Decide
  <2>4. CASE u # pending
    BY <1>1, <1>5, <2>3, <2>4 DEF Decide, TypeOK
  <2>5. CASE u = pending
    <3>1. \A d \in Dirs : <<d, name[u]>> \in Paths
      BY <1>1 DEF Paths, TypeOK
    <3>2. decision'[u] = "accept" => target'[u] \in Paths
      BY <1>1, <1>5, <2>5, <3>1 DEF Decide, TypeOK
    <3> QED
      BY <2>2, <2>3, <2>5, <3>2
  <2> QED
    BY <2>4, <2>5
<1>6. CASE CloseFront
  BY <1>6 DEF CloseFront
<1>7. CASE ShutdownRouter
  BY <1>2, <1>7 DEF ShutdownRouter, Running
<1>8. CASE TakeOffer \/ UNCHANGED vars
  BY <1>2, <1>8 DEF TakeOffer, vars
<1>9. ASSUME NEW t \in Transfers, LoseConnection(t) \/ ReceiverSeesClose(t)
      PROVE  Goal
  BY <1>2, <1>9 DEF LoseConnection, ReceiverSeesClose
<1> QED
  BY <1>3, <1>4, <1>5, <1>6, <1>7, <1>8, <1>9 DEF Next, Finished

LEMMA UserFileKept ==
    ASSUME TypeOK, TargetInv, [Next]_vars, NEW p \in Paths
    PROVE  disk[p] = "user" <=> disk'[p] = "user"
<1>1. CASE disk'[p] = disk[p]
  BY <1>1
<1>2. CASE disk'[p] # disk[p]
  <2>1. PICK t \in Transfers : /\ handler[t] = "exporting" /\ target[t] = p
                               /\ disk'[p] \in {t, "partial"}
    BY <1>2, StepWrites
  <2>2. disk[p] # "user"
    BY <2>1 DEF TargetInv
  <2>3. disk'[p] # "user"
    BY <2>1, DiskAssumption
  <2> QED
    BY <2>2, <2>3
<1> QED
  BY <1>1, <1>2

LEMMA TargetKept ==
    ASSUME IInv, TargetInv, [Next]_vars
    PROVE  TargetInv'
<1> SUFFICES ASSUME NEW u \in Transfers
             PROVE  /\ decision'[u] = "accept" => target'[u] \in Paths
                    /\ handler'[u] \in {"fetching", "exporting"} => disk'[target'[u]] # "user"
  BY DEF TargetInv
<1>1. TypeOK /\ AnswerInv
  BY DEF IInv
<1>2. decision'[u] = "accept" => target'[u] \in Paths
  BY StepTargets DEF TargetInv
<1>3. ASSUME handler'[u] \in {"fetching", "exporting"}
      PROVE  disk'[target'[u]] # "user"
  <2>1. /\ handler[u] \in Granted
        /\ disk[target[u]] # "user"
    BY <1>3, StepTargets DEF TargetInv, Granted
  <2>2. decision[u] = "accept"
    BY <1>1, <2>1 DEF AnswerInv
  <2>3. target[u] \in Paths /\ target'[u] = target[u]
    BY <2>2, StepTargets DEF TargetInv
  <2> QED
    BY <1>1, <2>1, <2>3, UserFileKept
<1> QED
  BY <1>2, <1>3

LEMMA TargetInvariance == Spec => []TargetInv
<1>1. Init => TargetInv
  BY DEF Init, TargetInv
<1>2. IInv /\ TargetInv /\ [Next]_vars => TargetInv'
  BY TargetKept
<1> QED
  BY <1>1, <1>2, Invariance, PTL DEF Spec

\* No file that was there before the transfers is overwritten, whatever
\* directories the user chooses and however the handlers of offers with the
\* same name interleave.
THEOREM UserFilesAreKept == Spec => UserFilesSurvive
<1>1. TypeOK /\ TargetInv /\ [Next]_vars =>
        [\A p \in Paths : disk[p] = "user" => disk'[p] = "user"]_vars
  BY UserFileKept
<1> QED
  BY <1>1, Typing, TargetInvariance, PTL DEF Spec, UserFilesSurvive
=============================================================================
