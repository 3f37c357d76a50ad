---------------------------- MODULE OfferProtocol ----------------------------
(***************************************************************************)
(* The transfer protocol of Iroh Share: a number of run_sender calls       *)
(* (src/src/sender.rs) offer files to one receiving device, whose router   *)
(* runs one OfferProtocol::accept handler (src/src/receiver.rs) for each   *)
(* connection.  A handler puts its offer in a bounded queue, the front end *)
(* (desktop window or terminal) takes offers out one at a time and answers *)
(* each through a one-shot channel, and the handler then declines, or      *)
(* downloads and exports the file, reporting back on the same stream.      *)
(*                                                                         *)
(* A transfer stands for one call of run_sender and for the one connection *)
(* and handler it leads to.  What travels from the handler to the sender   *)
(* is a sequence of status bytes; file contents, byte counts and time are  *)
(* abstracted.  A step is the code between two awaits, or less.            *)
(***************************************************************************)
EXTENDS Naturals, Sequences, FiniteSets

CONSTANTS
    Transfers,     \* calls of run_sender towards the receiving device
    Names,         \* file names put in offers
    Rejected,      \* names of offers the handler refuses to decode, such as
                   \* a name of more than 255 bytes
    Dirs,          \* download directories the receiving user may choose
    QueueCap,      \* capacity of the queue of offers (10 in start_iroh)
    Window,        \* bound: progress bytes in flight before a write waits
    NoTransfer,    \* "no offer is being shown"
    NoPath         \* "no target path yet"

ASSUME QueueCapAssumption == QueueCap \in Nat \ {0}
ASSUME WindowAssumption == Window \in Nat \ {0}
ASSUME RejectedAssumption == Rejected \subseteq Names
ASSUME NoTransferAssumption == NoTransfer \notin Transfers
ASSUME DiskAssumption == Transfers \cap {"absent", "user", "partial"} = {}

VARIABLES
    name,       \* name[t]: the file name in t's offer
    sender,     \* sender[t]: where run_sender is, or how it returned
    handler,    \* handler[t]: where OfferProtocol::accept is, or its result
    stream,     \* stream[t]: status bytes the handler wrote, not read yet
    lost,       \* transfers whose connection the network has cut
    cut,        \* transfers whose end the receiving endpoint has noticed
    queue,      \* offers sent to the front end, not taken yet
    pending,    \* the offer the front end shows
    decision,   \* decision[t]: state of the one-shot answer to t's handler
    target,     \* target[t]: where the accepted file goes
    disk,       \* disk[p]: what is at path p on the receiving device
    saved,      \* transfers whose export succeeded (history)
    front,      \* the front end still runs
    router      \* the router still runs

senderVars == <<sender, stream>>
frontVars  == <<queue, pending, decision, target>>
diskVars   == <<disk, saved>>
deviceVars == <<front, router>>
vars == <<name, sender, handler, stream, lost, cut, queue, pending, decision,
          target, disk, saved, front, router>>

-----------------------------------------------------------------------------
(* Status bytes.  The first byte on the stream is a decision, every later  *)
(* one a download status; the two enumerations share one numbering.        *)

Declined  == 0
Accepted  == 1
Progress  == 2
Completed == 3
Failed    == 4

StatusByte == 0 .. 4

Paths == Dirs \X Names

\* run_sender has a connection and reads from it.
Reading == {"awaiting", "downloading"}

\* Ways in which run_sender returns: Ok(Completed), Ok(Declined), the error
\* of a Failed status, the 60 second timeout, the error of progress that
\* nobody receives on the sender's own side, and every other error.
Returned == {"completed", "declined", "download_failed", "timed_out", "unwatched", "error"}

SenderState == {"idle", "imported"} \cup Reading \cup Returned

\* accept has been called and has not returned.
Running == {"reading", "queueing", "deciding", "declining", "accepting",
            "checking", "fetching", "exporting", "completing", "failing",
            "closing_ok", "closing_err"}

\* accept returned Ok or Err, or its task was aborted; in all three cases
\* the connection is dropped, which closes it.
Over == {"ok", "err", "aborted"}

HandlerState == {"none"} \cup Running \cup Over

\* Bytes the handler writes reach the sender as long as the network holds
\* and the sender's end is open; otherwise the write succeeds into the void.
Sent(t, byte) ==
    IF t \notin lost /\ sender[t] \in Reading
    THEN [stream EXCEPT ![t] = Append(@, byte)]
    ELSE stream

InQueue(t) == \E i \in 1 .. Len(queue) : queue[i] = t

Init ==
    /\ name \in [Transfers -> Names]
    /\ sender = [t \in Transfers |-> "idle"]
    /\ handler = [t \in Transfers |-> "none"]
    /\ stream = [t \in Transfers |-> <<>>] /\ lost = {} /\ cut = {}
    /\ queue = <<>> /\ pending = NoTransfer
    /\ decision = [t \in Transfers |-> "none"]
    /\ target = [t \in Transfers |-> NoPath]
    /\ disk \in [Paths -> {"absent", "user"}] /\ saved = {} /\ front = TRUE
    /\ router = TRUE

-----------------------------------------------------------------------------
(* The sender: run_sender and downloaded.                                  *)

\* run_sender up to the offer: check the name, stat the file, hash it into
\* the store.  Any of these may fail.
ImportFile(t) ==
    /\ sender[t] = "idle"
    /\ \E s \in {"imported", "error"} : sender' = [sender EXCEPT ![t] = s]
    /\ UNCHANGED <<name, handler, stream, lost, cut, frontVars, diskVars, deviceVars>>

\* connect, open_bi and Offer::write_to: the router of a device that can be
\* reached starts a handler; otherwise run_sender returns the error.
SendOffer(t) ==
    /\ sender[t] = "imported"
    /\ \/ /\ router
          /\ sender' = [sender EXCEPT ![t] = "awaiting"]
          /\ handler' = [handler EXCEPT ![t] = "reading"]
       \/ /\ sender' = [sender EXCEPT ![t] = "error"]
          /\ UNCHANGED handler
    /\ UNCHANGED <<name, stream, lost, cut, frontVars, diskVars, deviceVars>>

\* run_sender returns: its end of the connection is dropped, and with it
\* whatever it has not read.
Return(t, outcome) ==
    /\ sender' = [sender EXCEPT ![t] = outcome]
    /\ stream' = [stream EXCEPT ![t] = <<>>]

Continue(t, state) ==
    /\ sender' = [sender EXCEPT ![t] = state]
    /\ stream' = [stream EXCEPT ![t] = Tail(@)]

\* transfer_decision reads one byte within the 60 seconds.
ReadDecision(t) ==
    /\ sender[t] = "awaiting" /\ stream[t] # <<>>
    /\ LET byte == Head(stream[t]) IN
         IF byte = Accepted THEN Continue(t, "downloading")
         ELSE Return(t, IF byte = Declined THEN "declined" ELSE "error")
    /\ UNCHANGED <<name, handler, lost, cut, frontVars, diskVars, deviceVars>>

\* Mutant: wait for the decision without the time limit.
DecisionTimeoutNever(t) == FALSE /\ UNCHANGED vars

\* Mutant: take silence for a refusal.
DecisionTimeoutDeclines(t) ==
    /\ sender[t] = "awaiting" /\ Return(t, "declined")
    /\ UNCHANGED <<name, handler, lost, cut, frontVars, diskVars, deviceVars>>

\* The 60 seconds have passed and no decision has been read.
DecisionTimeout(t) ==
    /\ sender[t] = "awaiting" /\ Return(t, "timed_out")
    /\ UNCHANGED <<name, handler, lost, cut, frontVars, diskVars, deviceVars>>

\* One turn of the loop in downloaded.  Progress goes to the window of the
\* sender, and the loop ends with an error once that has been closed.
ReadStatus(t) ==
    /\ sender[t] = "downloading" /\ stream[t] # <<>>
    /\ LET byte == Head(stream[t]) IN
         IF byte = Progress
         THEN Continue(t, "downloading") \/ Return(t, "unwatched")
         ELSE Return(t, CASE byte = Completed -> "completed"
                          [] byte = Failed -> "download_failed"
                          [] OTHER -> "error")
    /\ UNCHANGED <<name, handler, lost, cut, frontVars, diskVars, deviceVars>>

\* Mutant: report a download that failed when the connection ends.
SenderSeesCloseAsFailed(t) ==
    /\ sender[t] \in Reading
    /\ handler[t] \in Over \/ t \in lost
    /\ Return(t, IF sender[t] = "downloading" THEN "download_failed" ELSE "error")
    /\ UNCHANGED <<name, handler, lost, cut, frontVars, diskVars, deviceVars>>

\* A read fails because the connection has ended: the handler dropped its
\* end or the network is gone.  Bytes not read by then may be lost with it.
SenderSeesClose(t) ==
    /\ sender[t] \in Reading
    /\ handler[t] \in Over \/ t \in lost
    /\ Return(t, "error")
    /\ UNCHANGED <<name, handler, lost, cut, frontVars, diskVars, deviceVars>>

SenderStep(t) ==
    \/ SendOffer(t) \/ ReadDecision(t) \/ DecisionTimeout(t)
    \/ ReadStatus(t) \/ SenderSeesClose(t)

-----------------------------------------------------------------------------
(* The receiver: OfferProtocol::accept and the functions it calls.         *)

Goto(t, state) == handler' = [handler EXCEPT ![t] = state]

\* Write one byte and go on; once the receiving endpoint knows that the
\* connection has ended the write fails and accept returns the error.
WriteOrErr(t, byte, next) ==
    IF t \in cut
    THEN Goto(t, "err") /\ UNCHANGED stream
    ELSE Goto(t, next) /\ stream' = Sent(t, byte)

\* accept_bi, Offer::read_from and the check that the ticket is the
\* sender's own.  An offer it cannot decode, or a connection that ends
\* before the offer is complete, makes accept return an error.
ReadOffer(t) ==
    /\ handler[t] = "reading"
    /\ \/ name[t] \notin Rejected /\ Goto(t, "queueing")
       \/ (name[t] \in Rejected \/ t \in cut) /\ Goto(t, "err")
    /\ UNCHANGED <<name, senderVars, lost, cut, frontVars, diskVars, deviceVars>>

\* Mutant: an unbounded queue.
EnqueueOfferUnbounded(t) ==
    /\ handler[t] = "queueing" /\ front
    /\ queue' = Append(queue, t)
    /\ Goto(t, "deciding")
    /\ UNCHANGED <<name, senderVars, lost, cut, pending, decision, target, diskVars, deviceVars>>

\* offer_tx.send: wait for room in the queue; an error when the front end
\* has dropped the receiving half.
EnqueueOffer(t) ==
    /\ handler[t] = "queueing"
    /\ \/ /\ front
          /\ Len(queue) < QueueCap
          /\ queue' = Append(queue, t)
          /\ Goto(t, "deciding")
       \/ /\ ~front
          /\ Goto(t, "err")
          /\ UNCHANGED queue
    /\ UNCHANGED <<name, senderVars, lost, cut, pending, decision, target, diskVars, deviceVars>>

\* decision_rx resolves: to the user's answer, or to an error because the
\* front end dropped the other half, which counts as a refusal.
TakeDecision(t) ==
    /\ handler[t] = "deciding" /\ decision[t] # "none"
    /\ Goto(t, IF decision[t] = "accept" THEN "accepting" ELSE "declining")
    /\ UNCHANGED <<name, senderVars, lost, cut, frontVars, diskVars, deviceVars>>

\* decline_decision ignores the errors of its write.
WriteDeclined(t) ==
    /\ handler[t] = "declining" /\ Goto(t, "closing_err")
    /\ stream' = IF t \in cut THEN stream ELSE Sent(t, Declined)
    /\ UNCHANGED <<name, sender, lost, cut, frontVars, diskVars, deviceVars>>

\* Mutant: start the download without telling the sender.
WriteAcceptedNot(t) ==
    /\ handler[t] = "accepting" /\ Goto(t, "checking")
    /\ UNCHANGED <<name, senderVars, lost, cut, frontVars, diskVars, deviceVars>>

WriteAccepted(t) ==
    /\ handler[t] = "accepting" /\ WriteOrErr(t, Accepted, "checking")
    /\ UNCHANGED <<name, sender, lost, cut, frontVars, diskVars, deviceVars>>

\* Mutant: no test of the target.
CheckTargetNot(t) ==
    /\ handler[t] = "checking" /\ Goto(t, "fetching")
    /\ UNCHANGED <<name, senderVars, lost, cut, frontVars, diskVars, deviceVars>>

\* download, before the first byte: an existing target is refused, and so
\* is one whose existence cannot be established.
CheckTarget(t) ==
    /\ handler[t] = "checking"
    /\ \/ disk[target[t]] = "absent" /\ Goto(t, "fetching")
       \/ Goto(t, "failing")
    /\ UNCHANGED <<name, senderVars, lost, cut, frontVars, diskVars, deviceVars>>

\* send_progress: first to the local front end, which must still be there,
\* then to the sender.
FetchProgress(t) ==
    /\ handler[t] = "fetching"
    /\ IF front /\ t \notin cut
       THEN /\ Len(stream[t]) < Window
            /\ stream' = Sent(t, Progress)
            /\ UNCHANGED handler
       ELSE /\ Goto(t, "failing")
            /\ UNCHANGED stream
    /\ UNCHANGED <<name, sender, lost, cut, frontVars, diskVars, deviceVars>>

\* The download stream ends, or reports an error.
FetchEnds(t) ==
    /\ handler[t] = "fetching"
    /\ \E s \in {"exporting", "failing"} : Goto(t, s)
    /\ UNCHANGED <<name, senderVars, lost, cut, frontVars, diskVars, deviceVars>>

\* Mutant: the result of the export is ignored.
ExportUnchecked(t) ==
    /\ handler[t] = "exporting" /\ Goto(t, "completing")
    /\ \/ /\ disk' = [disk EXCEPT ![target[t]] = t]
          /\ saved' = saved \cup {t}
       \/ UNCHANGED diskVars
    /\ UNCHANGED <<name, senderVars, lost, cut, frontVars, deviceVars>>

\* Mutant: after the export, "send" instead of "send_replace" of the final
\* progress, which fails once the front end is gone.
ExportThenSend(t) ==
    /\ handler[t] = "exporting"
    /\ disk' = [disk EXCEPT ![target[t]] = t]
    /\ saved' = saved \cup {t}
    /\ Goto(t, IF front THEN "completing" ELSE "failing")
    /\ UNCHANGED <<name, senderVars, lost, cut, frontVars, deviceVars>>

\* The store writes the file to the target.  It creates or truncates the
\* target first, so a failed export may leave a partial file.
Export(t) ==
    /\ handler[t] = "exporting"
    /\ \/ /\ disk' = [disk EXCEPT ![target[t]] = t]
          /\ saved' = saved \cup {t}
          /\ Goto(t, "completing")
       \/ /\ disk' \in {disk, [disk EXCEPT ![target[t]] = "partial"]}
          /\ Goto(t, "failing")
          /\ UNCHANGED saved
    /\ UNCHANGED <<name, senderVars, lost, cut, frontVars, deviceVars>>

WriteCompleted(t) ==
    /\ handler[t] = "completing" /\ WriteOrErr(t, Completed, "closing_ok")
    /\ UNCHANGED <<name, sender, lost, cut, frontVars, diskVars, deviceVars>>

WriteFailed(t) ==
    /\ handler[t] = "failing" /\ WriteOrErr(t, Failed, "closing_err")
    /\ UNCHANGED <<name, sender, lost, cut, frontVars, diskVars, deviceVars>>

\* Mutant: return, and drop the connection, right after the last write.
AwaitClosedNot(t) ==
    /\ handler[t] \in {"closing_ok", "closing_err"}
    /\ Goto(t, IF handler[t] = "closing_ok" THEN "ok" ELSE "err")
    /\ UNCHANGED <<name, senderVars, lost, cut, frontVars, diskVars, deviceVars>>

\* Mutant: wait until the sender has read the last status.
AwaitClosedByReader(t) ==
    /\ handler[t] \in {"closing_ok", "closing_err"}
    /\ sender[t] \in {"completed", "declined", "download_failed"}
    /\ Goto(t, IF handler[t] = "closing_ok" THEN "ok" ELSE "err")
    /\ UNCHANGED <<name, senderVars, lost, cut, frontVars, diskVars, deviceVars>>

\* connection.closed() resolves only once the connection has ended.
AwaitClosed(t) ==
    /\ handler[t] \in {"closing_ok", "closing_err"} /\ t \in cut
    /\ Goto(t, IF handler[t] = "closing_ok" THEN "ok" ELSE "err")
    /\ UNCHANGED <<name, senderVars, lost, cut, frontVars, diskVars, deviceVars>>

HandlerStep(t) ==
    \/ ReadOffer(t) \/ EnqueueOffer(t) \/ TakeDecision(t)
    \/ WriteDeclined(t) \/ WriteAccepted(t) \/ CheckTarget(t)
    \/ FetchProgress(t) \/ FetchEnds(t) \/ Export(t) \/ WriteCompleted(t)
    \/ WriteFailed(t) \/ AwaitClosed(t)

-----------------------------------------------------------------------------
(* The front end: App::refresh_offers and show_pending_offers in the       *)
(* window, the receive loop of main in the terminal.                       *)

\* Mutant: a new offer replaces the one that is shown.
TakeOfferReplacing ==
    /\ front /\ queue # <<>>
    /\ pending' = Head(queue)
    /\ queue' = Tail(queue)
    /\ UNCHANGED <<name, sender, handler, stream, lost, cut, decision, target, diskVars, deviceVars>>

\* Mutant: an offer that is shown keeps its place in the queue.
TakeOfferKeeping ==
    /\ front /\ pending = NoTransfer /\ queue # <<>>
    /\ pending' = Head(queue)
    /\ UNCHANGED <<name, sender, handler, stream, lost, cut, queue, decision, target, diskVars, deviceVars>>

\* The next offer is shown when none is.
TakeOffer ==
    /\ front /\ pending = NoTransfer /\ queue # <<>>
    /\ pending' = Head(queue)
    /\ queue' = Tail(queue)
    /\ UNCHANGED <<name, sender, handler, stream, lost, cut, decision, target, diskVars, deviceVars>>

\* The user answers the offer that is shown, choosing a directory to accept.
Decide ==
    /\ pending # NoTransfer
    /\ \/ /\ decision' = [decision EXCEPT ![pending] = "accept"]
          /\ \E d \in Dirs : target' = [target EXCEPT ![pending] = <<d, name[pending]>>]
       \/ /\ decision' = [decision EXCEPT ![pending] = "decline"]
          /\ UNCHANGED target
    /\ pending' = NoTransfer
    /\ UNCHANGED <<name, sender, handler, stream, lost, cut, queue, diskVars, deviceVars>>

\* The window is closed, or the receive loop ends on Ctrl-C or a read error:
\* the offers not answered are dropped and with them their one-shot senders.
CloseFront ==
    /\ front
    /\ front' = FALSE
    /\ decision' = [t \in Transfers |->
                      IF pending = t \/ InQueue(t) THEN "dropped" ELSE decision[t]]
    /\ queue' = <<>>
    /\ pending' = NoTransfer
    /\ UNCHANGED <<name, sender, handler, stream, lost, cut, target, diskVars, router>>

\* main shuts the router down after the front end: handlers are aborted.
ShutdownRouter ==
    /\ ~front /\ router
    /\ router' = FALSE
    /\ handler' = [t \in Transfers |->
                     IF handler[t] \in Running THEN "aborted" ELSE handler[t]]
    /\ UNCHANGED <<name, senderVars, lost, cut, frontVars, diskVars, front>>

-----------------------------------------------------------------------------
(* The network.                                                            *)

\* The connection breaks, or one of the two machines disappears.
LoseConnection(t) ==
    /\ sender[t] \in Reading \/ handler[t] \in Running
    /\ t \notin lost
    /\ lost' = lost \cup {t}
    /\ UNCHANGED <<name, sender, handler, stream, cut, frontVars, diskVars, deviceVars>>

\* The receiving endpoint learns that the connection is over: by the close
\* frame of a sender that returned, or by its idle timeout.
ReceiverSeesClose(t) ==
    /\ handler[t] \in Running
    /\ sender[t] \in Returned \/ t \in lost
    /\ t \notin cut
    /\ cut' = cut \cup {t}
    /\ UNCHANGED <<name, sender, handler, stream, lost, frontVars, diskVars, deviceVars>>

-----------------------------------------------------------------------------
\* Everything has ended: the only state in which nothing else can happen.
Finished ==
    /\ ~router
    /\ \A t \in Transfers : sender[t] \in Returned /\ handler[t] \in {"none"} \cup Over
    /\ UNCHANGED vars

Next ==
    \/ \E t \in Transfers :
         \/ ImportFile(t)
         \/ SenderStep(t)
         \/ HandlerStep(t)
         \/ LoseConnection(t)
         \/ ReceiverSeesClose(t)
    \/ TakeOffer \/ Decide \/ CloseFront \/ ShutdownRouter \/ Finished

Spec == Init /\ [][Next]_vars

(***************************************************************************)
(* Tasks that can run do run (the tokio scheduler), timers fire, the       *)
(* transport ends dead connections, downloads end, the window repaints at  *)
(* least every 250 ms and main goes on to shut the router down.  Nothing   *)
(* is assumed of the users - no file need be sent, no offer answered, no   *)
(* window closed - nor of the network's failures.                          *)
(***************************************************************************)
Fairness ==
    /\ \A t \in Transfers :
         /\ WF_vars(SenderStep(t))
         /\ WF_vars(HandlerStep(t))
         /\ WF_vars(FetchEnds(t))
         /\ WF_vars(ReceiverSeesClose(t))
    /\ WF_vars(TakeOffer)
    /\ WF_vars(ShutdownRouter)

FairSpec == Spec /\ Fairness

-----------------------------------------------------------------------------
(* Properties.                                                             *)

\* The variables have their types; the queue of offers respects its capacity.
TypeOK ==
    /\ name \in [Transfers -> Names]
    /\ sender \in [Transfers -> SenderState]
    /\ handler \in [Transfers -> HandlerState]
    /\ stream \in [Transfers -> Seq(StatusByte)] /\ lost \subseteq Transfers
    /\ cut \subseteq Transfers /\ queue \in Seq(Transfers)
    /\ Len(queue) <= QueueCap /\ pending \in Transfers \cup {NoTransfer}
    /\ decision \in [Transfers -> {"none", "accept", "decline", "dropped"}]
    /\ target \in [Transfers -> Paths \cup {NoPath}]
    /\ disk \in [Paths -> {"absent", "user", "partial"} \cup Transfers]
    /\ saved \subseteq Transfers /\ front \in BOOLEAN /\ router \in BOOLEAN

\* When run_sender returns Ok(Completed), the receiving user accepted this
\* offer and the receiver has exported the file - across the stream, the
\* time-out and lost connections (sender.rs downloaded, receiver.rs
\* accept_decision).
CompletedMeansSaved ==
    \A t \in Transfers : sender[t] = "completed" => t \in saved /\ decision[t] = "accept"

\* When run_sender returns Ok(Declined), no user accepted the offer and the
\* handler can no longer fetch anything for it.
DeclinedMeansNotTaken ==
    \A t \in Transfers :
      sender[t] = "declined" => /\ decision[t] \in {"decline", "dropped"}
                                /\ handler[t] \in {"closing_err"} \cup Over
                                /\ t \notin saved

\* When the sender is told that the download failed, the file was not saved
\* and will not be: a Failed status is never the report of a later or an
\* earlier success.
FailedMeansNotSaved ==
    \A t \in Transfers :
      sender[t] = "download_failed" => /\ t \notin saved
                                       /\ handler[t] \in {"closing_err"} \cup Over

\* When accept returns Ok - it regards the transfer as done - and the network
\* held, the sender has read the Completed status, unless it gave up before:
\* waiting for the decision while the acceptance was on its way, or during the
\* download because its own window was closed.  This is what waiting for connection.closed() before returning is for: dropping the
\* connection earlier would race with the unread status.
OkMeansReported ==
    \A t \in Transfers :
      handler[t] = "ok" => t \in lost \/ sender[t] \in {"completed", "timed_out", "unwatched"}

\* The sender never reads a byte it does not expect: what is first on the
\* stream is a decision as long as it waits for one, and a download status
\* afterwards, although both enumerations travel on one untyped stream.
NeverMisparsed ==
    \A t \in Transfers :
      stream[t] # <<>> =>
        /\ sender[t] = "awaiting" => Head(stream[t]) \in {Declined, Accepted}
        /\ sender[t] = "downloading" => Head(stream[t]) \in {Progress, Completed, Failed}

\* Every handler that waits for an answer can still get one: its offer is
\* queued or shown, exactly once, and no offer is queued or shown whose
\* handler does not wait.  A handler without an offer would wait for ever.
NoOfferLost ==
    /\ \A t \in Transfers :
         (handler[t] = "deciding" /\ decision[t] = "none") <=> (pending = t \/ InQueue(t))
    /\ \A i, j \in 1 .. Len(queue) : queue[i] = queue[j] => i = j
    /\ \A i \in 1 .. Len(queue) : queue[i] # pending

\* A file that was at the target before the transfers is never overwritten
\* (the try_exists check in download).
UserFilesSurvive ==
    [][\A p \in Paths : disk[p] = "user" => disk'[p] = "user"]_vars

\* No file at all is overwritten, whoever put it there: what download says
\* when it refuses a target that already exists.
NothingOverwritten ==
    [][\A p \in Paths : disk[p] # "absent" => disk'[p] = disk[p]]_vars

\* An offer that timed out unanswered is over: it is not accepted later.
TimedOutOfferNotAccepted ==
    [][\A t \in Transfers :
         decision[t] = "none" /\ decision'[t] = "accept" => sender[t] # "timed_out"]_vars

\* As long as the user answers what is shown, the handlers that wait for
\* room in the queue all go on (each of them waits once): none is passed
\* over for ever behind offers whose senders have given up.
QueuedHandlersGoOn ==
    []<>(pending = NoTransfer) => []<>(\A t \in Transfers : handler[t] # "queueing")

\* A started run_sender returns, whatever the receiving user does.
SendReturns ==
    \A t \in Transfers : sender[t] = "imported" ~> sender[t] \in Returned

\* Once its offer is answered, or the front end is gone, a handler ends:
\* nobody waits for the other end of the connection for ever.
AnsweredHandlerEnds ==
    \A t \in Transfers : decision[t] # "none" ~> handler[t] \in Over

-----------------------------------------------------------------------------
(* Refinement: the protocol keeps the contract between the two users.      *)

Consent(d) ==
    CASE d = "none" -> "open"
      [] d = "accept" -> "given"
      [] OTHER -> "refused"

Verdict(s) ==
    CASE s = "completed" -> "kept"
      [] s = "declined" -> "refused"
      [] s = "download_failed" -> "not_kept"
      [] s \in {"timed_out", "unwatched", "error"} -> "unknown"
      [] OTHER -> "none"

Contract == INSTANCE TransferContract WITH
    consent <- [t \in Transfers |-> Consent(decision[t])],
    kept <- saved,
    verdict <- [t \in Transfers |-> Verdict(sender[t])]

\* Whatever is lost, late or aborted, consent comes first, it is asked once,
\* and the sender is never told something false about the file.
KeepsContract == Contract!Spec

-----------------------------------------------------------------------------
(* Refinement: the front end of the protocol is that of the window and of  *)
(* the terminal.                                                           *)

FrontEndOf == INSTANCE FrontEnd WITH
    Offers <- Transfers,
    Cap <- QueueCap,
    None <- NoTransfer,
    shown <- pending,
    answer <- decision,
    open <- front

\* The handlers use the front end as they may: each queues its offer once,
\* and nothing but the front end's answer reaches it.
UsesFrontEnd == FrontEndOf!Spec
=============================================================================
