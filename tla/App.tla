---------------------------------- MODULE App ----------------------------------
(***************************************************************************)
(* The desktop window (src/src/ui.rs): one UI thread draws frames and in   *)
(* each of them                                                            *)
(*   - polls the channels that discovery, incoming offers, the running     *)
(*     send and the running downloads write to (Refresh);                  *)
(*   - handles at most one click (or none);                                *)
(*   - handles at most one dropped file (or none).                         *)
(* The tasks on the other side of the channels run in between.  run_sender *)
(* is reduced to a task that reports progress and returns an outcome, the  *)
(* receiving handler to a download that reports progress and may fail.     *)
(***************************************************************************)
EXTENDS Discovery, Naturals, Sequences, FiniteSets

CONSTANTS
    Tickets,       \* devices whose endpoint ticket the user can paste
    Offers,        \* offers that may come in
    OfferSize,     \* OfferSize[o]: the size the offer states
    BlobSize,      \* BlobSize[o]: the bytes the download really has
    QueueCap,      \* capacity of the queue of offers (10 in start_iroh)
    MaxSends,      \* bound: number of sends
    NoId,          \* "no device"
    NoOffer        \* "no offer"

ASSUME BoundsAssumption == MaxSends \in Nat /\ QueueCap \in Nat \ {0}
ASSUME SizeAssumption == OfferSize \in [Offers -> Nat] /\ BlobSize \in [Offers -> Nat]
ASSUME NoIdAssumption == NoId \notin Peers \cup Tickets
ASSUME NoOfferAssumption == NoOffer \notin Offers

VARIABLES
    phase,         \* what the UI thread does next: "refresh", "click", "drop";
                   \* "closed" when the window is gone
    peers,         \* the window's copy of the nearby devices
    selected,      \* selected_peer: device and how it was selected
    ticket,        \* ticket_input and ticket_error
    status,        \* send_status
    sends,         \* number of sends started; send n is the n-th
    recipient,     \* the device the latest send goes to (history)
    running,       \* sends whose task runs
    results,       \* send_result channel
    shownSend,     \* the send whose outcome is shown (history)
    sendProgress,  \* the send whose bytes are in send_progress; 0 after a reset
    offers,        \* the queue of offers
    pending,       \* pending_offers
    panel,         \* receive_status
    progress,      \* the watch channel all downloads write to
    progressFresh, \* has_changed() of that channel
    download       \* download[o]: the handler of offer o

selectVars == <<peers, selected, ticket>>
sendVars == <<status, sends, recipient, running, results, shownSend, sendProgress>>
receiveVars == <<offers, pending, panel, progress, progressFresh, download>>
vars == <<discoveryVars, phase, selectVars, sendVars, receiveVars>>

NoPeer == [id |-> NoId, via |-> "none"]

Outcomes == {"completed", "declined", "failed"}

\* panel.state is completed_at: not set, set, and set two seconds ago;
\* panel.from is the download the bytes came from, and panel.rivals the
\* downloads that were running when the panel was opened (both history).
NoPanel == [offer |-> NoOffer, bytes |-> 0, state |-> "receiving",
            from |-> NoOffer, rivals |-> {}]

\* Downloads that may still write to the progress channel.
Active == {o \in Offers : download[o].state \in {"fetching", "exporting", "saved"}}

Init ==
    /\ DiscoveryInit /\ phase = "refresh" /\ peers = {} /\ selected = NoPeer
    /\ ticket = "closed" /\ status = "none" /\ sends = 0 /\ recipient = NoId
    /\ running = {} /\ results = <<>> /\ shownSend = 0 /\ sendProgress = 0
    /\ offers = <<>> /\ pending = NoOffer /\ panel = NoPanel
    /\ progress = [bytes |-> 0, from |-> NoOffer] /\ progressFresh = FALSE
    /\ download = [o \in Offers |-> [state |-> "none", bytes |-> 0]]

-----------------------------------------------------------------------------
(* Refresh: the four refresh functions at the start of a frame.            *)

\* Mutant: a device that has gone stays selected.
RefreshPeersKeeps ==
    IF nearbyFresh /\ discovering
    THEN peers' = nearby /\ nearbyFresh' = FALSE /\ UNCHANGED selected
    ELSE UNCHANGED <<peers, nearbyFresh, selected>>

\* A selected device that is not in the new list is deselected.  A closed
\* channel counts as unchanged, even if its last list was not seen.
RefreshPeers ==
    IF nearbyFresh /\ discovering
    THEN /\ peers' = nearby
         /\ nearbyFresh' = FALSE
         /\ selected' = IF selected.id \in nearby THEN selected ELSE NoPeer
    ELSE UNCHANGED <<peers, nearbyFresh, selected>>

\* Mutant: the next offer takes the place of the one that is shown.
RefreshOffersReplacing ==
    IF offers # <<>>
    THEN pending' = Head(offers) /\ offers' = Tail(offers)
    ELSE UNCHANGED <<pending, offers>>

RefreshOffers ==
    IF pending = NoOffer /\ offers # <<>>
    THEN pending' = Head(offers) /\ offers' = Tail(offers)
    ELSE UNCHANGED <<pending, offers>>

TakeResult ==
    /\ status' = Head(results).outcome
    /\ shownSend' = Head(results).send
    /\ results' = Tail(results)

\* Mutant: poll for the outcome only while the transfer is on the screen.
RefreshSendStatusShown ==
    IF results # <<>> /\ selected # NoPeer
    THEN TakeResult
    ELSE UNCHANGED <<status, shownSend, results>>

RefreshSendStatus ==
    IF results # <<>> THEN TakeResult ELSE UNCHANGED <<status, shownSend, results>>

\* The panel with the bytes of the progress channel.  It counts as received
\* when they reach the size in the offer, unless that is zero.
Updated ==
    LET total == OfferSize[panel.offer]
        reached == total > 0 /\ progress.bytes >= total
    IN  [panel EXCEPT !.bytes = progress.bytes,
                      !.from = progress.from,
                      !.state = IF @ = "receiving" /\ reached THEN "received" ELSE @]

RefreshReceiveStatus ==
    IF panel = NoPanel
    THEN UNCHANGED <<panel, progressFresh>>
    ELSE /\ progressFresh' = FALSE
         /\ panel' = IF panel.state = "expired" THEN NoPanel
                     ELSE IF progressFresh THEN Updated ELSE panel

Refresh ==
    /\ phase = "refresh"
    /\ phase' = "click"
    /\ RefreshPeers /\ RefreshOffers /\ RefreshSendStatus
    /\ RefreshReceiveStatus
    /\ UNCHANGED <<nearby, discovering, ticket, sends, recipient, running, sendProgress,
                   progress, download>>

-----------------------------------------------------------------------------
(* Clicks.  A modal dialog - the pending offer, the ticket input - keeps   *)
(* everything behind it from being clicked.  Below the header the window   *)
(* shows the receive panel, else the transfer or the file picker when a    *)
(* device is selected, else the nearby devices.                            *)

Click == phase = "click" /\ phase' = "drop"

Uncovered == pending = NoOffer /\ ticket = "closed"

Sending == status = "sending"

\* Mutant: the back button works during a send.
ClickBackAnytime ==
    /\ Click /\ Uncovered /\ selected # NoPeer
    /\ selected' = NoPeer
    /\ status' = "none"
    /\ UNCHANGED <<discoveryVars, peers, ticket, sends, recipient, running, results,
                   shownSend, sendProgress, receiveVars>>

\* show_header: back to the nearby devices.
ClickBack ==
    /\ Click /\ Uncovered /\ selected # NoPeer /\ ~Sending
    /\ selected' = NoPeer
    /\ status' = "none"
    /\ UNCHANGED <<discoveryVars, peers, ticket, sends, recipient, running, results,
                   shownSend, sendProgress, receiveVars>>

\* show_header: the ticket button.
UseTicket ==
    /\ Click /\ Uncovered /\ selected = NoPeer
    /\ ticket' = "open"
    /\ UNCHANGED <<discoveryVars, peers, selected, sendVars, receiveVars>>

\* show_ticket_modal: editing the text removes the error message.
EditTicket ==
    /\ Click /\ ticket = "error"
    /\ ticket' = "open"
    /\ UNCHANGED <<discoveryVars, peers, selected, sendVars, receiveVars>>

\* show_ticket_modal: Continue with a valid ticket, with an invalid one; Cancel.
ContinueWith(id) ==
    /\ Click /\ ticket = "open"
    /\ selected' = [id |-> id, via |-> "ticket"]
    /\ ticket' = "closed"
    /\ UNCHANGED <<discoveryVars, peers, sendVars, receiveVars>>

\* Mutant: a text that is no ticket is taken for one.
ContinueInvalidSelects ==
    /\ Click /\ ticket # "closed"
    /\ ticket' = "closed"
    /\ selected' = [id |-> NoId, via |-> "ticket"]
    /\ UNCHANGED <<discoveryVars, peers, sendVars, receiveVars>>

ContinueInvalid ==
    /\ Click /\ ticket # "closed"
    /\ ticket' = "error"
    /\ UNCHANGED <<discoveryVars, peers, selected, sendVars, receiveVars>>

CancelTicket ==
    /\ Click /\ ticket # "closed"
    /\ ticket' = "closed"
    /\ UNCHANGED <<discoveryVars, peers, selected, sendVars, receiveVars>>

\* show_peers.
SelectPeer(p) ==
    /\ Click /\ Uncovered /\ panel = NoPanel /\ selected = NoPeer
    /\ p \in peers
    /\ selected' = [id |-> p, via |-> "list"]
    /\ UNCHANGED <<discoveryVars, peers, ticket, sendVars, receiveVars>>

\* The task of a send is spawned, for the device selected now.
StartSend ==
    /\ selected # NoPeer /\ ~Sending /\ sends < MaxSends
    /\ sends' = sends + 1
    /\ recipient' = selected.id
    /\ running' = running \cup {sends + 1}
    /\ UNCHANGED <<results, shownSend>>

\* Mutants: the bytes of the previous send stay on the progress channel;
\* the send status is not set before the task is spawned.
SendFileNoReset == StartSend /\ status' = "sending" /\ UNCHANGED sendProgress
SendFileNoStatus == StartSend /\ sendProgress' = 0 /\ UNCHANGED status

\* send_file: reset the progress, then spawn the task.
SendFile == StartSend /\ sendProgress' = 0 /\ status' = "sending"

\* show_file_picker.
ChooseFile ==
    /\ Click /\ Uncovered /\ panel = NoPanel /\ selected # NoPeer
    /\ status = "none" /\ SendFile
    /\ UNCHANGED <<discoveryVars, selectVars, receiveVars>>

\* show_transfer: "Send another file" and its variants.
ClickReset ==
    /\ Click /\ Uncovered /\ panel = NoPanel /\ selected # NoPeer
    /\ status \in Outcomes
    /\ status' = "none"
    /\ sendProgress' = 0
    /\ UNCHANGED <<discoveryVars, selectVars, sends, recipient, running, results,
                   shownSend, receiveVars>>

\* show_pending_offers: accept, once a folder is chosen.  The panel is
\* opened, in place of one that may still be there, before the handler is told.
OpenPanel ==
    /\ Click /\ pending # NoOffer
    /\ pending' = NoOffer
    /\ panel' = [NoPanel EXCEPT !.offer = pending, !.rivals = Active]
    /\ download' = [download EXCEPT ![pending].state = "fetching"]
    /\ UNCHANGED <<discoveryVars, selectVars, sendVars, offers, progress>>

\* Mutant: progress that was already there is not marked as seen.
AcceptOfferStale == OpenPanel /\ UNCHANGED progressFresh

AcceptOffer == OpenPanel /\ progressFresh' = FALSE

DeclineOffer ==
    /\ Click /\ pending # NoOffer
    /\ pending' = NoOffer
    /\ download' = [download EXCEPT ![pending].state = "declined"]
    /\ UNCHANGED <<discoveryVars, selectVars, sendVars, offers, panel, progress, progressFresh>>

NoClick ==
    /\ Click
    /\ UNCHANGED <<discoveryVars, selectVars, sendVars, receiveVars>>

\* collect_dropped_files: at the end of a frame, whatever covers the window.
DropFile ==
    /\ phase = "drop"
    /\ phase' = "refresh"
    /\ selected # NoPeer /\ ~Sending /\ SendFile
    /\ UNCHANGED <<discoveryVars, selectVars, receiveVars>>

NoDrop ==
    /\ phase = "drop"
    /\ phase' = "refresh"
    /\ UNCHANGED <<discoveryVars, selectVars, sendVars, receiveVars>>

InQueue(o) == \E i \in 1 .. Len(offers) : offers[i] = o

\* The window is closed between two frames and its App is dropped, with the
\* receiving half of the queue and the answers it owes.
CloseWindow ==
    /\ phase = "refresh"
    /\ phase' = "closed"
    /\ selected' = NoPeer
    /\ ticket' = "closed"
    /\ status' = "none"
    /\ results' = <<>>
    /\ offers' = <<>>
    /\ pending' = NoOffer
    /\ panel' = NoPanel
    /\ download' = [o \in Offers |-> IF pending = o \/ InQueue(o)
                                     THEN [download[o] EXCEPT !.state = "dropped"]
                                     ELSE download[o]]
    /\ UNCHANGED <<discoveryVars, peers, sends, recipient, running, shownSend, sendProgress,
                   progress, progressFresh>>

UiStep ==
    \/ Refresh \/ ClickBack \/ UseTicket \/ EditTicket
    \/ \E id \in Tickets : ContinueWith(id)
    \/ ContinueInvalid \/ CancelTicket
    \/ \E p \in Peers : SelectPeer(p)
    \/ ChooseFile \/ ClickReset \/ AcceptOffer \/ DeclineOffer \/ NoClick
    \/ DropFile \/ NoDrop

-----------------------------------------------------------------------------
(* The tasks on the other side of the channels.  Once the window is gone,  *)
(* and until main ends the process, they find their channels closed: a     *)
(* send or a download that has progress to report fails.                   *)

Open == phase # "closed"

PeerEvent ==
    /\ Open
    /\ (\E p \in Peers : Discovered(p) \/ Expired(p)) \/ DiscoveryStops
    /\ UNCHANGED <<phase, selectVars, sendVars, receiveVars>>

\* run_sender passes on a progress status.
SendProgresses(n) ==
    /\ Open /\ n \in running
    /\ sendProgress' = n
    /\ UNCHANGED <<discoveryVars, phase, selectVars, status, sends, recipient, running,
                   results, shownSend, receiveVars>>

\* run_sender returns and its result is sent to the window.
SendReturns(n) ==
    /\ n \in running
    /\ running' = running \ {n}
    /\ IF Open
       THEN \E outcome \in Outcomes :
              results' = Append(results, [send |-> n, outcome |-> outcome])
       ELSE UNCHANGED results
    /\ UNCHANGED <<discoveryVars, phase, selectVars, status, sends, recipient, shownSend,
                   sendProgress, receiveVars>>

\* The handler of a new connection puts its offer in the queue.
OfferArrives(o) ==
    /\ Open /\ Len(offers) < QueueCap /\ download[o].state = "none"
    /\ download' = [download EXCEPT ![o].state = "offered"]
    /\ offers' = Append(offers, o)
    /\ UNCHANGED <<discoveryVars, phase, selectVars, sendVars, pending, panel, progress,
                   progressFresh>>

\* The channel all downloads share.
Report(n, o) == progress' = [bytes |-> n, from |-> o] /\ progressFresh' = TRUE

\* send_progress: the bytes so far go to the channel all downloads share.
Downloads(o) ==
    /\ Open /\ download[o].state = "fetching"
    /\ \E n \in download[o].bytes .. BlobSize[o] :
         download' = [download EXCEPT ![o].bytes = n] /\ Report(n, o)
    /\ UNCHANGED <<discoveryVars, phase, selectVars, sendVars, offers, pending, panel>>

\* The download or the export ends, or fails.
DownloadEnds(o) ==
    /\ \/ /\ download[o].state = "fetching"
          /\ \E s \in {"exporting", "failed"} : download' = [download EXCEPT ![o].state = s]
       \/ /\ download[o].state = "exporting"
          /\ \E s \in {"saved", "failed"} : download' = [download EXCEPT ![o].state = s]
    /\ UNCHANGED <<discoveryVars, phase, selectVars, sendVars, offers, pending, panel,
                   progress, progressFresh>>

\* The handler of a saved file goes on to report and end.
LeaveSaved(o) ==
    /\ download[o].state = "saved"
    /\ download' = [download EXCEPT ![o].state = "done"]
    /\ UNCHANGED <<discoveryVars, phase, selectVars, sendVars, offers, pending, panel>>

\* Mutant: the size is not reported after the export.
ReportSizeNot(o) == LeaveSaved(o) /\ UNCHANGED <<progress, progressFresh>>

\* download, after the export: the size in the offer goes to the channel.
ReportSize(o) == LeaveSaved(o) /\ Report(OfferSize[o], o)

\* Two seconds pass after the panel has said that the file was received.
PanelExpires ==
    /\ panel.state = "received"
    /\ panel' = [panel EXCEPT !.state = "expired"]
    /\ UNCHANGED <<discoveryVars, phase, selectVars, sendVars, offers, pending, progress,
                   progressFresh, download>>

Closed == phase = "closed" /\ UNCHANGED vars

Next ==
    \/ UiStep \/ PeerEvent
    \/ \E n \in 1 .. MaxSends : SendProgresses(n) \/ SendReturns(n)
    \/ \E o \in Offers :
         OfferArrives(o) \/ Downloads(o) \/ DownloadEnds(o) \/ ReportSize(o)
    \/ PanelExpires \/ CloseWindow \/ Closed

Spec == Init /\ [][Next]_vars

(***************************************************************************)
(* The window repaints at least every 250 ms, a run_sender returns (see    *)
(* SendReturns in OfferProtocol), a handler goes on after the export, time *)
(* passes.  Users, discovery and downloads owe nothing.                    *)
(***************************************************************************)
Fairness ==
    /\ WF_vars(UiStep)
    /\ \A n \in 1 .. MaxSends : WF_vars(SendReturns(n))
    /\ \A o \in Offers : WF_vars(ReportSize(o))
    /\ WF_vars(PanelExpires)

FairSpec == Spec /\ Fairness

-----------------------------------------------------------------------------
(* Properties.                                                             *)

SendNo == 1 .. MaxSends

\* The variables have their types.
TypeOK ==
    /\ DiscoveryTypeOK /\ phase \in {"refresh", "click", "drop", "closed"}
    /\ peers \subseteq Peers
    /\ selected \in {NoPeer} \cup [id : Peers \cup Tickets, via : {"list", "ticket"}]
    /\ ticket \in {"closed", "open", "error"}
    /\ status \in {"none", "sending"} \cup Outcomes
    /\ sends \in 0 .. MaxSends
    /\ recipient \in Peers \cup Tickets \cup {NoId}
    /\ running \subseteq SendNo
    /\ results \in Seq([send : SendNo, outcome : Outcomes])
    /\ shownSend \in 0 .. MaxSends /\ sendProgress \in 0 .. MaxSends
    /\ offers \in Seq(Offers) /\ Len(offers) <= QueueCap
    /\ pending \in Offers \cup {NoOffer}
    /\ panel \in [offer : Offers \cup {NoOffer}, bytes : Nat,
                  state : {"receiving", "received", "expired"},
                  from : Offers \cup {NoOffer}, rivals : SUBSET Offers]
    /\ progress \in [bytes : Nat, from : Offers \cup {NoOffer}]
    /\ progressFresh \in BOOLEAN
    /\ download \in [Offers -> [state : {"none", "offered", "declined", "dropped",
                                         "fetching", "exporting", "saved", "done", "failed"},
                                bytes : Nat]]

\* The window says "sending" exactly while one task runs or one result waits
\* to be read, and otherwise there is neither: no second send starts before
\* the first is settled, although a send survives the loss of the selected
\* device, and every send is settled (send_file, the back button and
\* collect_dropped_files).
SendingHasOneSender ==
    Open => Cardinality(running) + Len(results) = IF Sending THEN 1 ELSE 0

\* The outcome on the screen is the outcome of the latest send, and the
\* progress bar never shows the bytes of an earlier one.
ShownOutcomeIsCurrent == status \in Outcomes => shownSend = sends
ProgressIsCurrent == Sending => sendProgress \in {0, sends}

\* The window's copy of the device list lags behind only while there is an
\* unread list, and a device chosen from the list is still in that copy.
PeersFollowDiscovery ==
    /\ ~nearbyFresh => peers = nearby
    /\ selected.via = "list" => selected.id \in peers

\* The panel shows bytes of its own download, or of one that was already
\* running when it was opened; progress of a transfer that had ended by then
\* is never shown (borrow_and_update when an offer is accepted).
NoStaleProgress == panel.from \in {NoOffer, panel.offer} \cup panel.rivals

\* A send ends on the screen, also when the device has been deselected.
SendPanelSettles == Sending ~> ~Sending

\* The panel of a saved file goes away, unless the file is empty or another
\* download was running when the panel was opened.
FinishedPanelCloses ==
    \A o \in Offers :
      (/\ panel.offer = o
       /\ panel.rivals = {} /\ OfferSize[o] > 0
       /\ download[o].state \in {"saved", "done"}) ~> panel.offer # o

\* A device selected with a ticket stays selected until the user goes back
\* or closes the window, whatever discovery reports of it: "Use Ticket, then
\* choose or drop a file".
TicketSelectionStays ==
    [][selected.via = "ticket" /\ selected' # selected => ClickBack \/ CloseWindow]_vars

\* "Sending / To X": the device named above a running send is its recipient.
HeaderNamesRecipient == Sending /\ selected # NoPeer => selected.id = recipient

\* "File received" is shown for files that are on the disk.
ReceivedMeansSaved ==
    panel.state # "receiving" => download[panel.offer].state \in {"saved", "done"}

\* The panel of a download that has ended goes away, or the next one takes
\* its place; while it is there, neither the devices nor the file picker are.
EndedPanelCloses ==
    \A o \in Offers :
      (panel.offer = o /\ download[o].state \in {"done", "failed"}) ~> panel.offer # o

-----------------------------------------------------------------------------
(* Refinement: the window is a front end.                                  *)

Answer(state) ==
    CASE state \in {"none", "offered"} -> "none"
      [] state = "declined" -> "decline"
      [] state = "dropped" -> "dropped"
      [] OTHER -> "accept"

Front == INSTANCE FrontEnd WITH
    Cap <- QueueCap,
    None <- NoOffer,
    queue <- offers,
    shown <- pending,
    answer <- [o \in Offers |-> Answer(download[o].state)],
    open <- Open

\* Offers are shown one at a time in their order, answered once, and dropped
\* when the window is closed, whatever else the window does meanwhile.
IsFrontEnd == Front!Spec
=============================================================================
