# Verification of Iroh Share

TLA+ models of Iroh Share (a file transfer program in Rust: a desktop window and
a terminal front end over the iroh library), the TLC configurations that check
them, and TLAPS proofs of their safety properties. Source paths below are
relative to `src/src/` of the repository checkout.

## 1. The system

| Component | State it keeps | Operations | Talks to |
| --- | --- | --- | --- |
| Sender, `sender.rs` | none beyond the running call | `run_sender`: import and hash the file, connect, write the offer, wait 60 s for the decision, then read download statuses until Completed or Failed | receiver over one bidirectional stream; front end through its result and a progress watch channel |
| Receiver, `receiver.rs` | one `accept` task per connection | read and check the offer, queue it with a one-shot answer channel, wait for the answer, decline, or download, export and report | sender (status bytes), front end (`mpsc` of offers, progress watch channel shared by all downloads), disk |
| Encoding, `protocol.rs` | none | write and read offers, decisions (0, 1), download statuses (2, 3, 4) | sender, receiver |
| Desktop window, `ui.rs` | selected device, send status, pending offer, receive panel, ticket input, list of devices | one frame: four `refresh_*` polls, widgets, dropped files | all of the above through channels, `run_sender` as a spawned task |
| Terminal, `cli.rs`, `main.rs` | none | parse arguments, `select_receiver`, the receive loop with `confirm` | sender, receiver, discovery |
| Discovery, `mdns.rs` | map of announced devices | on every event update the map and publish the list; stop when the events end | window and terminal through a watch channel |
| Runtime, `main.rs` | endpoint, store, router | `start_iroh`, shutdown of the router after the front end | everything |

What is hard here:

* the sender's time limit, the user's answer, the transfer and the loss of the
  connection race with each other, and each side can only see its own end;
* the last status byte must reach the sender although both sides want to drop
  the connection (`connection.closed().await` in `receiver.rs`);
* offers wait in a bounded queue, one is shown, and their senders may be gone;
* the existence test of the target and the export are a whole download apart;
* offers come in whatever the program was started for, from the moment its
  router runs, and must get an answer or be dropped however it ends;
* offers and statuses are bytes on a stream without record boundaries, and they
  arrive in pieces;
* the window is one thread that polls channels with last-value semantics; sends
  run on while the user navigates, devices come and go, and all downloads write
  to one progress channel.

`PROJECT.json` lists these one by one (`hazards`), with the line and the
properties that cover each.

What makes each component correct:

* *Sender and receiver together*: a verdict is never wrong; nothing is fetched
  without consent; existing files survive; nobody waits for ever.
* *Window, sending*: one send at a time; the outcome and the bytes on the screen
  belong to it; it settles on the screen.
* *Window, receiving*: the panel is about its own file, says "received" of files
  that are there, and closes.
* *Front end, window or terminal*: offers are shown one at a time in the order of
  their arrival, each is answered once, and those left are dropped at the end.
* *Terminal*: the file goes to a device of the printed list; the search, the loop
  and the program end; without input nothing is accepted.
* *Encoding*: what is read is what was written, however it is cut up.
* *Discovery*: the window's list is the published one, or an unread one waits.

## 2. The modules

| Module | Models |
| --- | --- |
| `TransferContract.tla` | abstract: consent, kept files and verdicts, without connections, tasks or bytes |
| `OfferProtocol.tla` | `run_sender`, `OfferProtocol::accept`, the front end's answers, the router's shutdown and the network |
| `FrontEnd.tla` | abstract: the queue of offers, the one that is shown, its answer, the end of the front end |
| `Wire.tla` | the bytes of one transfer: `Offer`, `DecisionStatus`, `DownloadStatus` in `protocol.rs` |
| `Discovery.tla` | the discovery task and its watch channel |
| `App.tla` | the desktop window, with the tasks it talks to reduced to what they put into its channels; extends `Discovery` |
| `Terminal.tla` | `main` from the command line to the exit, with `parse_arguments`, `select_receiver` and `confirm`; extends `Discovery` |
| `MCOfferProtocol.tla`, `MCApp.tla`, `MCTerminal.tla`, `MCWire.tla` | values of the constants for TLC |
| `OfferProtocolProofs.tla` | theorems about `OfferProtocol`: types, held offers, verdicts |
| `OfferProtocolStreamProofs.tla` | extends it: the order of the bytes, the end of the connection, the disk |
| `OfferProtocolRefinement.tla` | extends it: `OfferProtocol` implements `TransferContract` and `FrontEnd` |
| `AppProofs.tla` | theorems about `App` |
| `TerminalProofs.tla` | theorems about `Terminal` |
| `WireProofs.tla` | theorems about `Wire` |
| `QueueLemmas.tla` | lemmas about a queue without duplicates, for the proofs about offers |
| `NatRecursion.tla` | lemmas about recursion on the natural numbers, for the proofs about encodings |

How they fit together. `OfferProtocol` is the middle: two processes, the stream
between them and the user's answers. It takes three things for granted, and each
has a module that shows it: that offers and statuses can be read as units
(`Wire`), that a front end takes, shows, answers and drops offers as its actions
`TakeOffer`, `Decide` and `CloseFront` say (`FrontEnd`, implemented by
`OfferProtocol` itself, by `App` and by `Terminal`), and that `run_sender` and
the handler are all a front end sees of a transfer (`App`, whose fairness is what
`protocol_liveness` establishes).

### OfferProtocol

A transfer is one call of `run_sender` together with the connection and the
handler it leads to. `sender[t]` and `handler[t]` are program counters; a step
is the code between two awaits. The correspondence, action by action:

| Action | Code |
| --- | --- |
| `ImportFile`, `SendOffer` | `run_sender`, up to `offer.write_to` |
| `ReadDecision`, `DecisionTimeout` | `timeout(60 s, transfer_decision)` and the match on it |
| `ReadStatus` | one turn of the loop in `downloaded` |
| `SenderSeesClose` | a read that fails |
| `ReadOffer`, `EnqueueOffer`, `TakeDecision` | `accept` |
| `WriteDeclined` | `decline_decision` |
| `WriteAccepted`, `WriteCompleted`, `WriteFailed`, `AwaitClosed` | `accept_decision` |
| `CheckTarget`, `FetchProgress`, `FetchEnds`, `Export` | `download`, `send_progress` |
| `TakeOffer`, `Decide` | `refresh_offers`, `show_pending_offers`; in the terminal `offer_rx.recv` and `confirm` |
| `CloseFront`, `ShutdownRouter` | the end of the window or receive loop, then `router.shutdown()` |
| `LoseConnection`, `ReceiverSeesClose` | the transport (external) |

The stream is a sequence of status bytes. Writes of a handler succeed until its
endpoint has noticed the end of the connection (`cut`), whether or not the bytes
arrive; reads of the sender fail once the handler has dropped its end or the
network is gone, and unread bytes may be lost with it. A failed export may
leave a partial file. A process that disappears is a lost connection. The
sender's own window may be closed during a send; until its process ends, the next
progress then has no receiver (`progress_tx.send(bytes)?`, "unwatched" in the
model). Names stand for whole offers: a name in `Rejected` is an offer that
`Offer::read_from` or the ticket check refuses.

The existence test may fail to establish anything (`try_exists()?`), so
`CheckTarget` may refuse any target. `decision[t] = "dropped"` is a one-shot
channel closed without an answer.

### App

`phase` walks through a frame: `Refresh` is the four refresh functions in one
step (they touch different fields), then at most one click, then at most one
dropped file. A click needs its widget to be on the screen: a modal dialog
covers everything else, the receive panel takes the place of the transfer panel
and of the device list. A dropped file needs none of that, only a selected
device and no running send (`collect_dropped_files`). Tasks run between the
steps of the UI thread, which is also what happens while a native file dialog
blocks it.

Egui decides about a click with the widgets of the frame before; the model uses
those of the current frame, which differs only in the one frame in which a
dialog appears, and then allows what clicking one frame earlier would do.

Closing the window is one step between two frames: the `App` is dropped with its
end of every channel, so that offers that wait are refused and tasks that still
run find nobody to report to. The process ends soon afterwards (`Terminal`).

When the discovery task has stopped, `has_changed` reports an error, which the
window takes for "nothing new"; a last list that was not read is never shown.

`recipient`, `shownSend`, `panel.from` and `panel.rivals` are history that the
program does not keep; properties use them, no guard does.

### Terminal

`at` is where the one task of `main` waits; every action is the code up to the
next await.

| Action | Code |
| --- | --- |
| `ParseArguments` | `parse_arguments`, and the early return for help and version |
| `BindEndpoint`, `Announce` | `start_iroh` up to the router, and from the device name on; each may fail, the second with the router running |
| `Search`, `PrintList`, `Choose` | `select_receiver` |
| `InterruptLoop`, `ShowOffer` | the two branches of the `select!` |
| `Confirm` | `confirm`, and the answer sent to the handler |
| `CommandReturns` | `run_sender` or `ui::run` returns |
| `End` (in several of them) | the `async` block ends and drops the `Runtime` |
| `Shutdown` | `router.shutdown()` and the two `?` after it |
| `CtrlC`, `TypeLine`, `EndInput`, `OfferArrives`, `DeviceEvent` | what happens around `main` |

Command lines are all sequences of up to four words, among them the commands, a
ticket and a file. Ctrl-C kills the process, except that `tokio::signal` replaces
the default from the first turn of the receive loop on; from then on it is
noticed only by a future that is being awaited, and lost otherwise.

Each prompt makes a buffered reader for one line and drops it; what else it has
got is lost. From a terminal it gets one line at a time, from a pipe any number;
`ReadLine` allows both. A line without its end at the end of the input counts as
a line. Devices are followed only for `send` without a ticket, the one command
that reads the list; the window's reading of it is in `App`.

`recv` returning `None` (`main.rs:118`) does not happen: the router holds the
sending half of the queue until the loop has ended.

### Wire

One `Offer` up, one decision and some statuses down. The writer may stop after
any byte (`write_to` fails or is dropped), bytes arrive in any pieces, and a
`read_*` call waits for all it asks for. The constants are the widths and limits
of the format, so that a small instance has the same cases: a byte of five
values, lengths of one byte, sizes of two. `Shifted(n, k)` is `n` without its last
`k` bytes, from which `Word` takes the bytes of a number and `Fits` whether it
has too many of them. A length that does not fit its field is refused by the
writer (`try_into`), one over `NameMax` by the reader; between the two lie names
that are sent and refused. The ticket has no length: it goes
up to the end of the stream, which is safe as long as no ticket is a proper
prefix of another one (`TicketsAssumption`; a blob ticket is base32 of a
fixed layout).

### What checks what

`KeepsContract` states that `OfferProtocol` implements `TransferContract`:
`consent` is the state of the one-shot answer, `kept` the exported files,
`verdict` what `run_sender` returned, where a time-out and any other error are
"unknown". In particular: the answer is given once, before anything is kept, and
after "not kept" nothing is kept.

`UsesFrontEnd` in `OfferProtocol`, `IsFrontEnd` in `App` and `IsFrontEnd` in
`Terminal` state that each implements `FrontEnd`: in the protocol as what its
handlers rely on, in the other two as what they do. An offer held when the front
end closes is dropped there, in the same step.

## 3. Runs

All run with deadlock checking: the protocol can stop only in `Finished`, where
every call has returned and the router is down, the window only when it is
closed, the program when it has exited, and a transfer on the wire when the
sender has read its last status.

| Run | Instance | Shows |
| --- | --- | --- |
| `protocol_safety` | 2 transfers (symmetric), 2 names one of which is refused, 1 directory, queue of 1, 2 progress bytes in flight; 622 958 states | types, true verdicts, `OkMeansReported`, `NeverMisparsed`, `NoOfferLost`, `UserFilesSurvive`, `KeepsContract`, `UsesFrontEnd` |
| `protocol_liveness` | 2 transfers, 1 name, queue of 1, 1 progress byte in flight, fairness, no symmetry; 403 299 states | `SendReturns`, `AnsweredHandlerEnds`, `QueuedHandlersGoOn` |
| `window_frames` | 1 nearby and 1 ticket device, 1 offer of 1 byte, 2 sends; 692 550 states | the sending side and the frame discipline of the window |
| `window_receive` | 2 offers, of 2 bytes and of 1 byte for a blob of 2, queue of 1; 233 486 states | the receive panel with concurrent downloads, `IsFrontEnd` |
| `terminal_program` | 2 devices, 2 offers, queue of 1, 2 lines typed ahead out of y, 0, 1, 2 and one that is not UTF-8; 98 704 states | `EndsOrderly`, `RecipientWasListed`, `IsFrontEnd`, `SearchEnds`, `InterruptEndsLoop`, `NoInputDeclines` |
| `wire` | 30 offers (5 names, 3 sizes, 2 tickets), up to 4 statuses; 73 194 states | `OfferIsIntact`, `OnlyLongNamesRefused`, `StatusesInStep` |
| `overwrite`, `late_answer`, `ticket_selection`, `recipient_shown`, `received_shown`, `panel_stuck` | the smallest instance that shows it | a disagreement between the code and what it or its documentation says |

Why these bounds are enough for what the runs ask. Two transfers give every
pairwise interaction: a full queue with a handler waiting for room (capacity 1
instead of 10, which with two transfers could never fill), an offer shown while
another is queued, two downloads towards one path. Transfers interact in no
other way, so a third adds only more of the same pairs. `Window` bounds the
progress bytes that are in flight; two of them tell "first", "later" and "last"
byte apart. In the window two sends suffice for results and progress of an
earlier send to be taken for those of a later one, two downloads for the shared
channel, sizes up to two bytes for "none, some, all, more than stated".
In the terminal two devices are what it takes to confuse one with another, two
offers fill the queue behind the one that is shown, and two lines are one that
is read and one that is lost with its reader; the lines are one of each kind a
prompt tells apart, with a number that is below, in and above a list of one. On
the wire the names are empty, short, of the greatest length, one byte longer,
and too long for the length field, and their bytes, like those of the counts, take
the values of status tags.
The liveness of the protocol is checked on a smaller instance, because temporal
checking is slow: no name is refused, and one progress byte in flight is the
latest one. A refused name ends the handler with an error at its first step, which
a sender sees as it does a handler that is aborted. A handler finds the
queue full when the other one's offer is in it. That it goes on then is
`QueuedHandlersGoOn`. The condition that the user answers matters from three
transfers on, when a handler waits behind an offer that is queued behind one on
the screen, and may rightly wait as long as the user does; three are too many for
temporal checking.

Each property of a passing run has a mutant: a plausible bug in one definition
(marked "Mutant" beside it) under which TLC finds the property violated.

### What the violation runs found

* `overwrite`: two accepted offers of one name both pass `try_exists`, then both
  export; the second replaces the first file. Files that were there before are
  safe (`UserFilesSurvive`), as far as only transfers write to the directory.
* `late_answer`: the 60 second limit is the sender's only. The receiver can
  accept a dead offer, download from a sender that has already reported a
  failure, and save the file (the contract's "unknown" verdict covers it).
* `ticket_selection`: any discovery event deselects a ticket device that is not
  on the local network. The run has no sends, so that this happens before a file
  was chosen; that closing the window deselects it too is not counted.
* `recipient_shown`: after the recipient expired, another device can be selected
  and is named above the running send.
* `received_shown`: "File received" appears before the export, which may fail.
* `panel_stuck`: the panel of a failed download stays for ever and hides the
  device list and the file picker.

## 4. Fairness

`OfferProtocol!FairSpec`: weak fairness of each sender and each handler (tokio
runs tasks that are ready; the 60 second timer fires), of the end of a download,
of the transport noticing a dead connection (close frame or idle time-out), of
the front end taking the next offer (the window repaints at least every 250 ms)
and of the router's shutdown after the front end. Nothing is assumed of users:
no file need be sent, no offer answered, no window closed. The end of a download
(`FetchEnds`) is what iroh-blobs owes; without it `SendReturns` would be false,
since `downloaded` has no time limit.

`Terminal!FairSpec`: weak fairness of the steps of `main`, which is one sequential
task: what it awaits arrives, the two seconds pass, `run_sender` returns
(`SendReturns`) and the window is closed some day. Users at the keyboard,
senders and devices owe nothing, so that a prompt may wait for ever.

`App!FairSpec`: weak fairness of the UI thread as a whole (not of any click), of
`run_sender` returning (which is `SendReturns` above), of the handler going on
after the export, and of the two second delay. Downloads need not end.

## 5. Proofs

Every invariant, action property and refinement of the passing runs is also a
theorem, for all values of the constants that satisfy the named assumptions of
the module: any number of transfers, offers, devices and sends, any capacity of
the queue, names and numbers of any width. Liveness is model-checked only.

| Property | Theorem |
| --- | --- |
| `OfferProtocol`: `TypeOK`, `NoOfferLost`, `CompletedMeansSaved`, `DeclinedMeansNotTaken`, `FailedMeansNotSaved` | `OfferProtocolProofs`: `Typing`, `OffersAreHeld`, `VerdictsAreTrue` |
| `NeverMisparsed`, `OkMeansReported`, `UserFilesSurvive` | `OfferProtocolStreamProofs`: `StreamIsParsed`, `OkIsReported`, `UserFilesAreKept` |
| `KeepsContract`, `UsesFrontEnd` | `OfferProtocolRefinement`: `ContractIsKept`, `FrontEndIsUsed` |
| `App`: `TypeOK`, `SendingHasOneSender`, `ShownOutcomeIsCurrent`, `ProgressIsCurrent`, `PeersFollowDiscovery`, `NoStaleProgress`, `IsFrontEnd` | `AppProofs`: `Typing`, `OneSendAtATime`, `SendIsShownAsItIs`, `ListIsFollowed`, `ProgressIsNotStale`, `WindowIsFrontEnd` |
| `Terminal`: `TypeOK`, `EndsOrderly`, `RecipientWasListed`, `IsFrontEnd` | `TerminalProofs`: `Typing`, `ProgramEndsOrderly`, `RecipientIsListed`, `TerminalIsFrontEnd` |
| `Wire`: `TypeOK`, `OfferIsIntact`, `OnlyLongNamesRefused`, `StatusesInStep` | `WireProofs`: `Typing`, `OfferArrivesIntact`, `RefusalIsJustified`, `StatusesArriveInStep` |

None of them but some of the types is inductive. What follows is what each needs
besides.

### OfferProtocol

Assumed: a positive capacity, and that `NoTransfer` is not a transfer.

*Verdicts.* A Completed byte that is still on the stream will become a verdict,
and it takes the handler's history to know that the file was saved before the
byte was written. `IInv` adds

* `StartInv`: no handler before its sender has sent the offer;
* `AnswerInv`: which answers go with which states of the handler;
* `FrontInv`: the front end that is gone holds no offer;
* `SavedInv`: a handler that is past the export has saved the file, a saved file
  means such a handler and an acceptance;
* `StreamInv`: what each byte on its way means;
* `NoOfferLost` itself, because an answer may only go to a handler that waits
  for it - otherwise it would change an answer already acted upon.

The step is proved in three parts. `OffersKept` handles the queue, by the lemmas
of `QueueLemmas` about appending to it and taking from it. `StepSettles` says
what no step undoes, `StepCauses` what the reason of each new byte, save and
verdict is, both with one case per action. `Inductive` combines them without
looking at the actions again.

*The stream.* That the first byte can be read says nothing of the one that is
first after the read. `OrderInv` says what lies behind it, and ties the stream to
the handler: empty until the decision is written, and not empty from then on
until the sender has read the decision, while the network holds. `OkIsReported`
rests on it too: a handler that sees the connection end while the sender still
reads would have to have cut it. `CutInv` and `ErrorInv` say that it has not: an
endpoint notices an end only when there was one, and `run_sender` fails without a
verdict only when the network failed or the handler is over.

*The disk.* The test of the target and the export are different steps, with other
handlers' exports in between. `TargetInv`: there is no file of the user at a
target that has passed the test, and none gets there, since what the program
writes is not one. That the code replaces files of *other transfers* is the
finding `overwrite`; no theorem says otherwise.

*Refinement.* Most steps are invisible to the contract. For the others: an answer
is `Accept` or `Refuse`, the end of the front end one `Refuse` of all held offers,
an export `Keep`, a return of `run_sender` `Report`. `Report` needs its evidence in
the state it is made in, which is what `IInv` gives, with `FailInv`: a Failed
status was preceded by an acceptance.

### App

Assumed: the assumptions named in `App` and `Discovery`.

*Sends.* The counts of `SendingHasOneSender` do not say which send it is whose task
or result is there. `SendInv` has the three ways the window can be in between two
sends: the task of the latest one runs, its result waits, or there is neither and
the window does not say "sending". The outcome and the progress on the screen
follow from it.

*The panel.* `PanelInv`: every download that may still write progress is the
panel's own or was running when the panel was opened, and so is the one whose
progress is unread. A later download cannot have been accepted without opening a
panel of its own.

*Front end.* `HeldInv`: a handler waits for an answer exactly while its offer is in
the queue or on the screen, once.

### Terminal

Assumed: the assumptions named in `Terminal` and `Discovery`.

`EndsOrderly` is about the last state, the reasons lie in the steps before.
`PlaceInv` ties what matters to the place `main` is at: the command it has parsed
(`CommandInv`), the router (`RouterInv`), the offers held (`HoldInv`: none before
the router runs nor after the command has ended, one on the screen exactly while
`confirm` asks) and the device (`SelectInv`: none until one is chosen). The type of
the printed list needs that only finitely many devices are in view.

### Wire

Assumed: a byte has more than four values, fields have a positive width, sizes and
counts fit their fields, and no ticket is a proper prefix of another one.

*Numbers.* `RoundTrip`: a number that fits its field is read back as it was
written. `Word` and `Value` are recursive functions, and the library's induction
theorems, which take an operator as parameter, are out of the provers' reach.
`NatRecursion` therefore restates induction with sets instead of operators and
proves from it that a function defined by recursion on the natural numbers exists
and obeys its equation (`Recurs`).

*The offer.* `OfferInv`: the bytes that have not been read are those of the
encoding from the next field on up to the last one written (`Unread`), and the
fields that have been read are those of the offer. A ticket has no length; that a
part of it is not taken for the whole needs that no other ticket is a prefix.

*Statuses.* `StatusInv`: the bytes on their way and those still to be sent, with the
tag of a progress whose count is read next, are the encodings of exactly the
statuses after those that have been read (`Holds`: there are places at which each
one ends). So the next byte to be interpreted as a tag is a tag. `InSequence`, the
order in which the handler writes, is what makes it a tag that is expected, and
makes the last one read the last one written.

### Not proved

* Liveness (`SendReturns`, `AnsweredHandlerEnds`, `QueuedHandlersGoOn`, `SendPanelSettles`,
  `FinishedPanelCloses`, `SearchEnds`, `InterruptEndsLoop`, `NoInputDeclines`): it
  needs fairness and `ENABLED`, which the provers do not handle. TLC checks it.
* That the mutants and the violated properties are violated: TLC's part.
* That `Wire` is what `OfferProtocol` takes for granted of its stream. The two meet
  in what is proved about `Wire`; there is no refinement mapping between them.

## 6. Not modelled

* painting, text and layout of the window and of the terminal's list, and the
  examples;
* the inside of iroh, iroh-blobs, egui and mDNS: they are the environment;
* the text encodings of names and tickets beyond what their length and
  their bytes decide; `write_to` takes both from strings, so that they are UTF-8;
* names and addresses of devices; a selected device keeps the address it had
  when it was selected, which matters only to the transport;
* the file picker's and the drop area's own display (`picked_path`,
  `dropped_files`), which lasts for one frame;
* imported blobs, which stay in the memory store until the process ends.

Two things the models show of the terminal that no property forbids, since the
repository does not say otherwise. A "y" typed before an offer is shown answers
it: `confirm` reads the next line, whenever it was typed. And `select_receiver`
prints what is in view two seconds after its wait, which may be nothing; every
choice then ends the command with an error.

## 7. Plan

Done: all modules and runs of sections 2 and 3, the disagreements above, and the
proofs of section 5: every safety property and every refinement of the passing
runs.

Left:

1. The safety half of `NoInputDeclines`: once the input has ended, no step
   accepts an offer.
2. An abstract specification of a stream of statuses, implemented by `Wire` and
   used by `OfferProtocol`, to replace the argument by inspection between the two.
3. Two windows or programs that send to each other at the same time.
