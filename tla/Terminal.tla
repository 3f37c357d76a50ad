------------------------------- MODULE Terminal -------------------------------
(***************************************************************************)
(* The program from its command line to its exit: main (src/src/main.rs)   *)
(* with parse_arguments, select_receiver and confirm (src/src/cli.rs).     *)
(* main is one sequential task; what it awaits changes around it: standard *)
(* input, the discovered devices, the offers its router takes in whatever  *)
(* the command is, and Ctrl-C.  run_sender and the window are one step     *)
(* each; OfferProtocol and App are about them.                             *)
(***************************************************************************)
EXTENDS Discovery, Naturals, Sequences, FiniteSets, Functions

CONSTANTS
    Words,      \* command line arguments
    Tickets,    \* arguments that are endpoint tickets
    Remote,     \* the device these tickets lead to
    Lines,      \* lines that may be typed
    Yes,        \* lines that say y
    Garbled,    \* lines that are not UTF-8
    Number,     \* Number[l]: the number a line l says, if it says one
    TypeAhead,  \* bound: lines typed and not read
    Offers,     \* offers that may come in
    QueueCap,   \* capacity of the queue of offers (10 in start_iroh)
    NoId,       \* "no device"
    NoOffer     \* "no offer"

\* What a read returns at the end of the input.
BlankLine == ""

ASSUME LinesAssumption == Yes \cup Garbled \cup DOMAIN Number \subseteq Lines \ {BlankLine}
ASSUME NumberAssumption == \A l \in DOMAIN Number : Number[l] \in Nat
ASSUME BoundsAssumption == TypeAhead \in Nat /\ QueueCap \in Nat \ {0}
ASSUME NothingAssumption == NoId \notin Peers \cup {Remote} /\ NoOffer \notin Offers

VARIABLES
    at,         \* where main is
    command,    \* the parsed command
    result,     \* what the command, and then the process, returned
    router,     \* "off", "on", shut "down", or "dropped" with the process
    signal,     \* Ctrl-C has reached the future the loop awaits
    stdin,      \* lines typed and not read
    eof,        \* standard input has ended
    list,       \* the devices printed by select_receiver
    recipient,  \* the device given to run_sender
    queue,      \* offers in the channel
    shown,      \* the offer confirm asks about
    answer      \* answer[o]: what the handler of offer o was told

inputVars == <<stdin, eof>>
selectVars == <<list, recipient>>
offerVars == <<queue, shown, answer>>
mainVars == <<at, command, result, router, signal>>
vars == <<discoveryVars, mainVars, inputVars, selectVars, offerVars>>

Held(o) == shown = o \/ \E i \in 1 .. Len(queue) : queue[i] = o

Init ==
    /\ DiscoveryInit /\ at = "parse" /\ command = "none" /\ result = "none"
    /\ router = "off" /\ signal = FALSE /\ stdin = <<>> /\ eof = FALSE
    /\ list = <<>> /\ recipient = NoId /\ queue = <<>> /\ shown = NoOffer
    /\ answer = [o \in Offers |-> "none"]

-----------------------------------------------------------------------------
(* Start and end of the program.                                           *)

\* parse_arguments.
Command(args) ==
    CASE args = <<>> -> "ui"
      [] Len(args) = 2 /\ args[1] = "send" -> "send"
      [] Len(args) = 3 /\ args[1] = "send" /\ args[3] \in Tickets -> "send_to"
      [] Len(args) \in 1 .. 2 /\ args[1] = "receive" -> "receive"
      [] Len(args) = 1 /\ args[1] \in {"help", "version"} -> "info"
      [] OTHER -> "invalid"

\* A wrong command line, or a directory that receive cannot resolve, ends
\* the program, and so do help and version once they are printed.
ParseArguments ==
    /\ at = "parse"
    /\ \E n \in 0 .. 4 : \E args \in [1 .. n -> Words] : command' = Command(args)
    /\ \/ command' \in {"ui", "send", "send_to", "receive"} /\ at' = "binding" /\ UNCHANGED result
       \/ command' \in {"invalid", "receive"} /\ at' = "exited" /\ result' = "err"
       \/ command' = "info" /\ at' = "exited" /\ result' = "ok"
    /\ UNCHANGED <<discoveryVars, router, signal, inputVars, selectVars, offerVars>>

\* The receiving half of the queue is dropped, and with it the one-shot
\* senders of all offers that have not been answered.
DropOffers ==
    /\ answer' = [o \in Offers |-> IF Held(o) THEN "dropped" ELSE answer[o]]
    /\ queue' = <<>>
    /\ shown' = NoOffer

\* The process ends without a shutdown.
Abandon(res) ==
    /\ at' = "exited"
    /\ result' = res
    /\ router' = IF router = "on" THEN "dropped" ELSE router
    /\ DropOffers

\* start_iroh up to the router: from then on offers come in.
BindEndpoint ==
    /\ at = "binding"
    /\ \/ /\ at' = "announcing"
          /\ router' = "on"
          /\ UNCHANGED <<result, offerVars>>
       \/ Abandon("not_started")
    /\ UNCHANGED <<discoveryVars, command, signal, inputVars, selectVars>>

\* The rest of start_iroh, the device name and mDNS, and the match on the
\* command.  The ticket command needs no selection.
Announce ==
    /\ at = "announcing"
    /\ \/ /\ at' = CASE command = "ui" -> "window"
                     [] command = "send" -> "searching"
                     [] command = "send_to" -> "sending"
                     [] command = "receive" -> "waiting"
          /\ recipient' = IF command = "send_to" THEN Remote ELSE NoId
          /\ UNCHANGED <<result, router, offerVars>>
       \/ Abandon("not_started") /\ UNCHANGED recipient
    /\ UNCHANGED <<discoveryVars, command, signal, inputVars, list>>

\* Mutant: an error of the command is returned before the shutdown.
EndWithout(res) ==
    IF res = "err" THEN Abandon(res)
    ELSE at' = "ended" /\ result' = res /\ DropOffers /\ UNCHANGED router

\* The command is done: its block ends and drops the Runtime.
End(res) ==
    /\ at' = "ended"
    /\ result' = res
    /\ DropOffers
    /\ UNCHANGED router

\* router.shutdown, and only then the result of the command or, if that is
\* Ok, of the shutdown.
Shutdown ==
    /\ at = "ended"
    /\ at' = "exited"
    /\ router' = "down"
    /\ result' \in {result, "err"}
    /\ UNCHANGED <<discoveryVars, command, signal, inputVars, selectVars, offerVars>>

\* ui::run and run_sender return.
CommandReturns ==
    /\ at \in {"window", "sending"}
    /\ \E res \in {"ok", "err"} : End(res)
    /\ UNCHANGED <<discoveryVars, command, signal, inputVars, selectVars>>

-----------------------------------------------------------------------------
(* Standard input, read through a buffered reader that is made for one     *)
(* line and dropped with whatever else it has got: nothing from a          *)
(* terminal, any number of lines from a pipe.  After the end of the input  *)
(* a read returns an empty line.                                           *)

\* Mutant: wait for a line, also after the end of the input.
ReadLineOnly(line) ==
    /\ stdin # <<>> /\ line = Head(stdin)
    /\ \E n \in 1 .. Len(stdin) : stdin' = SubSeq(stdin, n + 1, Len(stdin))

ReadLine(line) ==
    IF stdin = <<>>
    THEN eof /\ line = BlankLine /\ UNCHANGED stdin
    ELSE /\ line = Head(stdin)
         /\ \E n \in 1 .. Len(stdin) : stdin' = SubSeq(stdin, n + 1, Len(stdin))

Line == Lines \cup {BlankLine}

-----------------------------------------------------------------------------
(* send without a ticket: select_receiver.                                 *)

\* Mutant: give up only when there are no devices at the start.
SearchHangs ==
    /\ at = "searching" /\ nearby # {}
    /\ at' = "settling"
    /\ UNCHANGED <<discoveryVars, command, result, router, signal, inputVars, selectVars, offerVars>>

\* wait_for: some device is there, or discovery has stopped without one.
Search ==
    /\ at = "searching"
    /\ \/ nearby # {} /\ at' = "settling" /\ UNCHANGED <<result, router, offerVars>>
       \/ nearby = {} /\ ~discovering /\ End("err")
    /\ UNCHANGED <<discoveryVars, command, signal, inputVars, selectVars>>

\* The devices of this moment, in the order of a hash map.
Orders == Bijection(1 .. Cardinality(nearby), nearby)

\* Two seconds later they are printed.
PrintList ==
    /\ at = "settling"
    /\ at' = "choosing"
    /\ list' \in Orders
    /\ UNCHANGED <<discoveryVars, command, result, router, signal, inputVars, recipient, offerVars>>

\* A number of the list selects its device; 0, a greater number and
\* anything else is an error.
Select(devices) ==
    /\ at = "choosing"
    /\ \E line \in Line :
         /\ ReadLine(line)
         /\ IF line \in DOMAIN Number /\ Number[line] \in 1 .. Len(devices)
            THEN /\ at' = "sending"
                 /\ recipient' = devices[Number[line]]
                 /\ UNCHANGED <<result, router, offerVars>>
            ELSE End("err") /\ UNCHANGED recipient
    /\ UNCHANGED <<discoveryVars, command, signal, eof, list>>

\* Mutant: look the number up in the devices of now.
ChooseNow == \E now \in Orders : Select(now)

Choose == Select(list)

-----------------------------------------------------------------------------
(* receive: the loop in main.  Either branch of the select may be taken    *)
(* when both are ready; the future that has seen Ctrl-C is dropped then.   *)
(* The queue is never closed from the other side, since the router holds   *)
(* its sending half.                                                       *)

CatchSignal ==
    /\ at = "waiting" /\ signal
    /\ \E res \in {"ok", "err"} : End(res)
    /\ signal' = FALSE
    /\ UNCHANGED <<discoveryVars, command, inputVars, selectVars>>

\* Mutant: Ctrl-C is looked at when an offer has come in.
InterruptLoopIdle == queue # <<>> /\ CatchSignal

InterruptLoop == CatchSignal

ShowOffer ==
    /\ at = "waiting" /\ queue # <<>>
    /\ shown' = Head(queue)
    /\ queue' = Tail(queue)
    /\ at' = "confirming"
    /\ signal' = FALSE
    /\ UNCHANGED <<discoveryVars, command, result, router, inputVars, selectVars, answer>>

\* The answer goes to the handler: y accepts, any other line declines.
TellHandler(line) ==
    answer' = [answer EXCEPT ![shown] = IF line \in Yes THEN "accept" ELSE "decline"]

NextOffer == at' = "waiting" /\ shown' = NoOffer /\ UNCHANGED <<result, router, queue>>

\* Mutant: after a line that cannot be read the next offer is shown.
ConfirmSkips ==
    /\ at = "confirming"
    /\ \E line \in Line :
         /\ ReadLine(line) /\ NextOffer
         /\ IF line \in Garbled THEN UNCHANGED answer ELSE TellHandler(line)
    /\ UNCHANGED <<discoveryVars, command, signal, eof, selectVars>>

\* confirm; a line that is not UTF-8 is an error that ends the loop.
Confirm ==
    /\ at = "confirming"
    /\ \E line \in Line :
         /\ ReadLine(line)
         /\ IF line \in Garbled THEN End("err") ELSE NextOffer /\ TellHandler(line)
    /\ UNCHANGED <<discoveryVars, command, signal, eof, selectVars>>

MainStep ==
    \/ ParseArguments \/ BindEndpoint \/ Announce \/ CommandReturns
    \/ Search \/ PrintList \/ Choose \/ InterruptLoop \/ ShowOffer
    \/ Confirm \/ Shutdown

-----------------------------------------------------------------------------
(* What happens around main.                                               *)

\* Ctrl-C ends the process, except that the receive command catches it from
\* its first wait on: then only a future that is awaited notices it.
CtrlC ==
    /\ at \notin {"parse", "exited"}
    /\ IF command = "receive" /\ at \notin {"binding", "announcing"}
       THEN /\ signal' = (at = "waiting")
            /\ UNCHANGED <<at, result, router, offerVars>>
       ELSE /\ Abandon("killed")
            /\ UNCHANGED signal
    /\ UNCHANGED <<discoveryVars, command, inputVars, selectVars>>

TypeLine ==
    /\ at # "exited" /\ ~eof /\ Len(stdin) < TypeAhead
    /\ \E l \in Lines : stdin' = Append(stdin, l)
    /\ UNCHANGED <<discoveryVars, mainVars, eof, selectVars, offerVars>>

EndInput ==
    /\ at # "exited" /\ ~eof
    /\ eof' = TRUE
    /\ UNCHANGED <<discoveryVars, mainVars, stdin, selectVars, offerVars>>

Enqueue(o) ==
    /\ router = "on" /\ at # "ended" /\ answer[o] = "none" /\ ~Held(o)
    /\ queue' = Append(queue, o)
    /\ UNCHANGED <<discoveryVars, mainVars, inputVars, selectVars, shown, answer>>

\* Mutant: a queue without a limit.
OfferArrivesUnbounded(o) == Enqueue(o)

\* The handler of a connection puts its offer in the queue.
OfferArrives(o) == Len(queue) < QueueCap /\ Enqueue(o)

\* Devices come and go; followed only where somebody reads the list.
DeviceEvent ==
    /\ command = "send" /\ at \notin {"binding", "announcing", "exited"}
    /\ (\E p \in Peers : Discovered(p) \/ Expired(p)) \/ DiscoveryStops
    /\ UNCHANGED <<mainVars, inputVars, selectVars, offerVars>>

Exited == at = "exited" /\ UNCHANGED vars

Next ==
    \/ MainStep \/ CtrlC \/ TypeLine \/ EndInput
    \/ \E o \in Offers : OfferArrives(o)
    \/ DeviceEvent \/ Exited

Spec == Init /\ [][Next]_vars

(***************************************************************************)
(* main runs whenever what it awaits is there: tokio schedules it, the two *)
(* seconds pass, run_sender returns (SendReturns in OfferProtocol), and    *)
(* the window is closed some day.  Nothing is assumed of the user at the   *)
(* keyboard, of senders or of devices.                                     *)
(***************************************************************************)
FairSpec == Spec /\ WF_vars(MainStep)

-----------------------------------------------------------------------------
(* Properties.                                                             *)

\* The variables have their types.
TypeOK ==
    /\ DiscoveryTypeOK
    /\ at \in {"parse", "binding", "announcing", "window", "searching", "settling", "choosing",
               "sending", "waiting", "confirming", "ended", "exited"}
    /\ command \in {"none", "ui", "send", "send_to", "receive", "info", "invalid"}
    /\ result \in {"none", "ok", "err", "killed", "not_started"}
    /\ router \in {"off", "on", "down", "dropped"} /\ signal \in BOOLEAN
    /\ stdin \in Seq(Lines) /\ Len(stdin) <= TypeAhead
    /\ eof \in BOOLEAN /\ list \in Seq(Peers)
    /\ recipient \in Peers \cup {Remote, NoId}
    /\ queue \in Seq(Offers) /\ Len(queue) <= QueueCap
    /\ shown \in Offers \cup {NoOffer}
    /\ answer \in [Offers -> {"none", "accept", "decline", "dropped"}]

\* A process that has started ends with its router shut down, whether the
\* command failed or not, unless it was killed; and at its end no handler is
\* left with an offer nobody will answer (the order at the end of main).
EndsOrderly ==
    at = "exited" =>
      /\ router \in {"off", "down"} \/ result \in {"killed", "not_started"}
      /\ \A o \in Offers : ~Held(o)

\* The file goes to a device that was on the printed list, also when the
\* devices have changed since (the copy select_receiver keeps), and to
\* none when the list was empty.
RecipientWasListed ==
    recipient # NoId => recipient = Remote \/ \E i \in 1 .. Len(list) : list[i] = recipient

\* select_receiver does not wait for ever once devices stay in view, or
\* when there will be none because discovery has stopped.
SearchEnds ==
    (<>[](nearby # {}) \/ <>~discovering) => (at = "searching" ~> at # "searching")

\* A Ctrl-C that reaches the waiting receive loop ends the program, unless
\* an offer that is ready at that moment is taken first.
InterruptEndsLoop == signal ~> at = "exited" \/ shown # NoOffer

\* Without anybody to ask - standard input has ended - every offer is
\* declined, or dropped with the program, and none is accepted or kept.
NoInputDeclines ==
    \A o \in Offers :
      (eof /\ stdin = <<>> /\ command = "receive" /\ Held(o))
        ~> answer[o] \in {"decline", "dropped"}

-----------------------------------------------------------------------------
(* Refinement: the terminal is a front end.                                *)

Front == INSTANCE FrontEnd WITH
    Cap <- QueueCap,
    None <- NoOffer,
    open <- at \notin {"ended", "exited"}

\* Offers are shown one at a time in their order, answered once, and dropped
\* when the program ends, in whatever way it ends.
IsFrontEnd == Front!Spec
=============================================================================
