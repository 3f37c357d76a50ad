------------------------------- MODULE FrontEnd -------------------------------
(***************************************************************************)
(* What the handlers of incoming offers may expect of the receiving user's *)
(* front end, be it the desktop window or the terminal: a bounded queue of *)
(* offers, of which one at a time is shown and answered once, in the order *)
(* of their arrival; when the front end goes, the rest is dropped.  It     *)
(* owes nobody an answer: users may take their time.                       *)
(***************************************************************************)
EXTENDS Naturals, Sequences

CONSTANTS
    Offers,     \* offers that may come in
    Cap,        \* capacity of the queue
    None        \* "no offer is shown"

VARIABLES
    queue,      \* offers that wait to be shown
    shown,      \* the offer that is shown
    answer,     \* answer[o]: what o's handler was told
    open        \* the front end is there

frontVars == <<queue, shown, answer, open>>

Held(o) == shown = o \/ \E i \in 1 .. Len(queue) : queue[i] = o

Init ==
    /\ queue = <<>> /\ shown = None /\ answer = [o \in Offers |-> "none"]
    /\ open = TRUE

Arrive(o) ==
    /\ open /\ answer[o] = "none" /\ ~Held(o) /\ Len(queue) < Cap
    /\ queue' = Append(queue, o)
    /\ UNCHANGED <<shown, answer, open>>

Show ==
    /\ shown = None /\ queue # <<>>
    /\ shown' = Head(queue)
    /\ queue' = Tail(queue)
    /\ UNCHANGED <<answer, open>>

Answer ==
    /\ shown # None
    /\ \E a \in {"accept", "decline"} : answer' = [answer EXCEPT ![shown] = a]
    /\ shown' = None
    /\ UNCHANGED <<queue, open>>

Close ==
    /\ open
    /\ open' = FALSE
    /\ answer' = [o \in Offers |-> IF Held(o) THEN "dropped" ELSE answer[o]]
    /\ queue' = <<>>
    /\ shown' = None

Next == (\E o \in Offers : Arrive(o)) \/ Show \/ Answer \/ Close

Spec == Init /\ [][Next]_frontVars
=============================================================================
