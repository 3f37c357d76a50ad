--------------------------- MODULE TransferContract ---------------------------
(***************************************************************************)
(* What a file transfer promises to the two users, without connections,    *)
(* tasks or bytes: the receiver's consent, whether the file was kept, and  *)
(* the verdict the sender is given.  The verdict is never wrong; it may be *)
(* "unknown", after a time-out or a broken connection, and then it says    *)
(* nothing about the file.                                                 *)
(***************************************************************************)
CONSTANT Transfers

VARIABLES
    consent,    \* consent[t]: "open", "given" or "refused"
    kept,       \* transfers whose file the receiver has
    verdict     \* verdict[t]: what the sender was told

contractVars == <<consent, kept, verdict>>

Init ==
    /\ consent = [t \in Transfers |-> "open"]
    /\ kept = {}
    /\ verdict = [t \in Transfers |-> "none"]

Accept(t) ==
    /\ consent[t] = "open"
    /\ consent' = [consent EXCEPT ![t] = "given"]
    /\ UNCHANGED <<kept, verdict>>

\* One answer, or the end of the receiver with several offers unanswered.
Refuse(T) ==
    /\ \A t \in T : consent[t] = "open"
    /\ consent' = [t \in Transfers |-> IF t \in T THEN "refused" ELSE consent[t]]
    /\ UNCHANGED <<kept, verdict>>

\* A file is kept with consent, and never after a report that it was not.
Keep(t) ==
    /\ consent[t] = "given"
    /\ verdict[t] # "not_kept"
    /\ kept' = kept \cup {t}
    /\ UNCHANGED <<consent, verdict>>

\* The evidence each verdict needs.
Justified(t, v) ==
    \/ v = "kept" /\ t \in kept
    \/ v = "refused" /\ consent[t] = "refused"
    \/ v = "not_kept" /\ consent[t] = "given" /\ t \notin kept
    \/ v = "unknown"

\* The sender gets one verdict.
Report(t) ==
    /\ verdict[t] = "none"
    /\ \E v \in {"kept", "refused", "not_kept", "unknown"} :
         /\ Justified(t, v)
         /\ verdict' = [verdict EXCEPT ![t] = v]
    /\ UNCHANGED <<consent, kept>>

Next ==
    \/ \E t \in Transfers : Accept(t) \/ Keep(t) \/ Report(t)
    \/ \E T \in SUBSET Transfers : Refuse(T)

Spec == Init /\ [][Next]_contractVars
=============================================================================
