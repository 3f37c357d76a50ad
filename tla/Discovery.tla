------------------------------- MODULE Discovery -------------------------------
(***************************************************************************)
(* The discovery task (src/src/mdns.rs): it keeps the devices that are     *)
(* announced on the local network and publishes them, after every event,   *)
(* in a watch channel.  A reader of the channel sees the latest value and  *)
(* whether one was sent since it last looked; values in between are lost.  *)
(* When the task ends it closes the channel, which keeps its last value.   *)
(* Names and addresses of devices are abstracted.                          *)
(***************************************************************************)
CONSTANT Peers      \* devices that announce themselves, by endpoint id

VARIABLES
    nearby,         \* the value in the watch channel
    nearbyFresh,    \* a value was sent since the reader last looked
    discovering     \* the task runs and the channel is open

discoveryVars == <<nearby, nearbyFresh, discovering>>

DiscoveryTypeOK ==
    /\ nearby \subseteq Peers /\ nearbyFresh \in BOOLEAN
    /\ discovering \in BOOLEAN

DiscoveryInit ==
    /\ nearby = {} /\ nearbyFresh = FALSE /\ discovering = TRUE

\* A device announces itself, again or for the first time; announcements
\* without a name are ignored.
Discovered(p) ==
    /\ discovering
    /\ nearby' = nearby \cup {p}
    /\ nearbyFresh' = TRUE
    /\ UNCHANGED discovering

\* A device is gone.  The list is published also when it was not in it.
Expired(p) ==
    /\ discovering
    /\ nearby' = nearby \ {p}
    /\ nearbyFresh' = TRUE
    /\ UNCHANGED discovering

\* The events end, and the task with an error that nobody looks at.
DiscoveryStops ==
    /\ discovering
    /\ discovering' = FALSE
    /\ UNCHANGED <<nearby, nearbyFresh>>
=============================================================================
