-------------------------- MODULE RecordLifecycle --------------------------
(***************************************************************************)
(* What the record service promises of each id: the record appears once,   *)
(* disappears at most once, and does not come back.  Records appear and    *)
(* disappear one at a time.                                                *)
(***************************************************************************)
CONSTANT Ids

VARIABLES
    live,  \* the ids that have a row
    gone   \* the ids that had one

vars == <<live, gone>>

Init == live = {} /\ gone = {}

Appear(i) ==
    /\ i \notin live \cup gone
    /\ live' = live \cup {i}
    /\ UNCHANGED gone

Disappear(i) ==
    /\ i \in live
    /\ live' = live \ {i}
    /\ gone' = gone \cup {i}

Next == \E i \in Ids : Appear(i) \/ Disappear(i)

Spec == Init /\ [][Next]_vars
============================================================================
