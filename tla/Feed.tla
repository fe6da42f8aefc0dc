-------------------------------- MODULE Feed --------------------------------
(***************************************************************************)
(* What the bot promises who feeds it events, the hub for one interest and *)
(* one chat, or the queue: every event is handled at least once, for the   *)
(* first time in the order of the feed, and the feed is never told to      *)
(* forget an event which was not handled.                                  *)
(***************************************************************************)
EXTENDS Naturals

CONSTANT NumEvts        \* the events of the feed are 1..NumEvts

VARIABLES
    handled,            \* events the bot has dealt with
    acked,              \* the events 1..acked are forgotten
    open                \* whether the feed goes on

vars == <<handled, acked, open>>

Init ==
    /\ handled = {}
    /\ acked = 0
    /\ open = TRUE

\* Events may be handled only with, or after, all their predecessors.
Handle(events) ==
    /\ handled' = handled \cup events
    /\ \A e \in events : 1..e \subseteq handled'
    /\ UNCHANGED <<acked, open>>

Ack(k) ==
    /\ k >= acked
    /\ 1..k \subseteq handled
    /\ acked' = k
    /\ UNCHANGED <<handled, open>>

Close ==
    /\ open' = FALSE
    /\ UNCHANGED <<handled, acked>>

Next ==
    \/ \E events \in SUBSET (1..NumEvts) : Handle(events)
    \/ \E k \in 0..NumEvts : Ack(k)
    \/ Close

Spec == Init /\ [][Next]_vars
=============================================================================
