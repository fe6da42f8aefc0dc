-------------------------------- MODULE Stream --------------------------------
(***************************************************************************)
(* One interest in one chat, whole: the start and stop commands of the     *)
(* chat (Subscriptions) and the delivery of the results to it (Delivery),  *)
(* which share the hub's table of callback URLs.  The commands add to the  *)
(* table and remove from it; so do, behind the user's back, the calls of   *)
(* DeliverMessages which find the bot blocked and the goroutines of        *)
(* handleFloodError, which may have been started long before the link they *)
(* remove.                                                                 *)
(*                                                                         *)
(* Both parts run in the same process: a crash ends handlers of both.      *)
(***************************************************************************)
EXTENDS Subscriptions

CONSTANTS
    NumEvts, BatchMax, Requests, None, Form, User, Poison, Malformed,
    Faults, MaxFlood            \* as in Delivery, for one of the URLs of the chat

VARIABLES
    cursor, inflight, at, base, size, ack, failed, flood, warned,
    posted, skipped, blocked    \* as in Delivery; at is its pc

D == INSTANCE Delivery WITH pc <- at

ASSUME StreamAssumption == D!DeliveryAssumption

delivery == <<cursor, inflight, at, base, size, ack, failed, flood, warned,
              posted, skipped, blocked>>
allVars == <<vars, delivery>>

StreamInit ==
    /\ Init
    /\ D!Init
-----------------------------------------------------------------------------
\* A command of the chat.  Nobody gives one who has blocked the bot.
Command(c) ==
    /\ ~blocked
    /\ Start(c) \/ Stop(c)
    /\ UNCHANGED delivery

Serve(c) ==
    /\ Step(c)
    /\ UNCHANGED delivery

\* What the delivery removes is accounted for, and disturbs the commands which run.
Removes ==
    /\ links' = links - Cardinality(registered \ registered')
    /\ alone' = IF registered' = registered THEN alone ELSE [c \in Calls |-> FALSE]
    /\ UNCHANGED <<pc, by, before, clean, commands>>

Deliver(r) == D!Deliver(r) /\ Removes

FloodUnsubscribe == D!FloodUnsubscribe /\ Removes
FloodUnsubscribeLegacy == D!FloodUnsubscribeLegacy /\ Removes
FloodWarn == D!FloodWarn /\ Removes

Post(r) == D!Post(r) /\ Removes

Timeout == D!Timeout /\ Removes
Block == D!Block /\ Removes

\* The same interest is delivered to the other URLs of the chat too.  All that their
\* calls and goroutines do to the table is to remove a URL sooner or later: their own,
\* "legacy", or the one made of the chat's id, which in a private chat is the user's.
OtherFeeds ==
    /\ \E f \in registered :
         /\ f = Form => Users = {Form}
         /\ registered' = registered \ {f}
    /\ Removes
    /\ UNCHANGED <<faults, delivery>>

\* A replica dies with any of the handlers and goroutines of both parts.
Crash ==
    /\ D!Crash
    /\ \E dead \in SUBSET Calls :
         /\ pc' = [c \in Calls |-> IF c \in dead THEN "idle" ELSE pc[c]]
         /\ by' = [c \in Calls |-> IF c \in dead THEN "nobody" ELSE by[c]]
         /\ before' = [c \in Calls |-> IF c \in dead THEN {} ELSE before[c]]
         /\ alone' = [c \in Calls |-> c \notin dead /\ alone[c]]
         /\ clean' = [c \in Calls |-> c \in dead \/ clean[c]]
    /\ UNCHANGED <<links, commands>>

StreamNext ==
    \/ \E c \in Calls : Command(c) \/ Serve(c)
    \/ \E r \in Requests : Post(r) \/ Deliver(r)
    \/ FloodUnsubscribe \/ FloodUnsubscribeLegacy \/ FloodWarn
    \/ Timeout \/ Crash \/ Block \/ OtherFeeds

StreamSpec == StreamInit /\ [][StreamNext]_allVars
-----------------------------------------------------------------------------
\* The replies and the removals add up to the table: whatever commands,
\* refusals and floods overlap, every reply "Subscribed" stands for one
\* registration and every "Unsubscribed" for one removal of its own, and only
\* the delivery changes the table besides (start.go:85, stop.go:18-31,
\* handler.go:191, 235).
RepliesAddUp ==
    Quiet /\ faults = 0 => links = Cardinality(registered)
=============================================================================
