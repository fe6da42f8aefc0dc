---------------------------- MODULE Subscriptions ---------------------------
(***************************************************************************)
(* Linking one interest to one chat (service/subscriptions/start.go and    *)
(* stop.go over api/http/subscriptions): the start and stop commands of    *)
(* the users of the chat against the hub's table of callback URLs.  Stream *)
(* puts them together with the delivery of the results.                    *)
(*                                                                         *)
(* A command makes several calls of the hub and replies at its end; the    *)
(* handlers run concurrently, so another one may change the table between  *)
(* any two calls.  A chat may be registered under the URL with the id of   *)
(* each user who linked it and, from older versions, under the one without *)
(* a user id.  A private chat has one user, a group any number of them.    *)
(***************************************************************************)
EXTENDS Integers, FiniteSets

CONSTANTS
    Calls,          \* identities of concurrent handlers
    Users,          \* the users of the chat
    Linked,         \* the callback URLs registered at first
    MaxCommands,    \* bound: how many commands the users give
    MaxFaults       \* bound: how many calls of the hub fail

\* The callback URLs of the chat, each by the user id it carries.  A public channel,
\* whose posts have no sender, is one more user, named after it, who only starts.
Urls == Users \cup {"legacy"}

ASSUME SubscriptionsAssumption ==
    /\ {"legacy", "nobody"} \cap Users = {}
    /\ IsFiniteSet(Users)
    /\ Linked \subseteq Urls
    /\ MaxCommands \in Nat
    /\ MaxFaults \in Nat

VARIABLES
    registered,     \* the hub: the URLs registered for the chat
    pc,             \* where a call is
    by,             \* the user who gave the command
    before,         \* the table when the call started
    alone,          \* no other call ran since the call started
    clean,          \* no hub call of this call failed
    links,          \* how many registrations the replies account for
    commands, faults

run == <<pc, by, before, alone, clean>>
vars == <<registered, run, links, commands, faults>>

Init ==
    /\ registered = Linked
    /\ pc = [c \in Calls |-> "idle"]
    /\ by = [c \in Calls |-> "nobody"]
    /\ before = [c \in Calls |-> {}]
    /\ alone = [c \in Calls |-> FALSE]
    /\ clean = [c \in Calls |-> TRUE]
    /\ links = Cardinality(Linked)
    /\ commands = 0
    /\ faults = 0

Idle(c) == pc[c] = "idle"
-----------------------------------------------------------------------------
(* The hub, through api/http/subscriptions.  Each operator is one call; res *)
(* is what the error it returns is distinguished by: "ok", "conflict" for   *)
(* 404 and 409, "exhausted" for 429, "notFound", "internal".                *)

Fail(c) ==
    /\ faults < MaxFaults
    /\ faults' = faults + 1
    /\ clean' = [clean EXCEPT ![c] = FALSE]

\* Mutant of Subscribe: the URL is made up in yet another form.
SubscribeOther(c, res) ==
    /\ by[c] \notin registered
    /\ res = "ok"
    /\ registered' = registered \cup {"unescaped"}
    /\ UNCHANGED <<clean, faults>>

\* Subscribe with the URL with the id of the user.  The user's limit, which counts
\* the other interests too, may be reached.  A call which failed may or may not have
\* been applied.
Subscribe(c, res) ==
    \/ /\ by[c] \in registered
       /\ res = "conflict"
       /\ UNCHANGED <<registered, clean, faults>>
    \/ /\ by[c] \notin registered
       /\ res = "exhausted"
       /\ UNCHANGED <<registered, clean, faults>>
    \/ /\ by[c] \notin registered
       /\ res = "ok"
       /\ registered' = registered \cup {by[c]}
       /\ UNCHANGED <<clean, faults>>
    \/ /\ res = "internal"
       /\ Fail(c)
       /\ \/ UNCHANGED registered
          \/ /\ by[c] \notin registered
             /\ registered' = registered \cup {by[c]}

Subscription(c, f, res) ==
    \/ /\ res = IF f \in registered THEN "ok" ELSE "notFound"
       /\ UNCHANGED <<clean, faults>>
    \/ /\ res = "internal"
       /\ Fail(c)

Unsubscribe(c, f, res) ==
    \/ /\ f \in registered
       /\ res = "ok"
       /\ registered' = registered \ {f}
       /\ UNCHANGED <<clean, faults>>
    \/ /\ f \notin registered
       /\ res = "conflict"
       /\ UNCHANGED <<registered, clean, faults>>
    \/ /\ res = "internal"
       /\ Fail(c)
       /\ registered' \in {registered, registered \ {f}}

Results == {"ok", "conflict", "exhausted", "notFound", "internal"}
-----------------------------------------------------------------------------
\* A call starts: the calls which run are not alone any more.
Begin(c, l) ==
    /\ Idle(c)
    /\ pc' = [pc EXCEPT ![c] = l]
    /\ \E u \in Users : by' = [by EXCEPT ![c] = u]
    /\ before' = [before EXCEPT ![c] = registered]
    /\ alone' = [d \in Calls |-> IF d = c THEN \A e \in Calls : Idle(e) ELSE FALSE]
    /\ clean' = [clean EXCEPT ![c] = TRUE]

Goto(c, l) == pc' = [pc EXCEPT ![c] = l]

\* Nothing is kept of a call which has replied.
End(c) ==
    /\ Goto(c, "idle")
    /\ by' = [by EXCEPT ![c] = "nobody"]
    /\ before' = [before EXCEPT ![c] = {}]
    /\ alone' = [alone EXCEPT ![c] = FALSE]
    /\ clean' = [clean EXCEPT ![c] = TRUE]

Start(c) ==
    /\ commands < MaxCommands
    /\ commands' = commands + 1
    /\ Begin(c, "subscribe")
    /\ UNCHANGED <<registered, links, faults>>

\* The branch which links anew a chat which is linked already waits for
\* chats.ErrAlreadyExists, which Subscribe never returns: a conflict ends in
\* "Unexpected failure" as any other error does.
StartSubscribe(c) ==
    /\ pc[c] = "subscribe"
    /\ \E res \in Results :
         /\ Subscribe(c, res)
         /\ Goto(c, CASE res = "ok" -> "replyLinked"
                      [] res = "exhausted" -> "replyLimit"
                      [] OTHER -> "replyFailure")
    /\ UNCHANGED <<by, before, alone, links, commands>>

\* The interest or the limit is read for the wording of the reply only.
StartReply(c) ==
    /\ pc[c] \in {"replyLinked", "replyLimit", "replyFailure"}
    /\ links' = IF pc[c] = "replyLinked" THEN links + 1 ELSE links
    /\ End(c)
    /\ UNCHANGED <<registered, commands, faults>>

Stop(c) ==
    /\ commands < MaxCommands
    /\ commands' = commands + 1
    /\ Begin(c, "check")
    /\ UNCHANGED <<registered, links, faults>>

\* Mutant of StopCheck: the URL without the user id is not looked up.
StopCheckOnce(c) ==
    /\ pc[c] = "check"
    /\ \E res \in Results :
         /\ Subscription(c, by[c], res)
         /\ Goto(c, IF res = "ok" THEN "unsubscribe" ELSE "replyError")
    /\ UNCHANGED <<registered, by, before, alone, links, commands>>

\* Any error of the first lookup leads to the URL without the user id.
StopCheck(c) ==
    /\ pc[c] = "check"
    /\ \E res \in Results :
         /\ Subscription(c, by[c], res)
         /\ Goto(c, IF res = "ok" THEN "unsubscribe" ELSE "checkLegacy")
    /\ UNCHANGED <<registered, by, before, alone, links, commands>>

StopCheckLegacy(c) ==
    /\ pc[c] = "checkLegacy"
    /\ \E res \in Results :
         /\ Subscription(c, "legacy", res)
         /\ Goto(c, IF res = "ok" THEN "unsubscribeLegacy" ELSE "replyError")
    /\ UNCHANGED <<registered, by, before, alone, links, commands>>

\* Mutant of StopUnsubscribe: that there was nothing to remove is no error.
StopUnsubscribeTwice(c) ==
    /\ pc[c] \in {"unsubscribe", "unsubscribeLegacy"}
    /\ \E res \in Results :
         /\ Unsubscribe(c, IF pc[c] = "unsubscribe" THEN by[c] ELSE "legacy", res)
         /\ Goto(c, IF res \in {"ok", "conflict"} THEN "replyStopped" ELSE "replyError")
    /\ UNCHANGED <<by, before, alone, links, commands>>

StopUnsubscribe(c) ==
    /\ pc[c] \in {"unsubscribe", "unsubscribeLegacy"}
    /\ \E res \in Results :
         /\ Unsubscribe(c, IF pc[c] = "unsubscribe" THEN by[c] ELSE "legacy", res)
         /\ Goto(c, IF res = "ok" THEN "replyStopped" ELSE "replyError")
    /\ UNCHANGED <<by, before, alone, links, commands>>

\* "Unsubscribed from the interest in this chat", or the error.
StopReply(c) ==
    /\ pc[c] \in {"replyStopped", "replyError"}
    /\ links' = IF pc[c] = "replyStopped" THEN links - 1 ELSE links
    /\ End(c)
    /\ UNCHANGED <<registered, commands, faults>>
-----------------------------------------------------------------------------
Step(c) ==
    \/ StartSubscribe(c) \/ StartReply(c)
    \/ StopCheck(c) \/ StopCheckLegacy(c) \/ StopUnsubscribe(c) \/ StopReply(c)

Next == \E c \in Calls : Start(c) \/ Stop(c) \/ Step(c)

Spec == Init /\ [][Next]_vars
-----------------------------------------------------------------------------
\* The variables have their types: a chat is only ever registered under the URLs with
\* the ids of its users and the one without (start.go:85, stop.go:18-26).
TypeOK ==
    /\ registered \subseteq Urls
    /\ pc \in [Calls -> {"idle", "subscribe", "replyLinked", "replyLimit",
                         "replyFailure", "check", "checkLegacy", "unsubscribe",
                         "unsubscribeLegacy", "replyStopped", "replyError"}]
    /\ by \in [Calls -> Users \cup {"nobody"}]
    /\ \A c \in Calls : by[c] \in IF Idle(c) THEN {"nobody"} ELSE Users
    /\ before \in [Calls -> SUBSET Urls]
    /\ alone \in [Calls -> BOOLEAN]
    /\ clean \in [Calls -> BOOLEAN]
    /\ links \in Int
    /\ commands \in 0..MaxCommands
    /\ faults \in 0..MaxFaults

Quiet == \A c \in Calls : Idle(c)

\* A Stop which runs alone and replies an error although no call failed found neither
\* the user's link of the chat nor one without a user id: nobody gets stuck with a
\* link of their own.  Another user of the chat may have linked it all the same
\* (stop.go:18-31).
StopErrorMeansUnlinked ==
    \A c \in Calls :
        alone[c] /\ clean[c] /\ pc[c] = "replyError" =>
            registered \cap {by[c], "legacy"} = {}

\* start.go says of a chat which is linked already: "might be not an error, so
\* try to re-link the subscription": such a Start does not fail.
ConflictIsRelinked ==
    \A c \in Calls :
        alone[c] /\ clean[c] /\ by[c] \in before[c] => pc[c] # "replyFailure"

\* stop.go replies "Unsubscribed from the interest in this chat": a Stop which
\* runs alone leaves no registration of the chat.
StoppedMeansUnlinked ==
    \A c \in Calls : alone[c] /\ pc[c] = "replyStopped" => registered = {}

\* list.go offers every user of the chat the interests linked to it by any: "Select
\* any to stop".  A Stop which runs alone and fails has nothing to stop.
AnyUserStops ==
    \A c \in Calls :
        alone[c] /\ clean[c] /\ pc[c] = "replyError" => registered = {}
=============================================================================
