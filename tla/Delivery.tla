------------------------------ MODULE Delivery ------------------------------
(***************************************************************************)
(* The WebSub subscriber of the bot (service/chats/handler.go): the hub    *)
(* POSTs batches of events of one interest to the callback URL of one      *)
(* chat, the handler forwards them to Telegram one by one and answers how  *)
(* many the hub may forget (X-Ack-Count).                                  *)
(*                                                                         *)
(* One feed is modelled: one interest, one chat, one callback URL.  A chat *)
(* may be registered under several URLs: with the id of a user in the      *)
(* query and, from older versions, without one.  Form is the one this feed *)
(* is posted to.  The hub and Telegram are outside the repository: they do *)
(* here what the handler expects of them and what it has to cope with.     *)
(***************************************************************************)
EXTENDS Integers

CONSTANTS
    NumEvts,        \* the feed holds the events 1..NumEvts
    BatchMax,       \* the hub posts at most this many events at once
    Requests,       \* identities of concurrent calls of DeliverMessages
    None,           \* no request
    Urls,           \* the callback URLs of the chat
    Form,           \* the one this feed is posted to
    User,           \* the one with the user id the handler goes by: that of Form or,
                    \* if Form is "legacy" and carries none, one made of the chat's id
    Linked,         \* the URLs registered for the chat at first
    Poison,         \* events which ToProto or DataAs refuse
    Malformed,      \* events which make the JSON payload undecodable
    Faults,         \* the kinds of faults which may happen
    MaxFaults,      \* bound: how many faults happen
    MaxFlood        \* bound: how many flood goroutines run at once

Evts == 1..NumEvts
Modes == {"html", "plain", "raw"}
Stages == {"user", "legacy", "warn"}
FaultKinds == {"timeout", "crash", "ambiguous", "unsubscribe"}

ASSUME DeliveryAssumption ==
    /\ NumEvts \in Nat \ {0}
    /\ BatchMax \in Nat \ {0}
    /\ None \notin Requests
    /\ Linked \subseteq Urls
    /\ Form \in Linked
    /\ Form \in {User, "legacy"}
    /\ User # "legacy"
    /\ Faults \subseteq FaultKinds
    /\ MaxFaults \in Nat
    /\ MaxFlood \in Nat

VARIABLES
    \* the hub
    cursor,         \* the events 1..cursor are acknowledged
    registered,     \* the URLs of the chat still registered
    inflight,       \* the request the hub waits for
    \* the calls of DeliverMessages
    pc,             \* where a call is
    base,           \* the call's batch is the events base + 1 .. base + size
    size,
    ack,            \* countAck
    failed,         \* err # nil
    \* the goroutines of handleFloodError
    flood,          \* how many are before each of their steps
    warned,         \* whether the chat was told that the streaming stopped
    \* the chat
    posted,         \* how many times the chat received each event
    skipped,        \* the events given up after the raw mode failed
    blocked,        \* whether the user blocks the bot
    faults          \* how many faults happened

hub == <<cursor, registered, inflight>>
call == <<pc, base, size, ack, failed>>
goroutines == <<flood, warned>>
chat == <<posted, skipped>>
vars == <<hub, call, goroutines, chat, blocked, faults>>

PCs == {"idle", "decode", "unsubscribe", "unsubscribeLegacy", "respond"} \cup Modes

Init ==
    /\ cursor = 0
    /\ registered = Linked
    /\ inflight = None
    /\ pc = [r \in Requests |-> "idle"]
    /\ base = [r \in Requests |-> 0]
    /\ size = [r \in Requests |-> 0]
    /\ ack = [r \in Requests |-> 0]
    /\ failed = [r \in Requests |-> FALSE]
    /\ flood = [s \in Stages |-> 0]
    /\ warned = FALSE
    /\ posted = [e \in Evts |-> 0]
    /\ skipped = {}
    /\ blocked = FALSE
    /\ faults = 0
-----------------------------------------------------------------------------
(* The environment.                                                        *)

Fault(kind) ==
    /\ kind \in Faults
    /\ faults < MaxFaults
    /\ faults' = faults + 1

\* The hub posts what follows its cursor, one request at a time, as long as
\* the callback is registered.  What was not acknowledged is posted again.
Post(r) ==
    /\ inflight = None
    /\ Form \in registered
    /\ pc[r] = "idle"
    /\ \E n \in 1..BatchMax :
         /\ cursor + n <= NumEvts
         /\ size' = [size EXCEPT ![r] = n]
    /\ base' = [base EXCEPT ![r] = cursor]
    /\ pc' = [pc EXCEPT ![r] = "decode"]
    /\ inflight' = r
    /\ UNCHANGED <<cursor, registered, ack, failed, goroutines, chat, blocked, faults>>

\* The hub stops waiting, or the answer is lost.  The handler does not notice
\* and runs to its end.
Timeout ==
    /\ inflight # None
    /\ Fault("timeout")
    /\ inflight' = None
    /\ UNCHANGED <<cursor, registered, call, goroutines, chat, blocked>>

\* A replica of the bot dies with its calls and its goroutines: neither is
\* persisted.
Crash ==
    /\ Fault("crash")
    /\ \E dead \in SUBSET Requests :
         /\ pc' = [r \in Requests |-> IF r \in dead THEN "idle" ELSE pc[r]]
         /\ base' = [r \in Requests |-> IF r \in dead THEN 0 ELSE base[r]]
         /\ size' = [r \in Requests |-> IF r \in dead THEN 0 ELSE size[r]]
         /\ ack' = [r \in Requests |-> IF r \in dead THEN 0 ELSE ack[r]]
         /\ failed' = [r \in Requests |-> IF r \in dead THEN FALSE ELSE failed[r]]
         /\ inflight' = IF inflight \in dead THEN None ELSE inflight
    /\ flood' \in [Stages -> 0..MaxFlood]
    /\ \A s \in Stages : flood'[s] <= flood[s]
    /\ UNCHANGED <<cursor, registered, warned, chat, blocked>>

\* The user blocks or unblocks the bot in Telegram.
Block ==
    /\ blocked' = ~blocked
    /\ UNCHANGED <<hub, call, goroutines, chat, faults>>

\* Unsubscribe of api/http/subscriptions for the callback URL f: the hub drops a
\* registered callback, answers 404 for another one, and a failed call may or may
\* not have been applied.  ok says whether err is nil.
Unsubscribe(f, ok) ==
    \/ /\ ok /\ f \in registered
       /\ registered' = registered \ {f}
       /\ UNCHANGED faults
    \/ /\ ~ok /\ f \notin registered
       /\ UNCHANGED <<registered, faults>>
    \/ /\ ~ok /\ Fault("unsubscribe")
       /\ registered' \in {registered, registered \ {f}}
-----------------------------------------------------------------------------
(* DeliverMessages and deliver.                                            *)

\* The event the loop of deliver is at: every pass that does not leave the
\* loop counts its event.
Current(r) == base[r] + ack[r] + 1

\* Mutant of Turn: the loop runs one event past the end of the batch.
TurnOffByOne(r, n) ==
    LET refused == n < size[r] /\ base[r] + n + 1 \in Poison IN
    /\ ack' = [ack EXCEPT ![r] = n]
    /\ failed' = [failed EXCEPT ![r] = refused]
    /\ pc' = [pc EXCEPT ![r] = IF n <= size[r] /\ ~refused THEN "html" ELSE "respond"]

\* Mutant of Turn: an event which is refused is counted all the same.
TurnCountsRefused(r, n) ==
    LET refused == n < size[r] /\ base[r] + n + 1 \in Poison IN
    /\ ack' = [ack EXCEPT ![r] = IF refused THEN n + 1 ELSE n]
    /\ failed' = [failed EXCEPT ![r] = refused]
    /\ pc' = [pc EXCEPT ![r] = IF n < size[r] /\ ~refused THEN "html" ELSE "respond"]

\* The head of the loop once n events of the batch are counted: nothing is
\* left, or the next event is refused before any attempt to send it, or it is
\* sent in the HTML mode.
Turn(r, n) ==
    LET refused == n < size[r] /\ base[r] + n + 1 \in Poison IN
    /\ ack' = [ack EXCEPT ![r] = n]
    /\ failed' = [failed EXCEPT ![r] = refused]
    /\ pc' = [pc EXCEPT ![r] = IF n < size[r] /\ ~refused THEN "html" ELSE "respond"]

DeliverMessages(r) ==
    /\ pc[r] = "decode"
    /\ IF Malformed \cap (base[r] + 1)..(base[r] + size[r]) = {}
         THEN Turn(r, 0)
         ELSE /\ pc' = [pc EXCEPT ![r] = "respond"]
              /\ failed' = [failed EXCEPT ![r] = TRUE]
              /\ UNCHANGED ack
    /\ UNCHANGED <<hub, base, size, goroutines, chat, blocked, faults>>

SendOk(r) ==
    /\ pc[r] \in Modes
    /\ ~blocked
    /\ posted' = [posted EXCEPT ![Current(r)] = @ + 1]
    /\ Turn(r, ack[r] + 1)
    /\ UNCHANGED <<hub, base, size, goroutines, skipped, blocked, faults>>

\* Every check of err that follows finds the flood error and starts one more
\* goroutine: three for the HTML mode, two for the plain one, one for the raw.
Spawned(mode) ==
    CASE mode = "html" -> 3 [] mode = "plain" -> 2 [] mode = "raw" -> 1

\* Mutant of SendFlood: the event is counted before the error is looked at.
SendFloodCounted(r) ==
    /\ pc[r] \in Modes
    /\ ~blocked
    /\ flood["user"] + flood["legacy"] + flood["warn"] + Spawned(pc[r]) <= MaxFlood
    /\ flood' = [flood EXCEPT !["user"] = @ + Spawned(pc[r])]
    /\ ack' = [ack EXCEPT ![r] = @ + 1]
    /\ failed' = [failed EXCEPT ![r] = TRUE]
    /\ pc' = [pc EXCEPT ![r] = "respond"]
    /\ UNCHANGED <<hub, base, size, warned, chat, blocked, faults>>

\* Mutant of SendFlood: the loop goes on with the next event.
SendFloodContinues(r) ==
    /\ pc[r] \in Modes
    /\ ~blocked
    /\ flood["user"] + flood["legacy"] + flood["warn"] + Spawned(pc[r]) <= MaxFlood
    /\ flood' = [flood EXCEPT !["user"] = @ + Spawned(pc[r])]
    /\ Turn(r, ack[r] + 1)
    /\ UNCHANGED <<hub, base, size, warned, chat, blocked, faults>>

SendFlood(r) ==
    /\ pc[r] \in Modes
    /\ ~blocked
    /\ flood["user"] + flood["legacy"] + flood["warn"] + Spawned(pc[r]) <= MaxFlood
    /\ flood' = [flood EXCEPT !["user"] = @ + Spawned(pc[r])]
    /\ failed' = [failed EXCEPT ![r] = TRUE]
    /\ pc' = [pc EXCEPT ![r] = "respond"]
    /\ UNCHANGED <<hub, base, size, ack, warned, chat, blocked, faults>>

\* 403 is looked for in the HTML mode only.
SendForbidden(r) ==
    /\ pc[r] = "html"
    /\ blocked
    /\ pc' = [pc EXCEPT ![r] = "unsubscribe"]
    /\ UNCHANGED <<hub, base, size, ack, failed, goroutines, chat, blocked, faults>>

\* Mutant of SendError: the event is not counted after the last fallback.
SendErrorUncounted(r) ==
    /\ pc[r] \in Modes
    /\ pc' = [pc EXCEPT ![r] = CASE @ = "html" -> "plain" [] @ = "plain" -> "raw"
                                 [] @ = "raw" -> "respond"]
    /\ failed' = [failed EXCEPT ![r] = pc[r] = "raw"]
    /\ UNCHANGED <<hub, base, size, ack, goroutines, chat, blocked, faults>>

\* Any other error, 403 in a fallback mode too.  The message may have been
\* posted although the call failed.  After the raw mode the event is skipped.
SendError(r) ==
    /\ pc[r] \in Modes
    /\ \/ UNCHANGED <<posted, faults>>
       \/ /\ ~blocked
          /\ Fault("ambiguous")
          /\ posted' = [posted EXCEPT ![Current(r)] = @ + 1]
    /\ \/ /\ pc[r] = "html"
          /\ pc' = [pc EXCEPT ![r] = "plain"]
          /\ UNCHANGED <<ack, failed, skipped>>
       \/ /\ pc[r] = "plain"
          /\ pc' = [pc EXCEPT ![r] = "raw"]
          /\ UNCHANGED <<ack, failed, skipped>>
       \/ /\ pc[r] = "raw"
          /\ pc' = [pc EXCEPT ![r] = "respond"]
          /\ ack' = [ack EXCEPT ![r] = @ + 1]
          /\ failed' = [failed EXCEPT ![r] = TRUE]
          /\ skipped' = skipped \cup {Current(r)}
    /\ UNCHANGED <<hub, base, size, goroutines, blocked>>

\* The bot is blocked: drop the callback, first by the URL with the user id.
UnsubscribeBlocked(r) ==
    /\ pc[r] = "unsubscribe"
    /\ \E ok \in BOOLEAN :
         /\ Unsubscribe(User, ok)
         /\ pc' = [pc EXCEPT ![r] = IF ok THEN "respond" ELSE "unsubscribeLegacy"]
    /\ UNCHANGED <<cursor, inflight, base, size, ack, failed, goroutines, chat, blocked>>

UnsubscribeBlockedLegacy(r) ==
    /\ pc[r] = "unsubscribeLegacy"
    /\ \E ok \in BOOLEAN :
         /\ Unsubscribe("legacy", ok)
         /\ failed' = [failed EXCEPT ![r] = ~ok]
    /\ pc' = [pc EXCEPT ![r] = "respond"]
    /\ UNCHANGED <<cursor, inflight, base, size, ack, goroutines, chat, blocked>>

\* Mutant of Accepted: a batch which fails half-way is refused as a whole.
AcceptedWhole(r) == ~failed[r]

\* 200 with X-Ack-Count unless the first event of the batch failed.
Accepted(r) == ~failed[r] \/ ack[r] > 0

\* Mutant of Respond: X-Ack-Count is the length of the batch.
RespondWholeBatch(r) ==
    /\ pc[r] = "respond"
    /\ IF inflight = r
         THEN /\ inflight' = None
              /\ cursor' = IF Accepted(r) THEN cursor + size[r] ELSE cursor
         ELSE UNCHANGED <<inflight, cursor>>
    /\ pc' = [pc EXCEPT ![r] = "idle"]
    /\ base' = [base EXCEPT ![r] = 0]
    /\ size' = [size EXCEPT ![r] = 0]
    /\ ack' = [ack EXCEPT ![r] = 0]
    /\ failed' = [failed EXCEPT ![r] = FALSE]
    /\ UNCHANGED <<registered, goroutines, chat, blocked, faults>>

\* The hub advances by what the answer to the request it waits for counts.
Respond(r) ==
    /\ pc[r] = "respond"
    /\ IF inflight = r
         THEN /\ inflight' = None
              /\ cursor' = IF Accepted(r) THEN cursor + ack[r] ELSE cursor
         ELSE UNCHANGED <<inflight, cursor>>
    /\ pc' = [pc EXCEPT ![r] = "idle"]
    /\ base' = [base EXCEPT ![r] = 0]
    /\ size' = [size EXCEPT ![r] = 0]
    /\ ack' = [ack EXCEPT ![r] = 0]
    /\ failed' = [failed EXCEPT ![r] = FALSE]
    /\ UNCHANGED <<registered, goroutines, chat, blocked, faults>>
-----------------------------------------------------------------------------
(* handleFloodError, one goroutine of those which are at the step.          *)

Advance(from, to) ==
    /\ flood[from] > 0
    /\ flood' = [flood EXCEPT ![from] = @ - 1, ![to] = @ + 1]

\* Mutant of FloodUnsubscribe: the URL without the user id is not tried.
FloodUnsubscribeOnce ==
    /\ \E ok \in BOOLEAN : Unsubscribe(User, ok)
    /\ Advance("user", "warn")
    /\ UNCHANGED <<cursor, inflight, call, warned, chat, blocked>>

FloodUnsubscribe ==
    /\ \E ok \in BOOLEAN :
         /\ Unsubscribe(User, ok)
         /\ Advance("user", IF ok THEN "warn" ELSE "legacy")
    /\ UNCHANGED <<cursor, inflight, call, warned, chat, blocked>>

\* The result of the second attempt is not looked at.
FloodUnsubscribeLegacy ==
    /\ \E ok \in BOOLEAN : Unsubscribe("legacy", ok)
    /\ Advance("legacy", "warn")
    /\ UNCHANGED <<cursor, inflight, call, warned, chat, blocked>>

\* After the pause Telegram asked for: send the warning until it is accepted,
\* or until the backoff gives up.
FloodWarn ==
    /\ flood["warn"] > 0
    /\ flood' = [flood EXCEPT !["warn"] = @ - 1]
    /\ \/ ~blocked /\ warned' = TRUE
       \/ UNCHANGED warned
    /\ UNCHANGED <<hub, call, chat, blocked, faults>>
-----------------------------------------------------------------------------
Send(r) == SendOk(r) \/ SendFlood(r) \/ SendForbidden(r) \/ SendError(r)

Deliver(r) ==
    \/ DeliverMessages(r)
    \/ Send(r)
    \/ UnsubscribeBlocked(r)
    \/ UnsubscribeBlockedLegacy(r)
    \/ Respond(r)

Environment == Timeout \/ Crash \/ Block

Next ==
    \/ \E r \in Requests : Post(r) \/ Deliver(r)
    \/ FloodUnsubscribe \/ FloodUnsubscribeLegacy \/ FloodWarn
    \/ Environment

\* The hub keeps posting, started handlers and goroutines run to their end.
\* Nothing makes faults happen or stop, beyond their number being finite.
Fairness ==
    /\ WF_vars(\E r \in Requests : Post(r))
    /\ \A r \in Requests : WF_vars(Deliver(r))
    /\ WF_vars(FloodUnsubscribe)
    /\ WF_vars(FloodUnsubscribeLegacy)
    /\ WF_vars(FloodWarn)

Spec == Init /\ [][Next]_vars

FairSpec == Spec /\ Fairness
-----------------------------------------------------------------------------
\* The variables have their types: no call ever counts more events than a batch can
\* have, and the hub's cursor stays within the feed (handler.go:78-231).
TypeOK ==
    /\ cursor \in 0..NumEvts
    /\ registered \subseteq Urls
    /\ inflight \in Requests \cup {None}
    /\ pc \in [Requests -> PCs]
    /\ base \in [Requests -> 0..NumEvts]
    /\ size \in [Requests -> 0..BatchMax]
    /\ ack \in [Requests -> 0..BatchMax]
    /\ failed \in [Requests -> BOOLEAN]
    /\ flood \in [Stages -> Nat]
    /\ warned \in BOOLEAN
    /\ posted \in [Evts -> Nat]
    /\ skipped \subseteq Evts
    /\ blocked \in BOOLEAN
    /\ faults \in 0..MaxFaults

Handled == {e \in Evts : posted[e] > 0} \cup skipped

\* The hub never forgets an event which neither reached the chat nor was given
\* up by the last fallback, whatever overlapping calls, lost answers and
\* crashes there were: countAck only counts what deliver dealt with.
NoLoss == 1..cursor \subseteq Handled

\* The chat never gets an event before it got, or gave up, all earlier ones.
InOrder == \A e \in Handled : 1..e \subseteq Handled

\* An event is posted once, and once more at most for each fault: a batch which
\* fails half-way is acknowledged up to the failure and so not posted anew.
DuplicatesBounded == \A e \in Evts : posted[e] <= 1 + faults

\* What a call has counted is handled, and the call the hub waits for has
\* started from the hub's cursor.
CallsSound ==
    /\ \A r \in Requests :
         /\ base[r] + size[r] <= NumEvts
         /\ ack[r] <= size[r]
         /\ pc[r] \in Modes => ack[r] < size[r]
         /\ pc[r] \in {"idle", "decode"} => ack[r] = 0
         /\ 1..(base[r] + ack[r]) \subseteq Handled
    /\ inflight # None => pc[inflight] # "idle" /\ base[inflight] = cursor

\* The inductive invariant.
Inv == TypeOK /\ NoLoss /\ InOrder /\ CallsSound

\* The feed the handler promises to be.
F == INSTANCE Feed WITH handled <- Handled,
                        acked <- cursor,
                        open <- Form \in registered

\* The handler implements the abstract feed: whatever overlaps and fails, the hub
\* sees an in-order, at-least-once consumer (handler.go:78-231).
ImplementsFeed == F!Spec

\* The hub's cursor does not stay for ever in front of an event it still posts,
\* except one which is refused before it is sent: no answer of Telegram, however
\* often repeated, and no overlap of calls keeps the hub and the handler in a
\* loop, and all events before a refused one get through (handler.go:154-231).
Progress ==
    <>[](cursor = NumEvts \/ Form \notin registered \/ cursor + 1 \in Poison)

\* The handler finds both of the URLs it tries to unsubscribe.
BothLinked == {User, "legacy"} \subseteq Linked

\* A flood stops the stream, by the URL with the user id or the one without, unless
\* the replica dies or Unsubscribe fails after the flood.  A chat registered under
\* both is not claimed about: one goroutine removes the first only
\* (handler.go:233-240).
FloodStopsStream ==
    \A n \in 0..MaxFaults :
        flood["user"] > 0 /\ faults = n ~>
            Form \notin registered \/ faults > n \/ BothLinked

\* The chat is told that the streaming stopped only when it has: unless a call
\* of Unsubscribe failed, or the chat was registered under both of these URLs, of
\* which one goroutine removes the first only (handler.go:233-259).
WarnedForAReason ==
    warned => Form \notin registered \/ faults > 0 \/ BothLinked

\* handler.go tells the chat "Results streaming stopped to prevent a further
\* flood": then the callback is not registered any more.
WarnedMeansStopped == warned => Form \notin registered

\* handler.go counts the event whose sending fails "to skip" it: the head of
\* the feed does not stay where it is.
HeadIsSkipped == <>(cursor > 0 \/ Form \notin registered)
=============================================================================
