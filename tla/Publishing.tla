----------------------------- MODULE Publishing -----------------------------
(***************************************************************************)
(* Publishing Telegram messages to Awakari: the posts of channels the bot  *)
(* is in (service/messages/channel.go), retried with a backoff, and the    *)
(* messages users reply to the /pub prompt (service/messages/publish.go),  *)
(* both over the client of the publishing service (api/http/pub).          *)
(*                                                                         *)
(* Handlers of different messages run concurrently and share the limit the *)
(* service keeps.  An answer of the service may be lost after it accepted  *)
(* the event: retries carry the id of the first attempt.                   *)
(***************************************************************************)
EXTENDS Integers

CONSTANTS
    Posts,          \* posts of channels
    Replies,        \* messages replied to the prompt
    NoBot,          \* posts tagged #nobot
    Refused,        \* messages the service refuses: 400 or 401
    Limit,          \* how many events the service accepts
    MaxTries,       \* bound: attempts within the 10 seconds of the backoff
    MaxFaults       \* bound: failures of the service or of the network

Messages == Posts \cup Replies

ASSUME PublishingAssumption ==
    /\ Posts \cap Replies = {}
    /\ NoBot \subseteq Posts
    /\ Refused \subseteq Messages
    /\ Limit \in Nat
    /\ MaxTries \in Nat \ {0}
    /\ MaxFaults \in Nat

VARIABLES
    accepted,       \* how many copies of the event of a message the service has
    used,           \* how many events it has accepted
    pc,             \* where the handler of a message is
    tries,          \* attempts made after the first one failed
    outcome,        \* the error of the last attempt, or what the user is told
    faults

vars == <<accepted, used, pc, tries, outcome, faults>>

Init ==
    /\ accepted = [m \in Messages |-> 0]
    /\ used = 0
    /\ pc = [m \in Messages |-> "new"]
    /\ tries = [m \in Messages |-> 0]
    /\ outcome = [m \in Messages |-> "none"]
    /\ faults = 0

\* Mutant of Attempt: any answer counts as an acknowledgement.
AttemptUnchecked(m, err) ==
    \/ /\ err = "nil"
       /\ accepted' = [accepted EXCEPT ![m] = @ + 1]
       /\ used' = used + 1
       /\ UNCHANGED faults
    \/ /\ err = "nil"
       /\ faults < MaxFaults
       /\ faults' = faults + 1
       /\ UNCHANGED <<accepted, used>>

\* Publish of api/http/pub.  No acknowledgement (503, 408, ackCount < 1, an
\* unreadable answer) and transport errors do not tell whether the event was
\* accepted.
Attempt(m, err) ==
    \/ /\ err = "refused"
       /\ m \in Refused
       /\ UNCHANGED <<accepted, used, faults>>
    \/ /\ err = "limit"
       /\ m \notin Refused
       /\ used = Limit
       /\ UNCHANGED <<accepted, used, faults>>
    \/ /\ err = "nil"
       /\ m \notin Refused
       /\ used < Limit
       /\ accepted' = [accepted EXCEPT ![m] = @ + 1]
       /\ used' = used + 1
       /\ UNCHANGED faults
    \/ /\ err = "noAck"
       /\ faults < MaxFaults
       /\ faults' = faults + 1
       /\ \/ UNCHANGED <<accepted, used>>
          \/ /\ m \notin Refused
             /\ used < Limit
             /\ accepted' = [accepted EXCEPT ![m] = @ + 1]
             /\ used' = used + 1

Errors == {"nil", "refused", "limit", "noAck"}

Goto(m, l) == pc' = [pc EXCEPT ![m] = l]
-----------------------------------------------------------------------------
(* Publish of channel.go.                                                  *)

SkipNoBot(m) ==
    /\ pc[m] = "new"
    /\ m \in NoBot
    /\ Goto(m, "done")
    /\ UNCHANGED <<accepted, used, tries, outcome, faults>>

\* Mutant of PublishPost: a failed first attempt is not retried.
PublishPostOnce(m) ==
    /\ pc[m] = "new"
    /\ m \in Posts \ NoBot
    /\ \E err \in Errors :
         /\ Attempt(m, err)
         /\ outcome' = [outcome EXCEPT ![m] = err]
         /\ Goto(m, "done")
    /\ UNCHANGED tries

PublishPost(m) ==
    /\ pc[m] = "new"
    /\ m \in Posts \ NoBot
    /\ \E err \in Errors :
         /\ Attempt(m, err)
         /\ outcome' = [outcome EXCEPT ![m] = err]
         /\ Goto(m, IF err = "nil" THEN "done" ELSE "retry")
    /\ UNCHANGED tries

\* Mutant of Retry: an acknowledged event is sent once more.
RetryAnyway(m) ==
    /\ pc[m] = "retry"
    /\ tries[m] < MaxTries
    /\ tries' = [tries EXCEPT ![m] = @ + 1]
    /\ \E err \in Errors :
         /\ Attempt(m, err)
         /\ outcome' = [outcome EXCEPT ![m] = err]
         /\ Goto(m, IF tries[m] + 1 = MaxTries THEN "done" ELSE "retry")

\* Mutant of Retry: an error is retried for ever.
RetryForever(m) ==
    /\ pc[m] = "retry"
    /\ tries' = [tries EXCEPT ![m] = @ + 1]
    /\ \E err \in Errors :
         /\ Attempt(m, err)
         /\ outcome' = [outcome EXCEPT ![m] = err]
         /\ Goto(m, IF err = "nil" THEN "done" ELSE "retry")

\* The backoff retries whatever the error is, until it succeeds or the time is
\* up; the last error is returned.
Retry(m) ==
    /\ pc[m] = "retry"
    /\ tries[m] < MaxTries
    /\ tries' = [tries EXCEPT ![m] = @ + 1]
    /\ \E err \in Errors :
         /\ Attempt(m, err)
         /\ outcome' = [outcome EXCEPT ![m] = err]
         /\ Goto(m, IF err = "nil" \/ tries[m] + 1 = MaxTries THEN "done" ELSE "retry")
-----------------------------------------------------------------------------
(* PublishBasicReplyHandlerFunc and publish of publish.go.                  *)

PublishReply(m) ==
    /\ pc[m] = "new"
    /\ m \in Replies
    /\ \E err \in Errors :
         /\ Attempt(m, err)
         /\ outcome' = [outcome EXCEPT ![m] = err]
    /\ Goto(m, "answer")
    /\ UNCHANGED tries

\* The limit is told apart; any other result, errors too, is announced as
\* "Message published, id: ...".
AnswerReply(m) ==
    /\ pc[m] = "answer"
    /\ outcome' = [outcome EXCEPT ![m] = IF @ = "limit" THEN "limitReached" ELSE "published"]
    /\ Goto(m, "done")
    /\ UNCHANGED <<accepted, used, tries, faults>>
-----------------------------------------------------------------------------
Handle(m) ==
    SkipNoBot(m) \/ PublishPost(m) \/ Retry(m) \/ PublishReply(m) \/ AnswerReply(m)

Next == \E m \in Messages : Handle(m)

Spec == Init /\ [][Next]_vars
-----------------------------------------------------------------------------
\* The variables have their types: the service never accepts more than its limit,
\* and a backoff ends after MaxTries (channel.go:40-86).
TypeOK ==
    /\ accepted \in [Messages -> Nat]
    /\ used \in 0..Limit
    /\ pc \in [Messages -> {"new", "retry", "answer", "done"}]
    /\ tries \in [Messages -> 0..MaxTries]
    /\ outcome \in [Messages -> Errors \cup {"none", "published", "limitReached"}]
    /\ faults \in 0..MaxFaults

\* A post whose handler reports no error has been accepted: an answer without
\* an acknowledgement is never taken for one.
SuccessMeansAccepted == \A m \in Posts : outcome[m] = "nil" => accepted[m] > 0

\* All copies of an event but one are due to a lost answer: retries stop at the
\* first acknowledgement.
CopiesBounded == \A m \in Messages : accepted[m] <= 1 + faults

\* A post is given up only when the service refuses it or its limit is reached,
\* unless the service fails as often as the backoff tries.
GivenUpForAReason ==
    \A m \in Posts \ NoBot :
        pc[m] = "done" /\ accepted[m] = 0 =>
            m \in Refused \/ used = Limit \/ faults > MaxTries

\* publish.go replies "Message published, id: ...": then the message is.
PublishedMeansAccepted ==
    \A m \in Replies : outcome[m] = "published" => accepted[m] > 0
=============================================================================
