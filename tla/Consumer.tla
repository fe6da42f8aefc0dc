------------------------------ MODULE Consumer ------------------------------
(***************************************************************************)
(* The consumer of the queue of created interests: ReceiveMessages of      *)
(* api/grpc/queue and the loop of consumeQueueInterestsCreated in main.go. *)
(* The queue pushes batches over a stream, the consumer acknowledges each  *)
(* batch after it is consumed, opens a new stream when the queue ends the  *)
(* old one, and takes the whole process down on any other error, provided  *)
(* it finds that error in err, a variable it shares with other goroutines. *)
(*                                                                         *)
(* One process is modelled; whatever supervises it starts it again.  The   *)
(* queue is outside the repository: it pushes again, over a new stream,    *)
(* what it did not get an acknowledgement for.                             *)
(***************************************************************************)
EXTENDS Integers

CONSTANTS
    NumEvts,        \* the queue holds the events 1..NumEvts
    BatchMax,       \* the batch size asked for
    MaxFaults       \* bound: how often the queue or the process fails

Evts == 1..NumEvts

ASSUME ConsumerAssumption ==
    /\ NumEvts \in Nat \ {0}
    /\ BatchMax \in Nat \ {0}
    /\ MaxFaults \in Nat

VARIABLES
    \* the queue
    cursor,         \* the events 1..cursor are acknowledged
    stream,         \* the stream, as the queue sees it
    waits,          \* the queue waits for an acknowledgement
    \* what is on its way
    inbox,          \* size of the batch ReceiveMessages has not received yet
    outbox,         \* acknowledged count the queue has not received yet
    \* the consumer
    pc,
    err,            \* err # nil, for the err of main
    base,           \* the last batch pushed is base + 1 .. base + its size
    got,            \* size of the batch received
    consumed,       \* how many times each event was consumed
    panics,         \* how often the error of the consumer took the process down
    faults

queue == <<cursor, stream, waits>>
transit == <<inbox, outbox>>
vars == <<queue, transit, pc, err, base, got, consumed, panics, faults>>

Init ==
    /\ cursor = 0
    /\ stream = "none"
    /\ waits = FALSE
    /\ inbox = 0
    /\ outbox = 0
    /\ pc = "start"
    /\ err = FALSE
    /\ base = 0
    /\ got = 0
    /\ consumed = [e \in Evts |-> 0]
    /\ panics = 0
    /\ faults = 0

Fault ==
    /\ faults < MaxFaults
    /\ faults' = faults + 1
-----------------------------------------------------------------------------
(* The queue.                                                              *)

Push ==
    /\ stream = "open"
    /\ ~waits
    /\ \E n \in 1..BatchMax : cursor + n <= NumEvts /\ inbox' = n
    /\ base' = cursor
    /\ waits' = TRUE
    /\ UNCHANGED <<cursor, stream, outbox, pc, err, got, consumed, panics, faults>>

TakeAck ==
    /\ stream = "open"
    /\ outbox > 0
    /\ cursor' = cursor + outbox
    /\ outbox' = 0
    /\ waits' = FALSE
    /\ UNCHANGED <<stream, inbox, pc, err, base, got, consumed, panics, faults>>

\* The queue ends the stream, or the stream breaks.  What the queue sent before
\* is still received, what it did not read is lost.
EndStream(how) ==
    /\ stream = "open"
    /\ Fault
    /\ stream' = how
    /\ outbox' = 0
    /\ waits' = FALSE
    /\ UNCHANGED <<cursor, inbox, pc, err, base, got, consumed, panics>>
-----------------------------------------------------------------------------
(* The process.                                                            *)

\* The process dies and is started again: main.go, then ReceiveMessages.
Restart ==
    /\ pc' = "start"
    /\ err' = FALSE
    /\ stream' = "none"
    /\ waits' = FALSE
    /\ inbox' = 0
    /\ outbox' = 0
    /\ got' = 0

\* Some other part of the process panics, or the process is killed.
Crash ==
    /\ pc # "panic"
    /\ Fault
    /\ Restart
    /\ UNCHANGED <<cursor, base, consumed, panics>>

Panic ==
    /\ pc = "panic"
    /\ Restart
    /\ panics' = panics + 1
    /\ UNCHANGED <<cursor, base, consumed, faults>>

\* Mutant of SetConsumer: that the queue exists already is an error.
SetConsumerOnce ==
    /\ pc = "start"
    /\ pc' = IF panics > 0 THEN "panic" ELSE "connect"
    /\ UNCHANGED <<queue, transit, err, base, got, consumed, panics, faults>>

SetConsumer ==
    /\ pc = "start"
    /\ \/ pc' = "connect" /\ UNCHANGED faults
       \/ pc' = "panic" /\ Fault
    /\ UNCHANGED <<queue, transit, err, base, got, consumed, panics>>

\* The loop ends with an error, which is assigned to err and looked at next.
Returns == pc' = "check" /\ err' = TRUE

\* The stream is opened and the start command sent.
Connect ==
    /\ pc = "connect"
    /\ \/ pc' = "recv" /\ stream' = "open" /\ UNCHANGED <<err, faults>>
       \/ Returns /\ stream' = "none" /\ Fault
    /\ waits' = FALSE
    /\ UNCHANGED <<cursor, transit, base, got, consumed, panics>>

\* Mutant of Recv: the loop of ReceiveMessages goes on after the end of the stream.
RecvEofIgnored ==
    /\ pc = "recv"
    /\ \/ /\ inbox > 0
          /\ got' = inbox
          /\ inbox' = 0
          /\ pc' = "consume"
          /\ UNCHANGED err
       \/ /\ inbox = 0
          /\ \/ stream = "ended" /\ pc' = "recv" /\ UNCHANGED err
             \/ stream = "broken" /\ Returns
          /\ UNCHANGED <<got, inbox>>
    /\ UNCHANGED <<queue, outbox, base, consumed, panics, faults>>

\* The end of the stream (io.EOF) is no error, so the loop opens another one.
Recv ==
    /\ pc = "recv"
    /\ \/ /\ inbox > 0
          /\ got' = inbox
          /\ inbox' = 0
          /\ pc' = "consume"
          /\ UNCHANGED err
       \/ /\ inbox = 0
          /\ \/ stream = "ended" /\ pc' = "connect" /\ UNCHANGED err
             \/ stream = "broken" /\ Returns
          /\ UNCHANGED <<got, inbox>>
    /\ UNCHANGED <<queue, outbox, base, consumed, panics, faults>>

\* Mutant of Consume: it fails after the first event of the batch, and the
\* batch is acknowledged all the same.
ConsumeFirst ==
    /\ pc = "consume"
    /\ consumed' = [consumed EXCEPT ![base + 1] = @ + 1]
    /\ pc' = "ack"
    /\ UNCHANGED <<queue, transit, err, base, got, panics, faults>>

\* consume takes the whole batch and never fails.
Consume ==
    /\ pc = "consume"
    /\ consumed' = [e \in Evts |-> IF e \in (base + 1)..(base + got)
                                     THEN consumed[e] + 1 ELSE consumed[e]]
    /\ pc' = "ack"
    /\ UNCHANGED <<queue, transit, err, base, got, panics, faults>>

\* Mutant of Ack: the offset is sent instead of the count.
AckOffset ==
    /\ pc = "ack"
    /\ \/ stream = "open" /\ outbox' = base + got /\ pc' = "recv" /\ UNCHANGED err
       \/ stream # "open" /\ UNCHANGED outbox /\ pc' = "recv" /\ UNCHANGED err
       \/ stream # "open" /\ UNCHANGED outbox /\ Returns
    /\ got' = 0
    /\ UNCHANGED <<queue, inbox, base, consumed, panics, faults>>

\* Mutant of Ack: only the first event of the batch is acknowledged.
AckFirst ==
    /\ pc = "ack"
    /\ \/ stream = "open" /\ outbox' = 1 /\ pc' = "recv" /\ UNCHANGED err
       \/ stream # "open" /\ UNCHANGED outbox /\ pc' = "recv" /\ UNCHANGED err
       \/ stream # "open" /\ UNCHANGED outbox /\ Returns
    /\ got' = 0
    /\ UNCHANGED <<queue, inbox, base, consumed, panics, faults>>

\* Over a stream which is over, Send may still succeed, the acknowledgement
\* being lost, or fail: its io.EOF is an error, unlike that of Recv.
Ack ==
    /\ pc = "ack"
    /\ \/ stream = "open" /\ outbox' = got /\ pc' = "recv" /\ UNCHANGED err
       \/ stream # "open" /\ UNCHANGED outbox /\ pc' = "recv" /\ UNCHANGED err
       \/ stream # "open" /\ UNCHANGED outbox /\ Returns
    /\ got' = 0
    /\ UNCHANGED <<queue, inbox, base, consumed, panics, faults>>

\* The goroutine panics if there is an error in err still, and ends otherwise:
\* then nobody consumes while the process lives.
Check ==
    /\ pc = "check"
    /\ pc' = IF err THEN "panic" ELSE "ended"
    /\ UNCHANGED <<queue, transit, err, base, got, consumed, panics, faults>>

\* Another goroutine assigns err: main itself while it goes on starting, and the
\* handlers of chat_member updates ever after.
Assign ==
    /\ pc \notin {"start", "panic"}
    /\ err' \in BOOLEAN
    /\ UNCHANGED <<queue, transit, pc, base, got, consumed, panics, faults>>
-----------------------------------------------------------------------------
Queue == Push \/ TakeAck

Process == Panic \/ SetConsumer \/ Connect \/ Recv \/ Consume \/ Ack \/ Check

Next == Queue \/ Process \/ Assign \/ Crash \/ \E how \in {"ended", "broken"} : EndStream(how)

Spec == Init /\ [][Next]_vars

\* The queue pushes and takes acknowledgements, the process runs and is started
\* again after a panic.  Faults are finite in number and nothing forces them.
FairSpec == Spec /\ WF_vars(Push) /\ WF_vars(TakeAck) /\ WF_vars(Process)
-----------------------------------------------------------------------------
\* The variables have their types: no acknowledgement counts more events than a
\* batch can have, so the cursor stays within the queue (queue/service.go:58-98).
TypeOK ==
    /\ cursor \in 0..NumEvts
    /\ stream \in {"none", "open", "ended", "broken"}
    /\ waits \in BOOLEAN
    /\ inbox \in 0..BatchMax
    /\ outbox \in 0..BatchMax
    /\ pc \in {"start", "connect", "recv", "consume", "ack", "check", "panic", "ended"}
    /\ err \in BOOLEAN
    /\ base \in 0..NumEvts
    /\ got \in 0..BatchMax
    /\ consumed \in [Evts -> Nat]
    /\ panics \in Nat
    /\ faults \in 0..MaxFaults

\* An event is consumed once, and once more at most for each failure of the
\* stream or of the process: reconnecting alone repeats nothing.
ConsumedBounded == \A e \in Evts : consumed[e] <= 1 + faults

\* The process takes itself down at most once for each failure: neither the end
\* of a stream nor the restart makes it panic again and again.
NoPanicLoop == panics <= faults

\* The feed the consumer promises to be.
F == INSTANCE Feed WITH handled <- {e \in Evts : consumed[e] > 0},
                        acked <- cursor,
                        open <- TRUE

\* The consumer implements the abstract feed: the queue never forgets an event
\* which was not consumed, and events are consumed in order at first, whatever
\* stream or process ends in between (queue/service.go:43-99, main.go:393-425).
ImplementsFeed == F!Spec

\* All events are eventually acknowledged, whatever streams end or break and
\* however often the process is restarted, unless another goroutine overwrites
\* the error of the consumer before it is looked at, and nothing ends the process
\* which has no consumer since (main.go:84-98, 363).
AllAcknowledged == <>[](cursor = NumEvts \/ pc = "ended")

\* main.go panics on any error of the consumer: no process lives without one.
NeverAbandoned == pc # "ended"
=============================================================================
