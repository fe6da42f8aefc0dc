--------------------------- MODULE ConsumerProofs ---------------------------
(***************************************************************************)
(* The consumer implements the feed, repeats an event only after a failure *)
(* and takes the process down no more often than something fails, for any  *)
(* number of events and failures and any batch size.                       *)
(***************************************************************************)
EXTENDS Consumer, TLAPS

USE ConsumerAssumption DEF Evts

Consumed == {e \in Evts : consumed[e] > 0}

\* Where a batch may be: nowhere before a stream is open, in one place at a time
\* after that, and acknowledgements only on an open stream.
OneBatch ==
    /\ pc \in {"recv", "consume", "ack"} => stream # "none"
    /\ pc \in {"start", "connect", "check", "panic", "ended"} => inbox = 0 /\ stream # "open"
    /\ pc = "start" => stream = "none"
    /\ pc \in {"consume", "ack"} <=> got > 0
    /\ got > 0 => inbox = 0 /\ outbox = 0
    /\ inbox > 0 => outbox = 0
    /\ stream = "open" /\ ~waits => inbox = 0 /\ got = 0 /\ outbox = 0
    /\ stream # "open" => outbox = 0

\* A batch follows what is acknowledged, and lies within the queue.
BatchAtCursor ==
    /\ inbox > 0 \/ got > 0 \/ outbox > 0 => base = cursor
    /\ base + inbox <= NumEvts /\ base + got <= NumEvts /\ base + outbox <= NumEvts

\* What is acknowledged, or about to be, is consumed, and all that precedes it.
AcksSound ==
    /\ 1..cursor \subseteq Consumed
    /\ \A e \in Consumed : 1..e \subseteq Consumed
    /\ pc = "ack" => 1..(base + got) \subseteq Consumed
    /\ outbox > 0 => 1..(base + outbox) \subseteq Consumed

\* A failure pays for each repetition: in advance, when the stream is over before
\* its last batch is consumed, and afterwards, when it is acknowledged in time.
Owed == stream = "open" /\ (pc = "ack" \/ outbox > 0)
Paid == stream # "open" /\ (pc = "consume" \/ inbox > 0)

RepetitionsPaid ==
    \A e \in Evts :
        /\ consumed[e] <= 1 + faults
        /\ e > cursor /\ (~Owed \/ e > base + got + outbox) => consumed[e] <= faults
        /\ e > cursor /\ Paid => consumed[e] + 1 <= faults

\* A failure pays for each panic in advance.
PanicsPaid ==
    /\ panics <= faults
    /\ stream \in {"ended", "broken"} \/ pc \in {"check", "panic", "ended"}
         => panics + 1 <= faults

\* The inductive invariant.
Inv == TypeOK /\ OneBatch /\ BatchAtCursor /\ AcksSound /\ RepetitionsPaid /\ PanicsPaid

\* The invariant holds before the process is started.
LEMMA InitInv == Init => Inv
<1> SUFFICES ASSUME Init PROVE Inv
  OBVIOUS
<1>1. waits \in BOOLEAN /\ err \in BOOLEAN
  BY Zenon DEF Init
<1>2. TypeOK
  BY <1>1 DEF Init, TypeOK
<1>3. OneBatch /\ BatchAtCursor /\ PanicsPaid
  BY DEF Init, OneBatch, BatchAtCursor, PanicsPaid
<1>4. AcksSound /\ RepetitionsPaid
  BY DEF Init, AcksSound, RepetitionsPaid, Consumed, Owed, Paid
<1> QED
  BY <1>2, <1>3, <1>4 DEF Inv

\* A batch is pushed from the cursor on, when nothing of an earlier one is left.
LEMMA PushInv ==
    ASSUME Inv, Push
    PROVE  Inv'
<1>1. TypeOK'
  <2>1. waits' \in BOOLEAN /\ err' \in BOOLEAN
    BY Zenon DEF Push, Inv, TypeOK
  <2> QED
    BY <2>1 DEF Inv, TypeOK, OneBatch, BatchAtCursor, Push, queue, transit
<1>2. OneBatch'
  BY DEF Inv, TypeOK, OneBatch, Push, queue, transit
<1>3. BatchAtCursor'
  BY DEF Inv, TypeOK, OneBatch, BatchAtCursor, Push, queue, transit
<1>4. AcksSound'
  BY DEF Inv, TypeOK, OneBatch, BatchAtCursor, AcksSound, Consumed, Push, queue, transit
<1>5. RepetitionsPaid'
  BY DEF Inv, TypeOK, OneBatch, BatchAtCursor, RepetitionsPaid, Owed, Paid, Push, queue, transit
<1>6. PanicsPaid'
  BY DEF Inv, TypeOK, OneBatch, PanicsPaid, Push, queue, transit
<1> QED
  BY <1>1, <1>2, <1>3, <1>4, <1>5, <1>6 DEF Inv

\* The cursor moves over events which are consumed.
LEMMA TakeAckInv ==
    ASSUME Inv, TakeAck
    PROVE  Inv'
<1>1. TypeOK'
  <2>1. waits' \in BOOLEAN /\ err' \in BOOLEAN
    BY Zenon DEF TakeAck, Inv, TypeOK
  <2> QED
    BY <2>1 DEF Inv, TypeOK, OneBatch, BatchAtCursor, TakeAck, queue, transit
<1>2. OneBatch'
  BY DEF Inv, TypeOK, OneBatch, TakeAck, queue, transit
<1>3. BatchAtCursor'
  BY DEF Inv, TypeOK, OneBatch, BatchAtCursor, TakeAck, queue, transit
<1>4. AcksSound'
  BY DEF Inv, TypeOK, OneBatch, BatchAtCursor, AcksSound, Consumed, TakeAck, queue, transit
<1>5. RepetitionsPaid'
  BY DEF Inv, TypeOK, OneBatch, BatchAtCursor, RepetitionsPaid, Owed, Paid, TakeAck, queue, transit
<1>6. PanicsPaid'
  BY DEF Inv, TypeOK, OneBatch, PanicsPaid, TakeAck, queue, transit
<1> QED
  BY <1>1, <1>2, <1>3, <1>4, <1>5, <1>6 DEF Inv

\* A crash loses the batch and pays for its repetition.
LEMMA CrashInv ==
    ASSUME Inv, Crash
    PROVE  Inv'
<1>1. TypeOK'
  <2>1. waits' \in BOOLEAN /\ err' \in BOOLEAN
    BY Zenon DEF Crash, Restart
  <2> QED
    BY <2>1 DEF Inv, TypeOK, OneBatch, BatchAtCursor, Crash, Restart, Fault, queue, transit
<1>2. OneBatch'
  BY DEF Inv, TypeOK, OneBatch, Crash, Restart, Fault, queue, transit
<1>3. BatchAtCursor'
  BY DEF Inv, TypeOK, OneBatch, BatchAtCursor, Crash, Restart, Fault, queue, transit
<1>4. AcksSound'
  BY DEF Inv, TypeOK, OneBatch, BatchAtCursor, AcksSound, Consumed, Crash, Restart, Fault, queue, transit
<1>5. RepetitionsPaid'
  BY DEF Inv, TypeOK, OneBatch, BatchAtCursor, RepetitionsPaid, Owed, Paid, Crash, Restart, Fault, queue, transit
<1>6. PanicsPaid'
  BY DEF Inv, TypeOK, OneBatch, PanicsPaid, Crash, Restart, Fault, queue, transit
<1> QED
  BY <1>1, <1>2, <1>3, <1>4, <1>5, <1>6 DEF Inv

\* A panic loses the batch, which was paid for by the failure that led to it.
LEMMA PanicInv ==
    ASSUME Inv, Panic
    PROVE  Inv'
<1>1. TypeOK'
  <2>1. waits' \in BOOLEAN /\ err' \in BOOLEAN
    BY Zenon DEF Panic, Restart
  <2> QED
    BY <2>1 DEF Inv, TypeOK, OneBatch, BatchAtCursor, Panic, Restart, queue, transit
<1>2. OneBatch'
  BY DEF Inv, TypeOK, OneBatch, Panic, Restart, queue, transit
<1>3. BatchAtCursor'
  BY DEF Inv, TypeOK, OneBatch, BatchAtCursor, Panic, Restart, queue, transit
<1>4. AcksSound'
  BY DEF Inv, TypeOK, OneBatch, BatchAtCursor, AcksSound, Consumed, Panic, Restart, queue, transit
<1>5. RepetitionsPaid'
  BY DEF Inv, TypeOK, OneBatch, BatchAtCursor, RepetitionsPaid, Owed, Paid, Panic, Restart, queue, transit
<1>6. PanicsPaid'
  BY DEF Inv, TypeOK, OneBatch, PanicsPaid, Panic, Restart, queue, transit
<1> QED
  BY <1>1, <1>2, <1>3, <1>4, <1>5, <1>6 DEF Inv

\* Setting the consumer up touches no batch.
LEMMA SetConsumerInv ==
    ASSUME Inv, SetConsumer
    PROVE  Inv'
<1>1. TypeOK'
  <2>1. err' \in BOOLEAN
    BY Zenon DEF Inv, TypeOK, SetConsumer
  <2> QED
    BY <2>1 DEF Inv, TypeOK, OneBatch, BatchAtCursor, SetConsumer, Fault, queue, transit
<1>2. OneBatch'
  BY DEF Inv, TypeOK, OneBatch, SetConsumer, Fault, queue, transit
<1>3. BatchAtCursor'
  BY DEF Inv, TypeOK, OneBatch, BatchAtCursor, SetConsumer, Fault, queue, transit
<1>4. AcksSound'
  BY DEF Inv, TypeOK, OneBatch, BatchAtCursor, AcksSound, Consumed, SetConsumer, Fault, queue, transit
<1>5. RepetitionsPaid'
  BY DEF Inv, TypeOK, OneBatch, BatchAtCursor, RepetitionsPaid, Owed, Paid, SetConsumer, Fault, queue, transit
<1>6. PanicsPaid'
  BY DEF Inv, TypeOK, OneBatch, PanicsPaid, SetConsumer, Fault, queue, transit
<1> QED
  BY <1>1, <1>2, <1>3, <1>4, <1>5, <1>6 DEF Inv

\* A new stream is opened when no batch is left on the old one.
LEMMA ConnectInv ==
    ASSUME Inv, Connect
    PROVE  Inv'
<1>1. TypeOK'
  <2>1. waits' \in BOOLEAN /\ err' \in BOOLEAN
    BY Zenon DEF Inv, TypeOK, Connect, Returns
  <2> QED
    BY <2>1 DEF Inv, TypeOK, OneBatch, BatchAtCursor, Connect, Returns, Fault, queue, transit
<1>2. OneBatch'
  BY DEF Inv, TypeOK, OneBatch, Connect, Returns, Fault, queue, transit
<1>3. BatchAtCursor'
  BY DEF Inv, TypeOK, OneBatch, BatchAtCursor, Connect, Returns, Fault, queue, transit
<1>4. AcksSound'
  BY DEF Inv, TypeOK, OneBatch, BatchAtCursor, AcksSound, Consumed, Connect, Returns, Fault, queue, transit
<1>5. RepetitionsPaid'
  BY DEF Inv, TypeOK, OneBatch, BatchAtCursor, RepetitionsPaid, Owed, Paid, Connect, Returns, Fault, queue, transit
<1>6. PanicsPaid'
  BY DEF Inv, TypeOK, OneBatch, PanicsPaid, Connect, Returns, Fault, queue, transit
<1> QED
  BY <1>1, <1>2, <1>3, <1>4, <1>5, <1>6 DEF Inv

\* A batch received leaves the stream; a stream which is over has paid for what follows.
LEMMA RecvInv ==
    ASSUME Inv, Recv
    PROVE  Inv'
<1>1. TypeOK'
  <2>1. err' \in BOOLEAN
    BY Zenon DEF Inv, TypeOK, Recv, Returns
  <2> QED
    BY <2>1 DEF Inv, TypeOK, OneBatch, BatchAtCursor, Recv, Returns, queue, transit
<1>2. OneBatch'
  BY DEF Inv, TypeOK, OneBatch, Recv, Returns, queue, transit
<1>3. BatchAtCursor'
  BY DEF Inv, TypeOK, OneBatch, BatchAtCursor, Recv, Returns, queue, transit
<1>4. AcksSound'
  BY DEF Inv, TypeOK, OneBatch, BatchAtCursor, AcksSound, Consumed, Recv, Returns, queue, transit
<1>5. RepetitionsPaid'
  BY DEF Inv, TypeOK, OneBatch, BatchAtCursor, RepetitionsPaid, Owed, Paid, Recv, Returns, queue, transit
<1>6. PanicsPaid'
  BY DEF Inv, TypeOK, OneBatch, PanicsPaid, Recv, Returns, queue, transit
<1> QED
  BY <1>1, <1>2, <1>3, <1>4, <1>5, <1>6 DEF Inv

\* Consuming a batch at the cursor keeps the consumed events in order.
LEMMA ConsumeInv ==
    ASSUME Inv, Consume
    PROVE  Inv'
<1>1. TypeOK'
  <2>1. err' \in BOOLEAN
    BY Zenon DEF Inv, TypeOK, Consume
  <2> QED
    BY <2>1 DEF Inv, TypeOK, OneBatch, BatchAtCursor, Consume, queue, transit
<1>2. OneBatch'
  BY DEF Inv, TypeOK, OneBatch, Consume, queue, transit
<1>3. BatchAtCursor'
  BY DEF Inv, TypeOK, OneBatch, BatchAtCursor, Consume, queue, transit
<1>4. AcksSound'
  BY DEF Inv, TypeOK, OneBatch, BatchAtCursor, AcksSound, Consumed, Consume, queue, transit
<1>5. RepetitionsPaid'
  BY DEF Inv, TypeOK, OneBatch, BatchAtCursor, RepetitionsPaid, Owed, Paid, Consume, queue, transit
<1>6. PanicsPaid'
  BY DEF Inv, TypeOK, OneBatch, PanicsPaid, Consume, queue, transit
<1> QED
  BY <1>1, <1>2, <1>3, <1>4, <1>5, <1>6 DEF Inv

\* The acknowledgement is sent, or lost with its stream.
LEMMA AckInv ==
    ASSUME Inv, Ack
    PROVE  Inv'
<1>1. TypeOK'
  <2>1. err' \in BOOLEAN
    BY Zenon DEF Inv, TypeOK, Ack, Returns
  <2> QED
    BY <2>1 DEF Inv, TypeOK, OneBatch, BatchAtCursor, Ack, Returns, queue, transit
<1>2. OneBatch'
  BY DEF Inv, TypeOK, OneBatch, Ack, Returns, queue, transit
<1>3. BatchAtCursor'
  BY DEF Inv, TypeOK, OneBatch, BatchAtCursor, Ack, Returns, queue, transit
<1>4. AcksSound'
  BY DEF Inv, TypeOK, OneBatch, BatchAtCursor, AcksSound, Consumed, Ack, Returns, queue, transit
<1>5. RepetitionsPaid'
  BY DEF Inv, TypeOK, OneBatch, BatchAtCursor, RepetitionsPaid, Owed, Paid, Ack, Returns, queue, transit
<1>6. PanicsPaid'
  BY DEF Inv, TypeOK, OneBatch, PanicsPaid, Ack, Returns, queue, transit
<1> QED
  BY <1>1, <1>2, <1>3, <1>4, <1>5, <1>6 DEF Inv

\* The end of a stream loses the acknowledgement on its way, and pays for it.
LEMMA EndStreamInv ==
    ASSUME Inv, NEW how \in {"ended", "broken"}, EndStream(how)
    PROVE  Inv'
<1>1. TypeOK'
  <2>1. waits' \in BOOLEAN /\ err' \in BOOLEAN
    BY Zenon DEF EndStream, Inv, TypeOK
  <2> QED
    BY <2>1 DEF Inv, TypeOK, EndStream, Fault
<1>2. OneBatch'
  BY DEF Inv, TypeOK, OneBatch, EndStream, Fault
<1>3. BatchAtCursor'
  BY DEF Inv, TypeOK, OneBatch, BatchAtCursor, EndStream, Fault
<1>4. AcksSound'
  BY DEF Inv, TypeOK, OneBatch, AcksSound, Consumed, EndStream, Fault
<1>5. RepetitionsPaid'
  BY DEF Inv, TypeOK, OneBatch, RepetitionsPaid, Owed, Paid, EndStream, Fault
<1>6. PanicsPaid'
  BY DEF Inv, TypeOK, OneBatch, PanicsPaid, EndStream, Fault
<1> QED
  BY <1>1, <1>2, <1>3, <1>4, <1>5, <1>6 DEF Inv

\* The goroutine ends with an error which is paid for, seen or not.
LEMMA CheckInv ==
    ASSUME Inv, Check
    PROVE  Inv'
<1>1. TypeOK'
  <2>1. err' \in BOOLEAN
    BY Zenon DEF Inv, TypeOK, Check
  <2> QED
    BY <2>1 DEF Inv, TypeOK, OneBatch, BatchAtCursor, Check, queue, transit
<1>2. OneBatch'
  BY DEF Inv, TypeOK, OneBatch, Check, queue, transit
<1>3. BatchAtCursor'
  BY DEF Inv, BatchAtCursor, Check, queue, transit
<1>4. AcksSound'
  BY DEF Inv, AcksSound, Consumed, Check, queue, transit
<1>5. RepetitionsPaid'
  BY DEF Inv, TypeOK, OneBatch, RepetitionsPaid, Owed, Paid, Check, queue, transit
<1>6. PanicsPaid'
  BY DEF Inv, PanicsPaid, Check, queue, transit
<1> QED
  BY <1>1, <1>2, <1>3, <1>4, <1>5, <1>6 DEF Inv

\* Nothing but the choice between panic and end depends on err.
LEMMA AssignInv ==
    ASSUME Inv, Assign
    PROVE  Inv'
<1>1. TypeOK'
  <2>1. err' \in BOOLEAN
    BY Zenon DEF Assign
  <2> QED
    BY <2>1 DEF Inv, TypeOK, Assign, queue, transit
<1>2. OneBatch' /\ BatchAtCursor' /\ AcksSound' /\ RepetitionsPaid' /\ PanicsPaid'
  BY DEF Inv, OneBatch, BatchAtCursor, AcksSound, RepetitionsPaid, PanicsPaid, Consumed,
         Owed, Paid, Assign, queue, transit
<1> QED
  BY <1>1, <1>2 DEF Inv

\* Every step keeps the invariant, and every reachable state has it.
THEOREM Invariance == Spec => []Inv
<1>1. Inv /\ [Next]_vars => Inv'
  <2> SUFFICES ASSUME Inv, [Next]_vars PROVE Inv'
    OBVIOUS
  <2>1. CASE UNCHANGED vars
    BY <2>1 DEF vars, queue, transit, Inv, TypeOK, OneBatch, BatchAtCursor, AcksSound,
                RepetitionsPaid, PanicsPaid, Consumed, Owed, Paid
  <2>2. CASE Next
    BY <2>2, PushInv, TakeAckInv, CrashInv, PanicInv, SetConsumerInv, ConnectInv, RecvInv,
       ConsumeInv, AckInv, CheckInv, AssignInv, EndStreamInv DEF Next, Queue, Process
  <2> QED
    BY <2>1, <2>2
<1> QED
  BY <1>1, InitInv, PTL DEF Spec

\* No acknowledgement counts more events than a batch can have.
THEOREM TypeCorrect == Spec => []TypeOK
<1>1. Inv => TypeOK
  BY DEF Inv
<1> QED
  BY <1>1, Invariance, PTL

\* Every repetition of an event is due to a failure of the stream or the process.
THEOREM RepetitionsNeedFailures == Spec => []ConsumedBounded
<1>1. Inv => ConsumedBounded
  BY DEF Inv, RepetitionsPaid, ConsumedBounded
<1> QED
  BY <1>1, Invariance, PTL

\* The process panics no more often than something fails.
THEOREM PanicsNeedFailures == Spec => []NoPanicLoop
<1>1. Inv => NoPanicLoop
  BY DEF Inv, PanicsPaid, NoPanicLoop
<1> QED
  BY <1>1, Invariance, PTL

\* Handling any set of events is a step of the feed.
LEMMA HandleRefines ==
    ASSUME NEW STATE events, events \in SUBSET (1..NumEvts), F!Handle(events)
    PROVE  F!Next
BY DEF F!Next, F!Handle

\* Consuming a batch handles its events; all other steps of the process and of the
\* queue but the acknowledgement are not seen by the feed.
LEMMA StepRefines ==
    ASSUME Inv, Inv', [Next]_vars
    PROVE  [F!Next]_(F!vars)
<1>1. CASE cursor' = cursor /\ consumed' = consumed
  BY <1>1 DEF F!vars
<1>2. CASE TakeAck
  <2>1. cursor' \in 0..NumEvts /\ cursor' >= cursor /\ Consumed' = Consumed
    BY <1>2 DEF TakeAck, Inv, TypeOK, BatchAtCursor, Consumed
  <2>2. 1..cursor' \subseteq Consumed
    BY <2>1 DEF Inv, AcksSound
  <2>3. F!Ack(cursor')
    BY <2>1, <2>2 DEF F!Ack, Consumed
  <2> QED
    BY <2>1, <2>3 DEF F!Next
<1>3. CASE Consume
  <2> DEFINE events == (base + 1)..(base + got)
  <2>1. cursor' = cursor /\ events \in SUBSET (1..NumEvts)
    BY <1>3 DEF Consume, queue, transit, Inv, TypeOK, BatchAtCursor
  <2>2. Consumed' = Consumed \cup events
    <3>1. \A e \in 1..NumEvts : consumed'[e] > 0 <=> consumed[e] > 0 \/ e \in events
      BY <1>3 DEF Consume, Inv, TypeOK
    <3> QED
      BY <2>1, <3>1 DEF Consumed
  <2>3. \A e \in events : 1..e \subseteq Consumed'
    BY <2>2 DEF Inv, AcksSound
  <2>4. F!Handle(events)
    <3> HIDE DEF events
    <3> QED
      BY <2>1, <2>2, <2>3 DEF F!Handle, Consumed
  <2> HIDE DEF events
  <2> QED
    BY <2>1, <2>4, HandleRefines
<1> QED
  BY <1>1, <1>2, <1>3 DEF Next, Queue, Process, vars, queue, transit, Push, EndStream, Crash,
     Panic, SetConsumer, Connect, Recv, Ack, Check, Assign

\* The consumer implements the abstract feed: whatever streams and processes end,
\* the queue sees an in-order, at-least-once consumer.
THEOREM Refinement == Spec => ImplementsFeed
<1>1. Init => F!Init
  BY DEF Init, F!Init
<1>2. Inv /\ Inv' /\ [Next]_vars => [F!Next]_(F!vars)
  BY StepRefines
<1> QED
  BY <1>1, <1>2, Invariance, PTL DEF Spec, F!Spec, ImplementsFeed
=============================================================================
