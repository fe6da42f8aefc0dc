--------------------------- MODULE DeliveryProofs ---------------------------
(***************************************************************************)
(* Proofs about Delivery for every length of the feed, every bound of the  *)
(* batches, any number of concurrent calls and of faults.                  *)
(*                                                                         *)
(* TypeOK and NoLoss are not inductive: whether the cursor stays within    *)
(* the feed, and within what was handled, depends on what the calls have   *)
(* counted.  Inv adds CallsSound, which bounds each call's count by its    *)
(* batch, ties it to Handled, and ties the call the hub waits for to the   *)
(* hub's cursor.                                                           *)
(* DuplicatesBounded needs Tally besides, which counts the posts still to  *)
(* come, and WarnedForAReason needs WarnSound, which says what the flood   *)
(* goroutines have found out at each of their steps.                       *)
(***************************************************************************)
EXTENDS Delivery, FiniteSetTheorems, TLAPS

\* Unsubscribe keeps the registered URLs among those of the chat.
LEMMA UnsubscribeType ==
    ASSUME DeliveryAssumption, registered \subseteq Urls, faults \in 0..MaxFaults,
           NEW f, NEW ok, Unsubscribe(f, ok)
    PROVE  registered' \subseteq Urls /\ faults' \in 0..MaxFaults
BY DEF DeliveryAssumption, Unsubscribe, Fault

\* Moving a goroutine to its next step keeps the numbers natural.
LEMMA AdvanceType ==
    ASSUME flood \in [Stages -> Nat], NEW from \in Stages, NEW to \in Stages,
           from # to, Advance(from, to)
    PROVE  flood' \in [Stages -> Nat]
BY DEF Advance, Stages

\* The event of a call which is sending exists.
LEMMA CurrentIsEvent ==
    ASSUME DeliveryAssumption, Inv, NEW r \in Requests, pc[r] \in Modes
    PROVE  /\ Current(r) \in Evts
           /\ 1..(Current(r) - 1) \subseteq Handled
           /\ base[r] + (ack[r] + 1) <= NumEvts
           /\ ack[r] + 1 <= size[r]
           /\ ack[r] + 1 \in 0..BatchMax
<1> USE DEF DeliveryAssumption
<1>1. /\ base[r] \in 0..NumEvts /\ size[r] \in 0..BatchMax /\ ack[r] \in 0..BatchMax
      /\ NumEvts \in Nat /\ BatchMax \in Nat
  BY DEF Inv, TypeOK
<1>2. /\ base[r] + size[r] <= NumEvts
      /\ ack[r] < size[r]
      /\ 1..(base[r] + ack[r]) \subseteq Handled
  BY DEF Inv, CallsSound
<1>3. Current(r) = base[r] + ack[r] + 1 /\ Current(r) - 1 = base[r] + ack[r]
  BY <1>1 DEF Current
<1> QED
  BY <1>1, <1>2, <1>3 DEF Evts

\* What the loop head does to the call's state.
LEMMA TurnFacts ==
    ASSUME DeliveryAssumption, TypeOK, NEW r \in Requests, NEW n \in 0..BatchMax,
           n <= size[r], Turn(r, n)
    PROVE  /\ pc' \in [Requests -> PCs]
           /\ ack' \in [Requests -> 0..BatchMax]
           /\ failed' \in [Requests -> BOOLEAN]
           /\ ack'[r] = n
           /\ pc'[r] \in Modes => n < size[r]
           /\ pc'[r] \in {"html", "respond"}
           /\ \A q \in Requests \ {r} : pc'[q] = pc[q] /\ ack'[q] = ack[q]
BY DEF DeliveryAssumption, TypeOK, Turn, PCs, Modes

-----------------------------------------------------------------------------
\* The invariant holds at first.
LEMMA InitInv ==
    ASSUME DeliveryAssumption
    PROVE  Init => Inv
<1> SUFFICES ASSUME Init PROVE Inv
  OBVIOUS
<1> USE DEF DeliveryAssumption, Init
<1>1. TypeOK
  <2>1. cursor \in 0..NumEvts /\ faults \in 0..MaxFaults /\ registered \subseteq Urls
    OBVIOUS
  <2>2. /\ pc \in [Requests -> PCs]
        /\ base \in [Requests -> 0..NumEvts]
        /\ size \in [Requests -> 0..BatchMax]
        /\ ack \in [Requests -> 0..BatchMax]
        /\ failed \in [Requests -> BOOLEAN]
    BY DEF PCs
  <2>3. flood \in [Stages -> Nat] /\ posted \in [Evts -> Nat]
    OBVIOUS
  <2> QED
    BY <2>1, <2>2, <2>3 DEF TypeOK
<1>2. NoLoss
  BY DEF NoLoss
<1>3. Handled = {}
  BY DEF Handled, Evts
<1>4. InOrder
  BY <1>3 DEF InOrder
<1>5. CallsSound
  BY DEF CallsSound, Modes
<1> QED
  BY <1>1, <1>2, <1>4, <1>5 DEF Inv

\* Dealing with the event a call is at, and counting it, keeps the invariant.
LEMMA CountInv ==
    ASSUME DeliveryAssumption, Inv, NEW r \in Requests, pc[r] \in Modes,
           Handled' = Handled \cup {Current(r)},
           pc' \in [Requests -> PCs],
           pc'[r] \in {"html", "respond"},
           pc'[r] \in Modes => ack[r] + 1 < size[r],
           \A q \in Requests \ {r} : pc'[q] = pc[q] /\ ack'[q] = ack[q],
           ack'[r] = ack[r] + 1,
           UNCHANGED <<hub, base, size>>
    PROVE  NoLoss' /\ InOrder' /\ CallsSound'
<1> USE DEF DeliveryAssumption
<1>1. /\ Current(r) \in Evts
      /\ 1..(Current(r) - 1) \subseteq Handled
      /\ base[r] + (ack[r] + 1) <= NumEvts
      /\ ack[r] + 1 <= size[r]
      /\ ack[r] + 1 \in 0..BatchMax
  BY CurrentIsEvent
<1>2. Handled \subseteq Handled'
  OBVIOUS
<1>3. NoLoss'
  BY <1>2 DEF Inv, NoLoss, hub
<1>4. 1..Current(r) \subseteq Handled'
  <2>1. SUFFICES ASSUME NEW k \in 1..Current(r) PROVE k \in Handled'
    OBVIOUS
  <2>2. k = Current(r) \/ k \in 1..(Current(r) - 1)
    BY <1>1 DEF Evts
  <2> QED
    BY <1>1, <2>2
<1>5. InOrder'
  BY <1>2, <1>4 DEF Inv, InOrder
<1>6. CallsSound'
  <2>1. ASSUME NEW q \in Requests
        PROVE  /\ base'[q] + size'[q] <= NumEvts
               /\ ack'[q] <= size'[q]
               /\ pc'[q] \in Modes => ack'[q] < size'[q]
               /\ pc'[q] \in {"idle", "decode"} => ack'[q] = 0
               /\ 1..(base'[q] + ack'[q]) \subseteq Handled'
    <3>1. CASE q = r
      <4>1. base[r] + (ack[r] + 1) = Current(r)
        BY DEF Inv, TypeOK, Current
      <4> QED
        BY <1>1, <1>4, <3>1, <4>1 DEF Inv, CallsSound, Modes
    <3>2. CASE q # r
      BY <1>2, <3>2 DEF Inv, CallsSound
    <3> QED
      BY <3>1, <3>2
  <2>2. inflight' # None => pc'[inflight'] # "idle" /\ base'[inflight'] = cursor'
    BY DEF Inv, CallsSound, TypeOK, hub
  <2> QED
    BY <2>1, <2>2 DEF CallsSound
<1> QED
  BY <1>3, <1>5, <1>6

\* A step which leaves the chat and the counts of the calls alone, and keeps
\* the calls it moves away from the modes and from "idle", keeps the invariant.
LEMMA QuietInv ==
    ASSUME DeliveryAssumption, Inv, UNCHANGED chat,
           UNCHANGED <<cursor, inflight, base, size, ack>>,
           pc' \in [Requests -> PCs],
           \A r \in Requests :
              pc'[r] = pc[r] \/ pc'[r] \in PCs \ (Modes \cup {"idle", "decode"})
                             \/ (pc[r] \in Modes /\ pc'[r] \in Modes)
    PROVE  NoLoss' /\ InOrder' /\ CallsSound'
<1>1. Handled' = Handled
  BY DEF Handled, chat
<1>2. NoLoss' /\ InOrder'
  BY <1>1 DEF Inv, NoLoss, InOrder
<1>3. CallsSound'
  BY <1>1 DEF Inv, CallsSound, TypeOK, Modes
<1> QED
  BY <1>2, <1>3

\* A new request starts from the hub's cursor, within the feed.
LEMMA PostInv ==
    ASSUME DeliveryAssumption, Inv, NEW r \in Requests, Post(r)
    PROVE  Inv'
<1> USE DEF DeliveryAssumption
<1>1. PICK n \in 1..BatchMax : cursor + n <= NumEvts /\ size' = [size EXCEPT ![r] = n]
  BY DEF Post
<1>2. TypeOK'
  BY <1>1 DEF Inv, TypeOK, Post, goroutines, chat, PCs
<1>3. Handled' = Handled
  BY DEF Post, Handled, chat
<1>4. NoLoss' /\ InOrder'
  BY <1>3 DEF Inv, NoLoss, InOrder, Post
<1>5. ack[r] = 0
  BY DEF Inv, CallsSound, Post
<1>6. CallsSound'
  <2>1. ASSUME NEW q \in Requests, q # r
        PROVE  base'[q] = base[q] /\ size'[q] = size[q] /\ ack'[q] = ack[q] /\ pc'[q] = pc[q]
    BY <1>1, <2>1 DEF Inv, TypeOK, Post
  <2>2. base'[r] = cursor /\ size'[r] = n /\ ack'[r] = 0 /\ pc'[r] = "decode"
    BY <1>1, <1>5 DEF Inv, TypeOK, Post
  <2>3. 1..(cursor + 0) \subseteq Handled
    BY DEF Inv, TypeOK, NoLoss
  <2>4. inflight' = r /\ cursor' = cursor /\ r # None
    BY DEF Post
  <2> QED
    BY <1>1, <1>3, <2>1, <2>2, <2>3, <2>4 DEF Inv, CallsSound, TypeOK, Modes
<1> QED
  BY <1>2, <1>4, <1>6 DEF Inv

\* The calls which die have nothing left to answer for; the others are as before.
LEMMA CrashInv ==
    ASSUME DeliveryAssumption, Inv, Crash
    PROVE  Inv'
<1> USE DEF DeliveryAssumption
<1>1. PICK dead \in SUBSET Requests :
         /\ pc' = [r \in Requests |-> IF r \in dead THEN "idle" ELSE pc[r]]
         /\ base' = [r \in Requests |-> IF r \in dead THEN 0 ELSE base[r]]
         /\ size' = [r \in Requests |-> IF r \in dead THEN 0 ELSE size[r]]
         /\ ack' = [r \in Requests |-> IF r \in dead THEN 0 ELSE ack[r]]
         /\ failed' = [r \in Requests |-> IF r \in dead THEN FALSE ELSE failed[r]]
         /\ inflight' = IF inflight \in dead THEN None ELSE inflight
  BY DEF Crash
<1>2. UNCHANGED <<cursor, registered, warned, posted, skipped, blocked>>
  BY DEF Crash, chat
<1>3. Handled' = Handled
  BY <1>2 DEF Handled
<1>4. TypeOK'
  <2>1. /\ pc' \in [Requests -> PCs]
        /\ failed' \in [Requests -> BOOLEAN]
        /\ inflight' \in Requests \cup {None}
        /\ base' \in [Requests -> 0..NumEvts]
        /\ size' \in [Requests -> 0..BatchMax]
        /\ ack' \in [Requests -> 0..BatchMax]
    <3>1. pc' \in [Requests -> PCs] /\ failed' \in [Requests -> BOOLEAN]
      BY <1>1 DEF Inv, TypeOK, PCs
    <3>2. inflight' \in Requests \cup {None}
      BY <1>1 DEF Inv, TypeOK
    <3>3. 0 \in 0..NumEvts /\ 0 \in 0..BatchMax
      OBVIOUS
    <3>4. base' \in [Requests -> 0..NumEvts]
      BY <1>1, <3>3 DEF Inv, TypeOK
    <3>5. size' \in [Requests -> 0..BatchMax] /\ ack' \in [Requests -> 0..BatchMax]
      BY <1>1, <3>3 DEF Inv, TypeOK
    <3> QED
      BY <3>1, <3>2, <3>4, <3>5
  <2>2. flood' \in [Stages -> Nat]
    BY DEF Crash
  <2>3. faults' \in 0..MaxFaults
    BY DEF Crash, Fault, Inv, TypeOK
  <2> QED
    BY <1>2, <2>1, <2>2, <2>3 DEF Inv, TypeOK
<1>5. NoLoss' /\ InOrder'
  BY <1>2, <1>3 DEF Inv, NoLoss, InOrder
<1>6. CallsSound'
  <2>1. ASSUME NEW q \in Requests
        PROVE  /\ base'[q] + size'[q] <= NumEvts
               /\ ack'[q] <= size'[q]
               /\ pc'[q] \in Modes => ack'[q] < size'[q]
               /\ pc'[q] \in {"idle", "decode"} => ack'[q] = 0
               /\ 1..(base'[q] + ack'[q]) \subseteq Handled'
    <3>1. CASE q \in dead
      BY <1>1, <3>1 DEF Modes
    <3>2. CASE q \notin dead
      BY <1>1, <1>3, <3>2 DEF Inv, CallsSound
    <3> QED
      BY <3>1, <3>2
  <2>2. inflight' # None => pc'[inflight'] # "idle" /\ base'[inflight'] = cursor'
    BY <1>1, <1>2 DEF Inv, CallsSound, TypeOK
  <2> QED
    BY <2>1, <2>2 DEF CallsSound
<1> QED
  BY <1>4, <1>5, <1>6 DEF Inv

\* The answer moves the cursor over events the call has counted, which are handled.
LEMMA RespondInv ==
    ASSUME DeliveryAssumption, Inv, NEW r \in Requests, Respond(r)
    PROVE  Inv'
<1> USE DEF DeliveryAssumption
<1>1. UNCHANGED <<registered, flood, warned, posted, skipped, blocked, faults>>
  BY DEF Respond, goroutines, chat
<1>2. Handled' = Handled
  BY <1>1 DEF Handled
<1>3. /\ pc' = [pc EXCEPT ![r] = "idle"]
      /\ base' = [base EXCEPT ![r] = 0]
      /\ size' = [size EXCEPT ![r] = 0]
      /\ ack' = [ack EXCEPT ![r] = 0]
      /\ failed' = [failed EXCEPT ![r] = FALSE]
  BY DEF Respond
<1>4. /\ base[r] + size[r] <= NumEvts
      /\ ack[r] <= size[r]
      /\ 1..(base[r] + ack[r]) \subseteq Handled
      /\ inflight = r => base[r] = cursor
      /\ base[r] \in Nat /\ size[r] \in Nat /\ ack[r] \in Nat /\ cursor \in Nat
  BY DEF Inv, CallsSound, TypeOK
<1>5. cursor' \in 0..NumEvts /\ 1..cursor' \subseteq Handled
  <2>1. CASE inflight = r /\ Accepted(r)
    BY <1>4, <2>1 DEF Respond
  <2>2. CASE ~(inflight = r /\ Accepted(r))
    BY <2>2 DEF Respond, Inv, TypeOK, NoLoss
  <2> QED
    BY <2>1, <2>2
<1>6. inflight' = (IF inflight = r THEN None ELSE inflight)
  BY DEF Respond
<1>7. TypeOK'
  BY <1>1, <1>3, <1>5, <1>6 DEF Inv, TypeOK, PCs
<1>8. NoLoss' /\ InOrder'
  BY <1>2, <1>5 DEF Inv, NoLoss, InOrder
<1>9. CallsSound'
  <2>1. ASSUME NEW q \in Requests
        PROVE  /\ base'[q] + size'[q] <= NumEvts
               /\ ack'[q] <= size'[q]
               /\ pc'[q] \in Modes => ack'[q] < size'[q]
               /\ pc'[q] \in {"idle", "decode"} => ack'[q] = 0
               /\ 1..(base'[q] + ack'[q]) \subseteq Handled'
    <3>1. CASE q = r
      BY <1>3, <3>1 DEF Inv, TypeOK, Modes
    <3>2. CASE q # r
      BY <1>2, <1>3, <3>2 DEF Inv, TypeOK, CallsSound
    <3> QED
      BY <3>1, <3>2
  <2>2. inflight' # None => pc'[inflight'] # "idle" /\ base'[inflight'] = cursor'
    BY <1>3, <1>6 DEF Respond, Inv, CallsSound, TypeOK
  <2> QED
    BY <2>1, <2>2 DEF CallsSound
<1> QED
  BY <1>7, <1>8, <1>9 DEF Inv

\* The decoded batch is at its first event, or refused as a whole.
LEMMA DeliverMessagesInv ==
    ASSUME DeliveryAssumption, Inv, NEW r \in Requests, DeliverMessages(r)
    PROVE  Inv'
<1> USE DEF DeliveryAssumption
<1>1. ack[r] = 0 /\ 0 \in 0..BatchMax /\ 0 <= size[r] /\ TypeOK
  BY DEF Inv, TypeOK, CallsSound, DeliverMessages
<1>2. /\ UNCHANGED <<hub, base, size, goroutines, chat, blocked, faults>>
      /\ pc[r] = "decode"
  BY DEF DeliverMessages
<1>3. CASE Turn(r, 0)
  <2>1. /\ pc' \in [Requests -> PCs]
        /\ ack' \in [Requests -> 0..BatchMax]
        /\ failed' \in [Requests -> BOOLEAN]
        /\ ack'[r] = 0
        /\ pc'[r] \in Modes => 0 < size[r]
        /\ pc'[r] \in {"html", "respond"}
        /\ \A q \in Requests \ {r} : pc'[q] = pc[q] /\ ack'[q] = ack[q]
    BY <1>1, <1>3, TurnFacts
  <2>2. TypeOK'
    BY <1>1, <1>2, <2>1 DEF TypeOK, hub, goroutines, chat
  <2>3. Handled' = Handled
    BY <1>2 DEF Handled, chat
  <2>4. NoLoss' /\ InOrder'
    BY <1>2, <2>3 DEF Inv, NoLoss, InOrder, hub
  <2>5. CallsSound'
    BY <1>1, <1>2, <2>1, <2>3 DEF Inv, TypeOK, CallsSound, hub
  <2> QED
    BY <2>2, <2>4, <2>5 DEF Inv
<1>4. CASE /\ pc' = [pc EXCEPT ![r] = "respond"]
           /\ failed' = [failed EXCEPT ![r] = TRUE]
           /\ UNCHANGED ack
  <2>1. TypeOK'
    BY <1>1, <1>2, <1>4 DEF TypeOK, hub, goroutines, chat, PCs
  <2>2. NoLoss' /\ InOrder' /\ CallsSound'
    BY <1>1, <1>2, <1>4, <2>1, QuietInv DEF TypeOK, hub, PCs, Modes
  <2> QED
    BY <2>1, <2>2 DEF Inv
<1> QED
  BY <1>3, <1>4 DEF DeliverMessages

\* The event sent is the next one to be counted.
LEMMA SendOkInv ==
    ASSUME DeliveryAssumption, Inv, NEW r \in Requests, SendOk(r)
    PROVE  Inv'
<1> USE DEF DeliveryAssumption
<1>1. /\ Current(r) \in Evts
      /\ ack[r] + 1 <= size[r]
      /\ ack[r] + 1 \in 0..BatchMax
  BY CurrentIsEvent DEF SendOk
<1>2. TypeOK /\ pc[r] \in Modes
  BY DEF Inv, SendOk
<1>3. /\ posted' = [posted EXCEPT ![Current(r)] = @ + 1]
      /\ UNCHANGED <<hub, base, size, goroutines, skipped, blocked, faults>>
  BY DEF SendOk
<1>4. /\ pc' \in [Requests -> PCs]
      /\ ack' \in [Requests -> 0..BatchMax]
      /\ failed' \in [Requests -> BOOLEAN]
      /\ ack'[r] = ack[r] + 1
      /\ pc'[r] \in Modes => ack[r] + 1 < size[r]
      /\ pc'[r] \in {"html", "respond"}
      /\ \A q \in Requests \ {r} : pc'[q] = pc[q] /\ ack'[q] = ack[q]
  BY <1>1, <1>2, TurnFacts DEF SendOk
<1>5. posted' \in [Evts -> Nat]
  BY <1>1, <1>2, <1>3 DEF TypeOK
<1>6. TypeOK'
  BY <1>2, <1>3, <1>4, <1>5 DEF TypeOK, hub, goroutines
<1>7. Handled' = Handled \cup {Current(r)}
  BY <1>1, <1>2, <1>3 DEF TypeOK, Handled
<1>8. NoLoss' /\ InOrder' /\ CallsSound'
  BY <1>2, <1>3, <1>4, <1>7, CountInv
<1> QED
  BY <1>6, <1>8 DEF Inv

\* A fallback counts nothing; the event given up after the last one is counted.
LEMMA SendErrorInv ==
    ASSUME DeliveryAssumption, Inv, NEW r \in Requests, SendError(r)
    PROVE  Inv'
<1> USE DEF DeliveryAssumption
<1>1. /\ Current(r) \in Evts
      /\ 1..(Current(r) - 1) \subseteq Handled
      /\ ack[r] + 1 <= size[r]
      /\ ack[r] + 1 \in 0..BatchMax
  BY CurrentIsEvent DEF SendError
<1>2. TypeOK /\ pc[r] \in Modes
  BY DEF Inv, SendError
<1>3. UNCHANGED <<hub, base, size, goroutines, blocked>>
  BY DEF SendError
<1>4. /\ posted' = posted \/ posted' = [posted EXCEPT ![Current(r)] = @ + 1]
      /\ faults' \in 0..MaxFaults
  BY <1>2 DEF SendError, Fault, TypeOK
<1>5. posted' \in [Evts -> Nat]
  BY <1>1, <1>2, <1>4 DEF TypeOK
<1>6. CASE pc[r] \in {"html", "plain"}
  <2>1. /\ pc'[r] \in {"plain", "raw"}
        /\ pc' \in [Requests -> PCs]
        /\ \A q \in Requests \ {r} : pc'[q] = pc[q]
        /\ UNCHANGED <<ack, failed, skipped>>
    BY <1>2, <1>6 DEF SendError, TypeOK, PCs, Modes
  <2>2. TypeOK'
    BY <1>2, <1>3, <1>4, <1>5, <2>1 DEF TypeOK, hub, goroutines
  <2>3. Handled' = Handled \/ Handled' = Handled \cup {Current(r)}
    BY <1>1, <1>2, <1>4, <2>1 DEF TypeOK, Handled
  <2>4. NoLoss'
    BY <1>3, <2>3 DEF Inv, NoLoss, hub
  <2>5. InOrder'
    <3>1. ASSUME Handled' = Handled \cup {Current(r)} PROVE 1..Current(r) \subseteq Handled'
      <4>1. SUFFICES ASSUME NEW k \in 1..Current(r) PROVE k \in Handled'
        OBVIOUS
      <4>2. k = Current(r) \/ k \in 1..(Current(r) - 1)
        BY <1>1 DEF Evts
      <4> QED
        BY <1>1, <3>1, <4>2
    <3> QED
      BY <2>3, <3>1 DEF Inv, InOrder
  <2>6. CallsSound'
    BY <1>2, <1>3, <2>1, <2>3 DEF Inv, CallsSound, TypeOK, Modes, hub
  <2> QED
    BY <2>2, <2>4, <2>5, <2>6 DEF Inv
<1>7. CASE pc[r] = "raw"
  <2>1. /\ pc' = [pc EXCEPT ![r] = "respond"]
        /\ ack' = [ack EXCEPT ![r] = @ + 1]
        /\ failed' = [failed EXCEPT ![r] = TRUE]
        /\ skipped' = skipped \cup {Current(r)}
    BY <1>7 DEF SendError
  <2>2. /\ pc' \in [Requests -> PCs]
        /\ ack' \in [Requests -> 0..BatchMax]
        /\ failed' \in [Requests -> BOOLEAN]
        /\ skipped' \subseteq Evts
    BY <1>1, <1>2, <2>1 DEF TypeOK, PCs
  <2>3. TypeOK'
    BY <1>2, <1>3, <1>4, <1>5, <2>2 DEF TypeOK, hub, goroutines
  <2>4. Handled' = Handled \cup {Current(r)}
    BY <1>1, <1>2, <1>4, <2>1 DEF TypeOK, Handled
  <2>5. /\ pc'[r] = "respond"
        /\ ack'[r] = ack[r] + 1
        /\ \A q \in Requests \ {r} : pc'[q] = pc[q] /\ ack'[q] = ack[q]
    BY <1>2, <2>1 DEF TypeOK
  <2>6. NoLoss' /\ InOrder' /\ CallsSound'
    BY <1>2, <1>3, <2>2, <2>4, <2>5, CountInv DEF Modes
  <2> QED
    BY <2>3, <2>6 DEF Inv
<1> QED
  BY <1>2, <1>6, <1>7 DEF Modes

\* Every step preserves the invariant: one case for each action.
LEMMA NextInv ==
    ASSUME DeliveryAssumption, Inv, [Next]_vars
    PROVE  Inv'
<1> USE DEF DeliveryAssumption
<1>1. ASSUME NEW r \in Requests, Post(r) PROVE Inv'
  BY <1>1, PostInv
<1>2. ASSUME NEW r \in Requests, DeliverMessages(r) PROVE Inv'
  BY <1>2, DeliverMessagesInv
<1>3. ASSUME NEW r \in Requests, SendOk(r) PROVE Inv'
  BY <1>3, SendOkInv
<1>4. ASSUME NEW r \in Requests, SendError(r) PROVE Inv'
  BY <1>4, SendErrorInv
<1>5. ASSUME NEW r \in Requests, Respond(r) PROVE Inv'
  BY <1>5, RespondInv
<1>6. CASE Crash
  BY <1>6, CrashInv
<1>7. ASSUME NEW r \in Requests, SendFlood(r) PROVE Inv'
  <2>1. TypeOK
    BY DEF Inv
  <2>2. /\ pc' = [pc EXCEPT ![r] = "respond"]
        /\ failed' = [failed EXCEPT ![r] = TRUE]
        /\ UNCHANGED <<hub, base, size, ack, warned, chat, blocked, faults>>
        /\ pc[r] \in Modes
    BY <1>7 DEF SendFlood
  <2>3. Spawned(pc[r]) \in Nat
    BY <2>2 DEF Spawned, Modes
  <2>4. flood' \in [Stages -> Nat]
    BY <1>7, <2>1, <2>3 DEF SendFlood, TypeOK, Stages
  <2>5. TypeOK'
    BY <2>1, <2>2, <2>4 DEF TypeOK, hub, chat, PCs
  <2>6. NoLoss' /\ InOrder' /\ CallsSound'
    BY <2>1, <2>2, <2>5, QuietInv DEF TypeOK, hub, PCs, Modes
  <2> QED
    BY <2>5, <2>6 DEF Inv
<1>8. ASSUME NEW r \in Requests, SendForbidden(r) PROVE Inv'
  <2>1. TypeOK
    BY DEF Inv
  <2>2. /\ pc' = [pc EXCEPT ![r] = "unsubscribe"]
        /\ UNCHANGED <<hub, base, size, ack, failed, goroutines, chat, blocked, faults>>
    BY <1>8 DEF SendForbidden
  <2>3. TypeOK'
    BY <2>1, <2>2 DEF TypeOK, hub, chat, goroutines, PCs
  <2>4. NoLoss' /\ InOrder' /\ CallsSound'
    BY <2>1, <2>2, <2>3, QuietInv DEF TypeOK, hub, PCs, Modes
  <2> QED
    BY <2>3, <2>4 DEF Inv
<1>9. ASSUME NEW r \in Requests, UnsubscribeBlocked(r) PROVE Inv'
  <2>1. TypeOK
    BY DEF Inv
  <2>2. PICK ok \in BOOLEAN :
          /\ Unsubscribe(User, ok)
          /\ pc' = [pc EXCEPT ![r] = IF ok THEN "respond" ELSE "unsubscribeLegacy"]
    BY <1>9 DEF UnsubscribeBlocked
  <2>3. registered' \subseteq Urls /\ faults' \in 0..MaxFaults
    BY <2>1, <2>2, UnsubscribeType DEF TypeOK
  <2>4. UNCHANGED <<cursor, inflight, base, size, ack, failed, goroutines, chat, blocked>>
    BY <1>9 DEF UnsubscribeBlocked
  <2>5. TypeOK'
    BY <2>1, <2>2, <2>3, <2>4 DEF TypeOK, chat, goroutines, PCs
  <2>6. NoLoss' /\ InOrder' /\ CallsSound'
    BY <2>1, <2>2, <2>4, <2>5, QuietInv DEF TypeOK, PCs, Modes
  <2> QED
    BY <2>5, <2>6 DEF Inv
<1>10. ASSUME NEW r \in Requests, UnsubscribeBlockedLegacy(r) PROVE Inv'
  <2>1. TypeOK
    BY DEF Inv
  <2>2. PICK ok \in BOOLEAN :
          Unsubscribe("legacy", ok) /\ failed' = [failed EXCEPT ![r] = ~ok]
    BY <1>10 DEF UnsubscribeBlockedLegacy
  <2>3. registered' \subseteq Urls /\ faults' \in 0..MaxFaults
    BY <2>1, <2>2, UnsubscribeType DEF TypeOK
  <2>4. /\ pc' = [pc EXCEPT ![r] = "respond"]
        /\ UNCHANGED <<cursor, inflight, base, size, ack, goroutines, chat, blocked>>
    BY <1>10 DEF UnsubscribeBlockedLegacy
  <2>5. TypeOK'
    BY <2>1, <2>2, <2>3, <2>4 DEF TypeOK, chat, goroutines, PCs
  <2>6. NoLoss' /\ InOrder' /\ CallsSound'
    BY <2>1, <2>4, <2>5, QuietInv DEF TypeOK, PCs, Modes
  <2> QED
    BY <2>5, <2>6 DEF Inv
<1>11. CASE FloodUnsubscribe
  <2>1. TypeOK
    BY DEF Inv
  <2>2. PICK ok \in BOOLEAN :
          Unsubscribe(User, ok) /\ Advance("user", IF ok THEN "warn" ELSE "legacy")
    BY <1>11 DEF FloodUnsubscribe
  <2>3. registered' \subseteq Urls /\ faults' \in 0..MaxFaults
    BY <2>1, <2>2, UnsubscribeType DEF TypeOK
  <2>4. flood' \in [Stages -> Nat]
    BY <2>1, <2>2, AdvanceType DEF TypeOK, Stages
  <2>5. UNCHANGED <<cursor, inflight, call, warned, chat, blocked>>
    BY <1>11 DEF FloodUnsubscribe
  <2>6. TypeOK'
    BY <2>1, <2>3, <2>4, <2>5 DEF TypeOK, chat, call
  <2>7. NoLoss' /\ InOrder' /\ CallsSound'
    BY <2>5, <2>6, QuietInv DEF TypeOK, call
  <2> QED
    BY <2>6, <2>7 DEF Inv
<1>12. CASE FloodUnsubscribeLegacy
  <2>1. TypeOK
    BY DEF Inv
  <2>2. PICK ok \in BOOLEAN : Unsubscribe("legacy", ok)
    BY <1>12 DEF FloodUnsubscribeLegacy
  <2>3. registered' \subseteq Urls /\ faults' \in 0..MaxFaults
    BY <2>1, <2>2, UnsubscribeType DEF TypeOK
  <2>4. flood' \in [Stages -> Nat]
    BY <1>12, <2>1, AdvanceType DEF FloodUnsubscribeLegacy, TypeOK, Stages
  <2>5. UNCHANGED <<cursor, inflight, call, warned, chat, blocked>>
    BY <1>12 DEF FloodUnsubscribeLegacy
  <2>6. TypeOK'
    BY <2>1, <2>3, <2>4, <2>5 DEF TypeOK, chat, call
  <2>7. NoLoss' /\ InOrder' /\ CallsSound'
    BY <2>5, <2>6, QuietInv DEF TypeOK, call
  <2> QED
    BY <2>6, <2>7 DEF Inv
<1>13. CASE FloodWarn
  <2>1. TypeOK
    BY DEF Inv
  <2>2. /\ UNCHANGED <<hub, call, chat, blocked, faults>>
        /\ flood' \in [Stages -> Nat]
        /\ warned' \in BOOLEAN
    <3>1. UNCHANGED <<hub, call, chat, blocked, faults>>
      BY <1>13 DEF FloodWarn
    <3>2. flood' \in [Stages -> Nat]
      BY <1>13, <2>1 DEF FloodWarn, TypeOK, Stages
    <3>3. warned' \in BOOLEAN
      BY <1>13, <2>1 DEF FloodWarn, TypeOK
    <3> QED
      BY <3>1, <3>2, <3>3
  <2>3. TypeOK'
    BY <2>1, <2>2 DEF TypeOK, hub, chat, call
  <2>4. NoLoss' /\ InOrder' /\ CallsSound'
    BY <2>2, <2>3, QuietInv DEF TypeOK, call, hub
  <2> QED
    BY <2>3, <2>4 DEF Inv
<1>14. CASE Timeout
  <2>1. Handled' = Handled
    BY <1>14 DEF Timeout, Handled, chat
  <2>2. TypeOK'
    BY <1>14 DEF Timeout, Fault, Inv, TypeOK, call, goroutines, chat
  <2>3. NoLoss' /\ InOrder' /\ CallsSound'
    BY <1>14, <2>1 DEF Timeout, Inv, NoLoss, InOrder, CallsSound, call
  <2> QED
    BY <2>2, <2>3 DEF Inv
<1>15. CASE Block
  <2>1. TypeOK'
    BY <1>15 DEF Block, Inv, TypeOK, hub, call, goroutines, chat
  <2>2. NoLoss' /\ InOrder' /\ CallsSound'
    BY <1>15, <2>1, QuietInv DEF Block, TypeOK, call, hub
  <2> QED
    BY <2>1, <2>2 DEF Inv
<1>16. CASE UNCHANGED vars
  <2>1. TypeOK'
    BY <1>16 DEF vars, Inv, TypeOK, hub, call, goroutines, chat
  <2>2. NoLoss' /\ InOrder' /\ CallsSound'
    BY <1>16, <2>1, QuietInv DEF vars, TypeOK, call, hub
  <2> QED
    BY <2>1, <2>2 DEF Inv
<1> QED
  BY <1>1, <1>2, <1>3, <1>4, <1>5, <1>6, <1>7, <1>8, <1>9, <1>10, <1>11, <1>12,
     <1>13, <1>14, <1>15, <1>16 DEF Next, Deliver, Send, Environment
-----------------------------------------------------------------------------
(* Under the assumption on the constants, which Delivery states, the         *)
(* invariant holds in every reachable state.                                 *)
THEOREM Invariance == Spec => []Inv
<1>1. Init => Inv
  BY DeliveryAssumption, InitInv
<1>2. Inv /\ [Next]_vars => Inv'
  BY DeliveryAssumption, NextInv
<1> QED
  BY <1>1, <1>2, PTL DEF Spec

\* Every variable of the handler and of the hub keeps its type.
THEOREM TypeCorrect == Spec => []TypeOK
<1>1. Inv => TypeOK
  BY DEF Inv
<1> QED
  BY <1>1, Invariance, PTL

\* Whatever calls overlap, time out or die, X-Ack-Count never makes the hub
\* forget an event which deliver neither posted nor gave up.
THEOREM NothingLost == Spec => []NoLoss
<1>1. Inv => NoLoss
  BY DEF Inv
<1> QED
  BY <1>1, Invariance, PTL

\* What a call has counted is handled and lies within its batch, and the call the
\* hub waits for has started from the hub's cursor.
THEOREM CountsSound == Spec => []CallsSound
<1>1. Inv => CallsSound
  BY DEF Inv
<1> QED
  BY <1>1, Invariance, PTL

\* The chat gets the events, for the first time, in the order of the feed.
THEOREM FirstInOrder == Spec => []InOrder
<1>1. Inv => InOrder
  BY DEF Inv
<1> QED
  BY <1>1, Invariance, PTL
-----------------------------------------------------------------------------
(* How often an event is posted.                                             *)

\* The calls the hub does not wait for any more which still are to post event e.
Stale(e) ==
    {r \in Requests \ {inflight} :
        /\ pc[r] \in Modes \cup {"decode"}
        /\ base[r] + ack[r] < e
        /\ e <= base[r] + size[r]}

\* The events up to Frontier are counted in the answer the hub has got or waits for.
Frontier == IF inflight = None THEN cursor ELSE cursor + ack[inflight]

\* Whether event e is to be posted by the call the hub waits for, or by a later one.
Ahead(e) == IF e > Frontier THEN 1 ELSE 0

\* DuplicatesBounded is not inductive: an event which was posted may be about to
\* be posted again.  Tally counts, with the posts of an event, those still to come.
Tally ==
    \A e \in Evts :
        /\ IsFiniteSet(Stale(e))
        /\ posted[e] + Ahead(e) + Cardinality(Stale(e)) <= 1 + faults

DuplicatesInv == Inv /\ Tally

\* A set gains one element, or loses one, or neither, and a number makes up for it.
LEMMA Balance ==
    ASSUME NEW S, NEW T, IsFiniteSet(S),
           NEW a \in Int, NEW b \in Int, NEW m \in Int, NEW n \in Int,
           a + Cardinality(S) <= m,
           \/ T \subseteq S /\ b - a <= n - m
           \/ \E x : T \subseteq S \cup {x} /\ b + 1 - a <= n - m
           \/ \E x \in S : T \subseteq S \ {x} /\ b - 1 - a <= n - m
    PROVE  IsFiniteSet(T) /\ b + Cardinality(T) <= n
<1>0. Cardinality(S) \in Nat
  BY FS_CardinalityType
<1>1. CASE T \subseteq S /\ b - a <= n - m
  <2>1. IsFiniteSet(T) /\ Cardinality(T) <= Cardinality(S) /\ Cardinality(T) \in Nat
    BY <1>1, FS_Subset, FS_CardinalityType
  <2> QED
    BY <1>0, <1>1, <2>1
<1>2. ASSUME NEW x, T \subseteq S \cup {x}, b + 1 - a <= n - m
      PROVE  IsFiniteSet(T) /\ b + Cardinality(T) <= n
  <2>1. /\ IsFiniteSet(S \cup {x})
        /\ Cardinality(S \cup {x}) = IF x \in S THEN Cardinality(S) ELSE Cardinality(S) + 1
    BY FS_AddElement
  <2>2. /\ IsFiniteSet(T)
        /\ Cardinality(T) <= Cardinality(S \cup {x})
        /\ Cardinality(T) \in Nat
    BY <1>2, <2>1, FS_Subset, FS_CardinalityType
  <2> QED
    BY <1>0, <1>2, <2>1, <2>2
<1>3. ASSUME NEW x \in S, T \subseteq S \ {x}, b - 1 - a <= n - m
      PROVE  IsFiniteSet(T) /\ b + Cardinality(T) <= n
  <2>1. IsFiniteSet(S \ {x}) /\ Cardinality(S \ {x}) = Cardinality(S) - 1
    BY FS_RemoveElement
  <2>2. /\ IsFiniteSet(T)
        /\ Cardinality(T) <= Cardinality(S \ {x})
        /\ Cardinality(T) \in Nat
    BY <1>3, <2>1, FS_Subset, FS_CardinalityType
  <2> QED
    BY <1>0, <1>3, <2>1, <2>2
<1> QED
  BY <1>1, <1>2, <1>3

\* The terms of Tally are numbers, and so are those of the next state.
LEMMA TallyTypes ==
    ASSUME DeliveryAssumption, Inv, Inv', NEW e \in Evts
    PROVE  /\ e \in Nat /\ cursor \in Nat /\ cursor' \in Nat
           /\ posted[e] \in Nat /\ posted'[e] \in Nat
           /\ faults \in Nat /\ faults' \in Nat
           /\ Frontier \in Nat /\ Frontier' \in Nat
           /\ Ahead(e) \in {0, 1} /\ Ahead(e)' \in {0, 1}
           /\ \A r \in Requests : base[r] \in Nat /\ size[r] \in Nat /\ ack[r] \in Nat
<1>1. TypeOK /\ TypeOK'
  BY DEF Inv
<1>2. e \in Nat /\ cursor \in Nat /\ cursor' \in Nat
  BY <1>1 DEF TypeOK, Evts, DeliveryAssumption
<1>3. posted[e] \in Nat /\ posted'[e] \in Nat
  BY <1>1 DEF TypeOK
<1>4. faults \in Nat /\ faults' \in Nat
  BY <1>1 DEF TypeOK, DeliveryAssumption
<1>5. /\ \A r \in Requests : base[r] \in Nat /\ size[r] \in Nat /\ ack[r] \in Nat
      /\ \A r \in Requests : ack'[r] \in Nat
  BY <1>1 DEF TypeOK, DeliveryAssumption
<1>6. Frontier \in Nat /\ Frontier' \in Nat
  BY <1>1, <1>2, <1>5 DEF TypeOK, Frontier
<1>7. Ahead(e) \in {0, 1} /\ Ahead(e)' \in {0, 1}
  BY DEF Ahead
<1> QED
  BY <1>2, <1>3, <1>4, <1>5, <1>6, <1>7

\* One event: what a step does to the three terms of Tally, and to the faults.
LEMMA TallyStep ==
    ASSUME DeliveryAssumption, DuplicatesInv, Inv', NEW e \in Evts,
           LET gain == posted'[e] + Ahead(e)' - posted[e] - Ahead(e)
               bad == faults' - faults
           IN  \/ Stale(e)' \subseteq Stale(e) /\ gain <= bad
               \/ \E x : Stale(e)' \subseteq Stale(e) \cup {x} /\ gain + 1 <= bad
               \/ \E x \in Stale(e) : Stale(e)' \subseteq Stale(e) \ {x} /\ gain - 1 <= bad
    PROVE  IsFiniteSet(Stale(e)') /\ posted'[e] + Ahead(e)' + Cardinality(Stale(e)') <= 1 + faults'
<1> DEFINE a == posted[e] + Ahead(e)
           b == posted'[e] + Ahead(e)'
           m == 1 + faults
           n == 1 + faults'
           S == Stale(e)
           T == Stale(e)'
<1>0. /\ posted[e] \in Nat /\ posted'[e] \in Nat /\ faults \in Nat /\ faults' \in Nat
      /\ Ahead(e) \in {0, 1} /\ Ahead(e)' \in {0, 1}
  BY TallyTypes DEF DuplicatesInv
<1>1. a \in Int /\ b \in Int /\ m \in Int /\ n \in Int
  BY <1>0
<1>2. IsFiniteSet(S) /\ a + Cardinality(S) <= m
  BY DEF DuplicatesInv, Tally
<1>3. \/ T \subseteq S /\ b - a <= n - m
      \/ \E x : T \subseteq S \cup {x} /\ b + 1 - a <= n - m
      \/ \E x \in S : T \subseteq S \ {x} /\ b - 1 - a <= n - m
  <2>1. posted'[e] + Ahead(e)' - posted[e] - Ahead(e) = b - a /\ faults' - faults = n - m
    BY <1>0
  <2>2. b - a + 1 = b + 1 - a /\ b - a - 1 = b - 1 - a
    BY <1>1
  <2> QED
    BY <2>1, <2>2
<1> HIDE DEF a, b, m, n, S, T
<1>4. IsFiniteSet(T) /\ b + Cardinality(T) <= n
  BY <1>1, <1>2, <1>3, Balance
<1> QED
  BY <1>4 DEF b, n, T

\* A step which makes no call start or fall back behind what it has counted, and
\* posts an event only at the price of a fault.
LEMMA TallyQuiet ==
    ASSUME DeliveryAssumption, DuplicatesInv, Inv', NEW e \in Evts,
           UNCHANGED <<cursor, inflight, base, size>>,
           \A r \in Requests :
              /\ ack'[r] >= ack[r]
              /\ pc'[r] \in Modes \cup {"decode"} => pc[r] \in Modes \cup {"decode"},
           posted'[e] - posted[e] <= faults' - faults
    PROVE  IsFiniteSet(Stale(e)') /\ posted'[e] + Ahead(e)' + Cardinality(Stale(e)') <= 1 + faults'
<1>1. /\ e \in Nat /\ cursor \in Nat
      /\ posted[e] \in Nat /\ posted'[e] \in Nat
      /\ faults \in Nat /\ faults' \in Nat
      /\ Frontier \in Nat /\ Frontier' \in Nat
      /\ Ahead(e) \in {0, 1} /\ Ahead(e)' \in {0, 1}
      /\ \A r \in Requests : base[r] \in Nat /\ size[r] \in Nat /\ ack[r] \in Nat
      /\ \A r \in Requests : ack'[r] \in Nat
      /\ inflight \in Requests \cup {None}
  BY TallyTypes DEF DuplicatesInv, Inv, TypeOK, DeliveryAssumption
<1>2. Stale(e)' \subseteq Stale(e)
  BY <1>1 DEF Stale
<1>3. Frontier <= Frontier'
  BY <1>1 DEF Frontier
<1>4. Ahead(e)' <= Ahead(e)
  BY <1>1, <1>3 DEF Ahead
<1>5. posted'[e] + Ahead(e)' - posted[e] - Ahead(e) <= faults' - faults
  BY <1>1, <1>4
<1> QED
  BY <1>2, <1>5, TallyStep

\* The new request is at the hub's cursor: what it will post was ahead before.
LEMMA PostTally ==
    ASSUME DeliveryAssumption, DuplicatesInv, Inv', NEW r \in Requests, Post(r), NEW e \in Evts
    PROVE  IsFiniteSet(Stale(e)') /\ posted'[e] + Ahead(e)' + Cardinality(Stale(e)') <= 1 + faults'
<1>1. TypeOK /\ TypeOK' /\ CallsSound
  BY DEF DuplicatesInv, Inv
<1>2. /\ inflight = None /\ inflight' = r /\ r # None
      /\ UNCHANGED <<cursor, ack, posted, faults>>
      /\ pc' = [pc EXCEPT ![r] = "decode"]
      /\ base' = [base EXCEPT ![r] = cursor]
  BY DEF Post, chat, DeliveryAssumption
<1>3. ack[r] = 0 /\ pc[r] = "idle"
  BY <1>1 DEF Post, CallsSound
<1>4. PICK n \in 1..BatchMax : size' = [size EXCEPT ![r] = n]
  BY DEF Post
<1>5. Stale(e)' \subseteq Stale(e)
  BY <1>1, <1>2, <1>4 DEF Stale, TypeOK, DeliveryAssumption
<1>6. Frontier = cursor /\ Frontier' = cursor + 0
  BY <1>1, <1>2, <1>3 DEF Frontier, TypeOK
<1>7. /\ cursor \in Nat /\ posted[e] \in Nat /\ faults \in Nat /\ Ahead(e) \in {0, 1}
  BY TallyTypes DEF DuplicatesInv
<1>8. Ahead(e)' = Ahead(e)
  BY <1>6, <1>7 DEF Ahead
<1>9. posted'[e] + Ahead(e)' - posted[e] - Ahead(e) <= faults' - faults
  BY <1>2, <1>7, <1>8
<1> QED
  BY <1>5, <1>9, TallyStep

\* The request the hub gives up is stale: what it counted is ahead again, and the
\* rest of its batch will be posted by it and, once more, by a later request.
LEMMA TimeoutTally ==
    ASSUME DeliveryAssumption, DuplicatesInv, Inv', Timeout, NEW e \in Evts
    PROVE  IsFiniteSet(Stale(e)') /\ posted'[e] + Ahead(e)' + Cardinality(Stale(e)') <= 1 + faults'
<1>1. TypeOK /\ CallsSound
  BY DEF DuplicatesInv, Inv
<1>2. /\ inflight # None /\ inflight' = None
      /\ faults' = faults + 1
      /\ UNCHANGED <<cursor, pc, base, size, ack, posted>>
  BY DEF Timeout, Fault, call, chat
<1>3. /\ inflight \in Requests
      /\ base[inflight] = cursor
  BY <1>1, <1>2 DEF TypeOK, CallsSound
<1>4. /\ e \in Nat /\ cursor \in Nat /\ posted[e] \in Nat /\ faults \in Nat
      /\ Ahead(e) \in {0, 1} /\ Ahead(e)' \in {0, 1}
      /\ ack[inflight] \in Nat
  BY <1>3, TallyTypes DEF DuplicatesInv
<1>5. Frontier = cursor + ack[inflight] /\ Frontier' = cursor
  BY <1>2 DEF Frontier
<1>6. Stale(e)' \subseteq Stale(e) \cup {inflight}
  BY <1>2 DEF Stale
<1>7. CASE e > Frontier
  <2>1. Ahead(e) = 1
    BY <1>7 DEF Ahead
  <2>2. posted'[e] + Ahead(e)' - posted[e] - Ahead(e) + 1 <= faults' - faults
    BY <1>2, <1>4, <2>1
  <2> QED
    BY <1>6, <2>2, TallyStep
<1>8. CASE ~(e > Frontier)
  <2>1. inflight \notin Stale(e)'
    BY <1>2, <1>3, <1>4, <1>5, <1>8 DEF Stale
  <2>2. Stale(e)' \subseteq Stale(e)
    BY <1>6, <2>1
  <2>3. posted'[e] + Ahead(e)' - posted[e] - Ahead(e) <= faults' - faults
    BY <1>2, <1>4
  <2> QED
    BY <2>2, <2>3, TallyStep
<1> QED
  BY <1>7, <1>8

\* The calls which die post nothing more; what the hub waited for is ahead again.
LEMMA CrashTally ==
    ASSUME DeliveryAssumption, DuplicatesInv, Inv', Crash, NEW e \in Evts
    PROVE  IsFiniteSet(Stale(e)') /\ posted'[e] + Ahead(e)' + Cardinality(Stale(e)') <= 1 + faults'
<1>1. PICK dead \in SUBSET Requests :
         /\ pc' = [r \in Requests |-> IF r \in dead THEN "idle" ELSE pc[r]]
         /\ base' = [r \in Requests |-> IF r \in dead THEN 0 ELSE base[r]]
         /\ size' = [r \in Requests |-> IF r \in dead THEN 0 ELSE size[r]]
         /\ ack' = [r \in Requests |-> IF r \in dead THEN 0 ELSE ack[r]]
         /\ inflight' = IF inflight \in dead THEN None ELSE inflight
  BY DEF Crash
<1>2. faults' = faults + 1 /\ UNCHANGED <<cursor, posted>>
  BY DEF Crash, Fault, chat
<1>3. Stale(e)' \subseteq Stale(e)
  BY <1>1 DEF Stale, Modes
<1>4. /\ posted[e] \in Nat /\ faults \in Nat
      /\ Ahead(e) \in {0, 1} /\ Ahead(e)' \in {0, 1}
  BY TallyTypes DEF DuplicatesInv
<1>5. posted'[e] + Ahead(e)' - posted[e] - Ahead(e) <= faults' - faults
  BY <1>2, <1>4
<1> QED
  BY <1>3, <1>5, TallyStep

\* An event is posted instead of being ahead, or by a stale call which then is past it.
LEMMA SendOkTally ==
    ASSUME DeliveryAssumption, DuplicatesInv, Inv', NEW r \in Requests, SendOk(r), NEW e \in Evts
    PROVE  IsFiniteSet(Stale(e)') /\ posted'[e] + Ahead(e)' + Cardinality(Stale(e)') <= 1 + faults'
<1>1. TypeOK /\ CallsSound /\ pc[r] \in Modes
  BY DEF DuplicatesInv, Inv, SendOk
<1>2. /\ Current(r) \in Evts
      /\ ack[r] + 1 <= size[r]
      /\ ack[r] + 1 \in 0..BatchMax
  BY CurrentIsEvent DEF SendOk, DuplicatesInv
<1>3. /\ posted' = [posted EXCEPT ![Current(r)] = @ + 1]
      /\ UNCHANGED <<cursor, inflight, base, size, faults>>
  BY DEF SendOk, hub
<1>4. /\ ack'[r] = ack[r] + 1
      /\ pc'[r] \in {"html", "respond"}
      /\ \A q \in Requests \ {r} : pc'[q] = pc[q] /\ ack'[q] = ack[q]
  BY <1>1, <1>2, TurnFacts DEF SendOk
<1>5. /\ e \in Nat /\ cursor \in Nat
      /\ posted[e] \in Nat /\ faults \in Nat
      /\ Ahead(e) \in {0, 1} /\ Ahead(e)' \in {0, 1}
      /\ \A q \in Requests : base[q] \in Nat /\ size[q] \in Nat /\ ack[q] \in Nat
  BY TallyTypes DEF DuplicatesInv
<1>6. CASE e # Current(r)
  <2>1. posted'[e] = posted[e]
    BY <1>1, <1>3, <1>6 DEF TypeOK
  <2>2. posted'[e] - posted[e] <= faults' - faults
    BY <1>3, <1>5, <2>1
  <2>3. \A q \in Requests :
           /\ ack'[q] >= ack[q]
           /\ pc'[q] \in Modes \cup {"decode"} => pc[q] \in Modes \cup {"decode"}
    BY <1>1, <1>4, <1>5
  <2> QED
    BY <1>3, <2>2, <2>3, TallyQuiet
<1>7. CASE e = Current(r)
  <2>1. posted'[e] = posted[e] + 1
    BY <1>1, <1>2, <1>3, <1>7 DEF TypeOK
  <2>2. e = base[r] + ack[r] + 1
    BY <1>7 DEF Current
  <2>3. Stale(e)' \subseteq Stale(e) \ {r}
    BY <1>1, <1>3, <1>4, <1>5, <2>2 DEF Stale
  <2>4. CASE inflight = r
    <3>1. base[r] = cursor /\ r # None
      BY <1>1, <2>4 DEF CallsSound, DeliveryAssumption
    <3>2. Frontier = cursor + ack[r] /\ Frontier' = cursor + (ack[r] + 1)
      BY <1>3, <1>4, <2>4, <3>1 DEF Frontier
    <3>3. Ahead(e) = 1 /\ Ahead(e)' = 0
      BY <1>5, <2>2, <3>1, <3>2 DEF Ahead
    <3>4. posted'[e] + Ahead(e)' - posted[e] - Ahead(e) <= faults' - faults
      BY <1>3, <1>5, <2>1, <3>3
    <3> QED
      BY <2>3, <3>4, TallyStep
  <2>5. CASE inflight # r
    <3>1. r \in Stale(e)
      BY <1>1, <1>2, <1>5, <2>2, <2>5 DEF Stale
    <3>2. inflight # None => ack'[inflight] = ack[inflight]
      BY <1>1, <1>4, <2>5 DEF TypeOK
    <3>3. Frontier' = Frontier
      BY <1>3, <3>2 DEF Frontier
    <3>4. Ahead(e)' = Ahead(e)
      BY <3>3 DEF Ahead
    <3>5. (posted'[e] + Ahead(e)' - posted[e] - Ahead(e)) - 1 <= faults' - faults
      BY <1>3, <1>5, <2>1, <3>4
    <3> QED
      BY <2>3, <3>1, <3>5, TallyStep
  <2> QED
    BY <2>4, <2>5
<1> QED
  BY <1>6, <1>7

\* The answer moves the cursor over exactly what the call counted, also when it
\* failed half-way; a refused batch has counted nothing.
LEMMA RespondTally ==
    ASSUME DeliveryAssumption, DuplicatesInv, Inv', NEW r \in Requests, Respond(r), NEW e \in Evts
    PROVE  IsFiniteSet(Stale(e)') /\ posted'[e] + Ahead(e)' + Cardinality(Stale(e)') <= 1 + faults'
<1>1. TypeOK
  BY DEF DuplicatesInv, Inv
<1>2. /\ pc' = [pc EXCEPT ![r] = "idle"]
      /\ base' = [base EXCEPT ![r] = 0]
      /\ size' = [size EXCEPT ![r] = 0]
      /\ ack' = [ack EXCEPT ![r] = 0]
      /\ pc[r] = "respond"
      /\ UNCHANGED <<posted, faults>>
      /\ inflight' = IF inflight = r THEN None ELSE inflight
  BY DEF Respond, chat
<1>3. /\ cursor \in Nat /\ posted[e] \in Nat /\ faults \in Nat
      /\ Ahead(e) \in {0, 1}
      /\ ack[r] \in Nat
  BY TallyTypes DEF DuplicatesInv
<1>4. Stale(e)' \subseteq Stale(e)
  BY <1>1, <1>2 DEF Stale, TypeOK, Modes
<1>5. Frontier' = Frontier
  <2>1. CASE inflight = r
    <3>1. cursor' = cursor + ack[r]
      BY <1>3, <2>1 DEF Respond, Accepted
    <3> QED
      BY <1>2, <2>1, <3>1 DEF Frontier, DeliveryAssumption
  <2>2. CASE inflight # r
    <3>1. cursor' = cursor
      BY <2>2 DEF Respond
    <3> QED
      BY <1>1, <1>2, <2>2, <3>1 DEF Frontier, TypeOK
  <2> QED
    BY <2>1, <2>2
<1>6. Ahead(e)' = Ahead(e)
  BY <1>5 DEF Ahead
<1>7. posted'[e] + Ahead(e)' - posted[e] - Ahead(e) <= faults' - faults
  BY <1>2, <1>3, <1>6
<1> QED
  BY <1>4, <1>7, TallyStep

\* Every step preserves the tally of every event.
LEMMA NextTally ==
    ASSUME DeliveryAssumption, DuplicatesInv, [Next]_vars
    PROVE  DuplicatesInv'
<1>1. Inv'
  BY NextInv DEF DuplicatesInv
<1>2. ASSUME NEW e \in Evts
      PROVE  IsFiniteSet(Stale(e)') /\ posted'[e] + Ahead(e)' + Cardinality(Stale(e)') <= 1 + faults'
  <2>1. /\ posted[e] \in Nat /\ faults \in Nat /\ faults' \in Nat /\ TypeOK /\ CallsSound
        /\ \A r \in Requests : ack[r] \in Nat
    BY <1>1, <1>2, TallyTypes DEF DuplicatesInv, Inv
  <2>2. ASSUME NEW r \in Requests, DeliverMessages(r)
        PROVE  IsFiniteSet(Stale(e)') /\ posted'[e] + Ahead(e)' + Cardinality(Stale(e)') <= 1 + faults'
    <3>1. /\ UNCHANGED <<cursor, inflight, base, size, posted, faults>>
          /\ pc[r] = "decode"
          /\ ack[r] = 0
      BY <2>1, <2>2 DEF DeliverMessages, hub, chat, CallsSound
    <3>2. /\ ack'[r] = 0
          /\ \A q \in Requests \ {r} : pc'[q] = pc[q] /\ ack'[q] = ack[q]
      BY <2>1, <2>2, <3>1 DEF DeliverMessages, Turn, TypeOK
    <3> QED
      BY <1>1, <2>1, <3>1, <3>2, TallyQuiet
  <2>3. ASSUME NEW r \in Requests, SendError(r)
        PROVE  IsFiniteSet(Stale(e)') /\ posted'[e] + Ahead(e)' + Cardinality(Stale(e)') <= 1 + faults'
    <3>1. UNCHANGED <<cursor, inflight, base, size>> /\ pc[r] \in Modes
      BY <2>3 DEF SendError, hub
    <3>2. posted'[e] - posted[e] <= faults' - faults
      BY <2>1, <2>3 DEF SendError, Fault, TypeOK
    <3>3. \A q \in Requests :
             /\ ack'[q] = ack[q] \/ ack'[q] = ack[q] + 1
             /\ pc'[q] = pc[q] \/ q = r
      BY <2>1, <2>3 DEF SendError, TypeOK
    <3>4. \A q \in Requests :
             /\ ack'[q] >= ack[q]
             /\ pc'[q] \in Modes \cup {"decode"} => pc[q] \in Modes \cup {"decode"}
      BY <2>1, <3>1, <3>3
    <3> QED
      BY <1>1, <3>1, <3>2, <3>4, TallyQuiet
  <2>4. ASSUME NEW r \in Requests,
               SendFlood(r) \/ SendForbidden(r) \/ UnsubscribeBlocked(r) \/ UnsubscribeBlockedLegacy(r)
        PROVE  IsFiniteSet(Stale(e)') /\ posted'[e] + Ahead(e)' + Cardinality(Stale(e)') <= 1 + faults'
    <3>1. UNCHANGED <<cursor, inflight, base, size, ack, posted>>
      BY <2>4 DEF SendFlood, SendForbidden, UnsubscribeBlocked, UnsubscribeBlockedLegacy, hub, chat
    <3>2. faults' >= faults
      BY <2>1, <2>4 DEF SendFlood, SendForbidden, UnsubscribeBlocked, UnsubscribeBlockedLegacy,
                        Unsubscribe, Fault
    <3>3. \A q \in Requests : pc'[q] \in Modes \cup {"decode"} => pc[q] \in Modes \cup {"decode"}
      BY <2>1, <2>4 DEF SendFlood, SendForbidden, UnsubscribeBlocked, UnsubscribeBlockedLegacy,
                        TypeOK, Modes
    <3> QED
      BY <1>1, <2>1, <3>1, <3>2, <3>3, TallyQuiet
  <2>5. CASE FloodUnsubscribe \/ FloodUnsubscribeLegacy \/ FloodWarn \/ Block \/ UNCHANGED vars
    <3>1. UNCHANGED <<cursor, inflight, pc, base, size, ack, posted>>
      BY <2>5 DEF FloodUnsubscribe, FloodUnsubscribeLegacy, FloodWarn, Block, vars, hub, call, chat
    <3>2. faults' >= faults
      BY <2>1, <2>5 DEF FloodUnsubscribe, FloodUnsubscribeLegacy, FloodWarn, Block, vars,
                        Unsubscribe, Fault
    <3> QED
      BY <1>1, <2>1, <3>1, <3>2, TallyQuiet
  <2> QED
    BY <1>1, <2>2, <2>3, <2>4, <2>5, PostTally, TimeoutTally, CrashTally, SendOkTally, RespondTally
       DEF Next, Deliver, Send, Environment
<1>3. Tally'
  BY <1>2 DEF Tally
<1> QED
  BY <1>1, <1>3 DEF DuplicatesInv

\* At first nothing is posted and everything is ahead.
LEMMA InitTally ==
    ASSUME DeliveryAssumption, Init
    PROVE  DuplicatesInv
<1>1. Inv
  BY InitInv
<1>2. ASSUME NEW e \in Evts
      PROVE  IsFiniteSet(Stale(e)) /\ posted[e] + Ahead(e) + Cardinality(Stale(e)) <= 1 + faults
  <2>1. Stale(e) = {}
    BY DEF Init, Stale, Modes
  <2>2. IsFiniteSet(Stale(e)) /\ Cardinality(Stale(e)) = 0
    BY <2>1, FS_EmptySet
  <2>3. posted[e] = 0 /\ faults = 0 /\ Ahead(e) \in {0, 1}
    BY DEF Init, Ahead
  <2> QED
    BY <2>2, <2>3
<1> QED
  BY <1>1, <1>2 DEF DuplicatesInv, Tally

\* The bound follows from the tally.
LEMMA TallyBounds ==
    ASSUME DeliveryAssumption, DuplicatesInv
    PROVE  DuplicatesBounded
<1> SUFFICES ASSUME NEW e \in Evts PROVE posted[e] <= 1 + faults
  BY DEF DuplicatesBounded
<1>1. /\ Cardinality(Stale(e)) \in Nat
      /\ posted[e] + Ahead(e) + Cardinality(Stale(e)) <= 1 + faults
  BY FS_CardinalityType DEF DuplicatesInv, Tally
<1>2. posted[e] \in Nat /\ faults \in Nat /\ Ahead(e) \in {0, 1}
  BY DEF DuplicatesInv, Inv, TypeOK, DeliveryAssumption, Ahead
<1> QED
  BY <1>1, <1>2

\* An event is posted once, and once more at most for each fault, however many
\* calls overlap: what is to be posted again is paid for by a fault in advance.
THEOREM PostedOnce == Spec => []DuplicatesBounded
<1>1. Init => DuplicatesInv
  BY DeliveryAssumption, InitTally
<1>2. DuplicatesInv /\ [Next]_vars => DuplicatesInv'
  BY DeliveryAssumption, NextTally
<1>3. DuplicatesInv => DuplicatesBounded
  BY DeliveryAssumption, TallyBounds
<1> QED
  BY <1>1, <1>2, <1>3, PTL DEF Spec
-----------------------------------------------------------------------------
(* The warning.                                                              *)

\* A goroutine past its first step has found the URL with the user id removed,
\* and one past its second step the other URL too, unless a call failed.
WarnSound ==
    ~BothLinked =>
        /\ registered \cap {User, "legacy"} \subseteq {Form}
        /\ faults = 0 =>
             /\ flood["legacy"] > 0 => User \notin registered
             /\ flood["warn"] > 0 \/ warned => Form \notin registered

\* Without a fault Unsubscribe removes the URL, and fails only if it is not there.
LEMMA UnsubscribeRemoves ==
    ASSUME NEW f, NEW ok, faults \in Nat, Unsubscribe(f, ok)
    PROVE  /\ registered' \subseteq registered
           /\ faults' >= faults
           /\ faults' # 0 \/ f \notin registered'
           /\ faults' # 0 \/ faults = 0
BY DEF Unsubscribe, Fault

\* No step but those of handleFloodError can disturb WarnSound.
LEMMA WarnKept ==
    ASSUME WarnSound, faults \in Nat, faults' \in Nat, faults' >= faults,
           registered' \subseteq registered,
           flood'["legacy"] > 0 => flood["legacy"] > 0,
           flood'["warn"] > 0 \/ warned' => flood["warn"] > 0 \/ warned
    PROVE  WarnSound'
<1>1. faults' = 0 => faults = 0
  OBVIOUS
<1> QED
  BY <1>1 DEF WarnSound

\* Every step preserves WarnSound.
LEMMA NextWarn ==
    ASSUME DeliveryAssumption, TypeOK, WarnSound, [Next]_vars, TypeOK'
    PROVE  WarnSound'
<1>1. /\ faults \in Nat /\ faults' \in Nat
      /\ \A s \in Stages : flood[s] \in Nat /\ flood'[s] \in Nat
      /\ DOMAIN flood = Stages
  BY DEF TypeOK, DeliveryAssumption
<1>2. CASE FloodUnsubscribe
  <2>1. PICK ok \in BOOLEAN :
          Unsubscribe(User, ok) /\ Advance("user", IF ok THEN "warn" ELSE "legacy")
    BY <1>2 DEF FloodUnsubscribe
  <2>2. /\ registered' \subseteq registered
        /\ faults' # 0 \/ User \notin registered'
        /\ faults' # 0 \/ faults = 0
    BY <1>1, <2>1, UnsubscribeRemoves
  <2>3. ~BothLinked /\ ok /\ faults' = 0 => Form \notin registered'
    <3>1. SUFFICES ASSUME ~BothLinked, ok, faults' = 0 PROVE Form \notin registered'
      OBVIOUS
    <3>2. User \in registered
      BY <2>1, <3>1, <1>1 DEF Unsubscribe, Fault
    <3>3. User = Form
      BY <3>1, <3>2 DEF WarnSound
    <3> QED
      BY <2>2, <3>1, <3>2, <3>3
  <2>4. /\ flood'["legacy"] = IF ok THEN flood["legacy"] ELSE flood["legacy"] + 1
        /\ flood'["warn"] = IF ok THEN flood["warn"] + 1 ELSE flood["warn"]
        /\ warned' = warned
    BY <1>1, <1>2, <2>1 DEF Advance, Stages, FloodUnsubscribe
  <2> QED
    BY <1>1, <2>2, <2>3, <2>4 DEF WarnSound, Stages
<1>3. CASE FloodUnsubscribeLegacy
  <2>1. PICK ok \in BOOLEAN : Unsubscribe("legacy", ok)
    BY <1>3 DEF FloodUnsubscribeLegacy
  <2>2. /\ registered' \subseteq registered
        /\ faults' # 0 \/ "legacy" \notin registered'
        /\ faults' # 0 \/ faults = 0
    BY <1>1, <2>1, UnsubscribeRemoves
  <2>3. flood["legacy"] > 0 /\ flood'["legacy"] = flood["legacy"] - 1 /\ warned' = warned
    BY <1>1, <1>3 DEF FloodUnsubscribeLegacy, Advance, Stages
  <2>4. ~BothLinked /\ faults' = 0 => Form \notin registered'
    BY <2>2, <2>3 DEF WarnSound, DeliveryAssumption
  <2> QED
    BY <1>1, <2>2, <2>3, <2>4 DEF WarnSound, Stages
<1>4. CASE FloodWarn
  <2>1. /\ UNCHANGED <<registered, faults>>
        /\ flood["warn"] > 0
        /\ flood'["legacy"] = flood["legacy"]
    BY <1>1, <1>4 DEF FloodWarn, hub, Stages
  <2> QED
    BY <1>1, <2>1, WarnKept
<1>5. CASE Timeout \/ Block \/ UNCHANGED vars
  <2>1. UNCHANGED <<registered, flood, warned>> /\ faults' >= faults
    BY <1>1, <1>5 DEF Timeout, Fault, Block, vars, hub, goroutines
  <2> QED
    BY <1>1, <2>1, WarnKept
<1>6. CASE Crash
  <2>1. /\ UNCHANGED <<registered, warned>>
        /\ faults' >= faults
        /\ \A s \in Stages : flood'[s] <= flood[s]
    BY <1>1, <1>6 DEF Crash, Fault
  <2> QED
    BY <1>1, <2>1, WarnKept DEF Stages
<1>7. ASSUME NEW r \in Requests,
             Post(r) \/ DeliverMessages(r) \/ SendOk(r) \/ SendForbidden(r) \/ SendError(r) \/ Respond(r)
      PROVE  WarnSound'
  <2>1. UNCHANGED <<registered, flood, warned>> /\ faults' >= faults
    BY <1>1, <1>7 DEF Post, DeliverMessages, SendOk, SendForbidden, SendError, Respond, Fault,
                      hub, goroutines
  <2> QED
    BY <1>1, <2>1, WarnKept
<1>8. ASSUME NEW r \in Requests, SendFlood(r) PROVE WarnSound'
  <2>1. /\ UNCHANGED <<registered, warned, faults>>
        /\ flood'["legacy"] = flood["legacy"]
        /\ flood'["warn"] = flood["warn"]
    BY <1>1, <1>8 DEF SendFlood, hub, Stages
  <2> QED
    BY <1>1, <2>1, WarnKept
<1>9. ASSUME NEW r \in Requests, UnsubscribeBlocked(r) \/ UnsubscribeBlockedLegacy(r)
      PROVE  WarnSound'
  <2>1. registered' \subseteq registered /\ faults' >= faults
    BY <1>1, <1>9, UnsubscribeRemoves DEF UnsubscribeBlocked, UnsubscribeBlockedLegacy
  <2>2. UNCHANGED <<flood, warned>>
    BY <1>9 DEF UnsubscribeBlocked, UnsubscribeBlockedLegacy, goroutines
  <2> QED
    BY <1>1, <2>1, <2>2, WarnKept
<1> QED
  BY <1>2, <1>3, <1>4, <1>5, <1>6, <1>7, <1>8, <1>9 DEF Next, Deliver, Send, Environment

\* The chat is told that the streaming stopped only when it has, unless a call of
\* Unsubscribe failed or the chat was registered under both of the URLs it tries.
THEOREM WarningIsTrue == Spec => []WarnedForAReason
<1>1. Init => WarnSound
  <2> SUFFICES ASSUME Init PROVE WarnSound
    OBVIOUS
  <2>1. ~BothLinked => Linked \cap {User, "legacy"} \subseteq {Form}
    BY DeliveryAssumption DEF DeliveryAssumption, BothLinked
  <2> QED
    BY <2>1 DEF Init, WarnSound, Stages
<1>2. TypeOK /\ TypeOK' /\ WarnSound /\ [Next]_vars => WarnSound'
  BY DeliveryAssumption, NextWarn
<1>3. TypeOK /\ WarnSound => WarnedForAReason
  BY DeliveryAssumption DEF WarnSound, WarnedForAReason, TypeOK, DeliveryAssumption
<1> QED
  BY <1>1, <1>2, <1>3, TypeCorrect, PTL DEF Spec
-----------------------------------------------------------------------------
(* The refinement.                                                           *)

\* A step which leaves the chat and the cursor alone is a stutter of the feed,
\* or closes it.
LEMMA StutterOrClose ==
    ASSUME UNCHANGED <<chat, cursor>>,
           Form \in registered' => Form \in registered
    PROVE  [F!Next]_(F!vars)
<1>1. Handled' = Handled
  BY DEF Handled, chat
<1>2. CASE (Form \in registered') = (Form \in registered)
  BY <1>1, <1>2 DEF F!vars
<1>3. CASE ~((Form \in registered') = (Form \in registered))
  <2>1. (Form \in registered') = FALSE
    BY <1>3
  <2> QED
    BY <1>1, <2>1 DEF F!Close, F!Next
<1> QED
  BY <1>2, <1>3

\* Unsubscribe never registers a callback.
LEMMA UnsubscribeCloses ==
    ASSUME NEW f, NEW ok, Unsubscribe(f, ok), Form \in registered'
    PROVE  Form \in registered
BY DEF Unsubscribe

\* Handling the current event of a call is a step of the feed: Inv says that its
\* predecessors are handled.
LEMMA HandleRefines ==
    ASSUME DeliveryAssumption, Inv, NEW r \in Requests, pc[r] \in Modes,
           Handled' = Handled \cup {Current(r)},
           UNCHANGED <<cursor, registered>>
    PROVE  F!Next
<1>1. Current(r) \in 1..NumEvts /\ 1..(Current(r) - 1) \subseteq Handled
  BY CurrentIsEvent DEF Evts
<1>2. 1..Current(r) \subseteq Handled'
  BY <1>1
<1>3. {Current(r)} \in SUBSET (1..NumEvts) /\ F!Handle({Current(r)})
  BY <1>1, <1>2 DEF F!Handle
<1> QED
  BY <1>3 DEF F!Next

\* Every step of the handler is a step of the feed or a stuttering one.
LEMMA StepRefines ==
    ASSUME DeliveryAssumption, Inv, Inv', [Next]_vars
    PROVE  [F!Next]_(F!vars)
<1>1. ASSUME NEW r \in Requests, SendOk(r) PROVE [F!Next]_(F!vars)
  <2>1. /\ Current(r) \in Evts
        /\ pc[r] \in Modes
        /\ posted' = [posted EXCEPT ![Current(r)] = @ + 1]
        /\ UNCHANGED <<cursor, registered, skipped>>
    BY <1>1, CurrentIsEvent DEF SendOk, hub
  <2>2. Handled' = Handled \cup {Current(r)}
    BY <2>1 DEF Inv, TypeOK, Handled
  <2> QED
    BY <2>1, <2>2, HandleRefines
<1>2. ASSUME NEW r \in Requests, SendError(r) PROVE [F!Next]_(F!vars)
  <2>1. /\ Current(r) \in Evts
        /\ pc[r] \in Modes
        /\ posted' = posted \/ posted' = [posted EXCEPT ![Current(r)] = @ + 1]
        /\ skipped' = skipped \/ skipped' = skipped \cup {Current(r)}
        /\ UNCHANGED <<cursor, registered>>
    BY <1>2, CurrentIsEvent DEF SendError, hub
  <2>2. CASE UNCHANGED <<posted, skipped>>
    BY <2>1, <2>2, StutterOrClose DEF chat
  <2>3. CASE ~UNCHANGED <<posted, skipped>>
    <3>1. Handled' = Handled \cup {Current(r)}
      BY <2>1, <2>3 DEF Inv, TypeOK, Handled
    <3> QED
      BY <2>1, <3>1, HandleRefines
  <2> QED
    BY <2>2, <2>3
<1>3. ASSUME NEW r \in Requests, Respond(r) PROVE [F!Next]_(F!vars)
  <2>1. Handled' = Handled /\ registered' = registered
    BY <1>3 DEF Respond, Handled, chat
  <2>2. cursor' \in 0..NumEvts /\ 1..cursor' \subseteq Handled
    BY <2>1 DEF Inv, TypeOK, NoLoss
  <2>3. cursor' >= cursor
    BY <1>3 DEF Respond, Inv, TypeOK
  <2>4. F!Ack(cursor')
    BY <2>1, <2>2, <2>3 DEF F!Ack
  <2> QED
    BY <2>2, <2>4 DEF F!Next
<1>4. ASSUME NEW r \in Requests, UnsubscribeBlocked(r) PROVE [F!Next]_(F!vars)
  <2>1. UNCHANGED <<chat, cursor>>
    BY <1>4 DEF UnsubscribeBlocked
  <2>2. Form \in registered' => Form \in registered
    BY <1>4, UnsubscribeCloses DEF UnsubscribeBlocked
  <2> QED
    BY <2>1, <2>2, StutterOrClose
<1>5. ASSUME NEW r \in Requests, UnsubscribeBlockedLegacy(r) PROVE [F!Next]_(F!vars)
  <2>1. UNCHANGED <<chat, cursor>>
    BY <1>5 DEF UnsubscribeBlockedLegacy
  <2>2. Form \in registered' => Form \in registered
    BY <1>5, UnsubscribeCloses DEF UnsubscribeBlockedLegacy
  <2> QED
    BY <2>1, <2>2, StutterOrClose
<1>6. CASE FloodUnsubscribe \/ FloodUnsubscribeLegacy
  <2>1. UNCHANGED <<chat, cursor>>
    BY <1>6 DEF FloodUnsubscribe, FloodUnsubscribeLegacy
  <2>2. Form \in registered' => Form \in registered
    BY <1>6, UnsubscribeCloses DEF FloodUnsubscribe, FloodUnsubscribeLegacy
  <2> QED
    BY <2>1, <2>2, StutterOrClose
<1>7. CASE FloodWarn \/ Timeout \/ Crash \/ Block \/ UNCHANGED vars
  <2>1. UNCHANGED <<chat, cursor, registered>>
    BY <1>7 DEF FloodWarn, Timeout, Crash, Block, vars, hub
  <2> QED
    BY <2>1, StutterOrClose
<1>8. ASSUME NEW r \in Requests,
             Post(r) \/ DeliverMessages(r) \/ SendFlood(r) \/ SendForbidden(r)
      PROVE  [F!Next]_(F!vars)
  <2>1. UNCHANGED <<chat, cursor, registered>>
    BY <1>8 DEF Post, DeliverMessages, SendFlood, SendForbidden, hub
  <2> QED
    BY <2>1, StutterOrClose
<1> QED
  BY <1>1, <1>2, <1>3, <1>4, <1>5, <1>6, <1>7, <1>8
     DEF Next, Deliver, Send, Environment

\* The handler implements the abstract feed: whatever its calls do, the hub and
\* the chat see an in-order, at-least-once feed.
THEOREM Refinement == Spec => ImplementsFeed
<1>1. Init => F!Init
  <2> SUFFICES ASSUME Init PROVE F!Init
    OBVIOUS
  <2>1. Handled = {}
    BY DEF Init, Handled, Evts
  <2>2. (Form \in registered) = TRUE
    BY DeliveryAssumption DEF DeliveryAssumption, Init
  <2> QED
    BY <2>1, <2>2 DEF Init, F!Init
<1>2. Inv /\ Inv' /\ [Next]_vars => [F!Next]_(F!vars)
  BY DeliveryAssumption, StepRefines
<1> QED
  BY <1>1, <1>2, Invariance, PTL DEF Spec, F!Spec, ImplementsFeed
=============================================================================
