----------------------------- MODULE StreamProofs -----------------------------
(***************************************************************************)
(* Proofs about Stream, the commands of a chat together with the delivery  *)
(* to it, for any number of concurrent commands and deliveries and any     *)
(* number of faults.                                                       *)
(*                                                                         *)
(* RepliesAddUp speaks of the moments when no command runs.  AddsUp makes  *)
(* it inductive: a command which is about to reply counts already.         *)
(* StopErrorMeansUnlinked needs Lookups, what a command which ran alone so *)
(* far knows of the table from the answers it has got.  Owned adds what    *)
(* the table was when such a command began.                                *)
(***************************************************************************)
EXTENDS Stream, FiniteSetTheorems, TLAPS

\* A step of the delivery, to this URL or another one.
DeliveryStep ==
    \/ \E r \in Requests : Post(r) \/ Deliver(r)
    \/ FloodUnsubscribe \/ FloodUnsubscribeLegacy \/ FloodWarn
    \/ Timeout \/ Block \/ OtherFeeds

\* The table is finite.
LEMMA TableFinite ==
    ASSUME SubscriptionsAssumption, NEW T, T \subseteq Urls
    PROVE  IsFiniteSet(T) /\ Cardinality(T) \in Nat
<1>1. IsFiniteSet(Urls)
  BY FS_AddElement DEF SubscriptionsAssumption, Urls
<1> QED
  BY <1>1, FS_Subset, FS_CardinalityType

\* What Unsubscribe of the delivery does to the table and to the faults.
LEMMA UnsubscribeRemoves ==
    ASSUME SubscriptionsAssumption, TypeOK, NEW f, NEW ok, D!Unsubscribe(f, ok)
    PROVE  registered' \subseteq registered /\ faults' \in faults..MaxFaults
BY DEF D!Unsubscribe, D!Fault, TypeOK, SubscriptionsAssumption

\* The delivery only ever removes from the table.
LEMMA DeliveryRemoves ==
    ASSUME SubscriptionsAssumption, TypeOK, DeliveryStep
    PROVE  /\ registered' \subseteq registered
           /\ faults' \in faults..MaxFaults
           /\ Removes
<1>1. /\ faults \in Nat /\ MaxFaults \in Nat /\ faults <= MaxFaults
  BY DEF TypeOK, SubscriptionsAssumption
<1>2. ASSUME NEW r \in Requests, Post(r) \/ Deliver(r)
      PROVE  registered' \subseteq registered /\ faults' \in faults..MaxFaults /\ Removes
  <2>1. Removes
    BY <1>2 DEF Post, Deliver
  <2>2. CASE D!Post(r) \/ D!DeliverMessages(r) \/ D!SendOk(r) \/ D!SendFlood(r)
             \/ D!SendForbidden(r) \/ D!Respond(r)
    BY <1>1, <2>1, <2>2 DEF D!Post, D!DeliverMessages, D!SendOk, D!SendFlood, D!SendForbidden,
                            D!Respond, D!hub
  <2>3. CASE D!SendError(r)
    BY <1>1, <2>1, <2>3 DEF D!SendError, D!Fault, D!hub
  <2>4. CASE D!UnsubscribeBlocked(r) \/ D!UnsubscribeBlockedLegacy(r)
    BY <2>1, <2>4, UnsubscribeRemoves DEF D!UnsubscribeBlocked, D!UnsubscribeBlockedLegacy
  <2> QED
    BY <1>2, <2>2, <2>3, <2>4 DEF Post, Deliver, D!Deliver, D!Send
<1>3. CASE FloodUnsubscribe \/ FloodUnsubscribeLegacy
  BY <1>3, UnsubscribeRemoves
     DEF FloodUnsubscribe, FloodUnsubscribeLegacy, D!FloodUnsubscribe, D!FloodUnsubscribeLegacy
<1>4. CASE FloodWarn \/ Timeout \/ Block
  BY <1>1, <1>4 DEF FloodWarn, Timeout, Block, D!FloodWarn, D!Timeout, D!Block, D!Fault, D!hub
<1>5. CASE OtherFeeds
  BY <1>1, <1>5 DEF OtherFeeds
<1> QED
  BY <1>2, <1>3, <1>4, <1>5 DEF DeliveryStep

\* What a crash leaves: the table, with a fault more.
LEMMA CrashFacts ==
    ASSUME SubscriptionsAssumption, TypeOK, Crash
    PROVE  /\ UNCHANGED <<registered, links, commands>>
           /\ faults' \in 0..MaxFaults
           /\ faults' > 0
BY DEF Crash, D!Crash, D!Fault, TypeOK, SubscriptionsAssumption
-----------------------------------------------------------------------------
(* The types.                                                                *)

PCs == {"idle", "subscribe", "replyLinked", "replyLimit", "replyFailure", "check",
        "checkLegacy", "unsubscribe", "unsubscribeLegacy", "replyStopped", "replyError"}

\* The user who gave a command is known as long as it runs.
Given == \A c \in Calls : by[c] \in IF Idle(c) THEN {"nobody"} ELSE Users

\* A step in the midst of a command leaves the user alone.
LEMMA GotoGiven ==
    ASSUME TypeOK, NEW c \in Calls, ~Idle(c), NEW l \in PCs \ {"idle"}, Goto(c, l), by' = by
    PROVE  Given'
<1>1. \A d \in Calls : pc'[d] = IF d = c THEN l ELSE pc[d]
  BY DEF Goto, TypeOK
<1> QED
  BY <1>1 DEF Given, Idle, TypeOK

\* A command which starts has the types.
LEMMA BeginType ==
    ASSUME TypeOK, NEW c \in Calls, NEW l \in PCs \ {"idle"}, Begin(c, l)
    PROVE  /\ Given'
           /\ pc' \in [Calls -> PCs]
           /\ by' \in [Calls -> Users \cup {"nobody"}]
           /\ before' \in [Calls -> SUBSET Urls]
           /\ alone' \in [Calls -> BOOLEAN]
           /\ clean' \in [Calls -> BOOLEAN]
<1>1. (\A e \in Calls : Idle(e)) \in BOOLEAN
  OBVIOUS
<1>2. PICK u \in Users : by' = [by EXCEPT ![c] = u]
  BY DEF Begin
<1>3. \A d \in Calls : /\ pc'[d] = IF d = c THEN l ELSE pc[d]
                       /\ by'[d] = IF d = c THEN u ELSE by[d]
  BY <1>2 DEF Begin, TypeOK
<1>4. Given'
  BY <1>3 DEF Given, Idle, TypeOK
<1> QED
  BY <1>1, <1>2, <1>4 DEF Begin, TypeOK, PCs

\* The calls of the hub keep the types.
LEMMA HubType ==
    ASSUME SubscriptionsAssumption, TypeOK, NEW c \in Calls, NEW f, NEW res, by[c] \in Users,
           \/ Subscribe(c, res)
           \/ Subscription(c, f, res) /\ UNCHANGED registered
           \/ Unsubscribe(c, f, res)
    PROVE  /\ registered' \subseteq Urls
           /\ clean' \in [Calls -> BOOLEAN]
           /\ faults' \in 0..MaxFaults
<1>1. clean' \in [Calls -> BOOLEAN] /\ faults' \in 0..MaxFaults
  <2>1. UNCHANGED <<clean, faults>> \/ Fail(c)
    BY DEF Subscribe, Subscription, Unsubscribe
  <2>2. clean' \in [Calls -> BOOLEAN]
    BY <2>1 DEF Fail, TypeOK
  <2>3. faults' \in 0..MaxFaults
    BY <2>1 DEF Fail, TypeOK, SubscriptionsAssumption
  <2> QED
    BY <2>2, <2>3
<1>2. registered' \subseteq registered \cup {by[c]}
  <2>1. Subscribe(c, res) => registered' \subseteq registered \cup {by[c]}
    BY DEF Subscribe
  <2>2. Unsubscribe(c, f, res) => registered' \subseteq registered
    BY DEF Unsubscribe
  <2> QED
    BY <2>1, <2>2
<1>3. registered' \subseteq Urls
  BY <1>2 DEF TypeOK, Urls
<1> QED
  BY <1>1, <1>3

\* Every step of a command keeps the types.
LEMMA StepType ==
    ASSUME SubscriptionsAssumption, TypeOK, NEW c \in Calls, Step(c)
    PROVE  TypeOK'
<1>0. ~Idle(c) /\ by[c] \in Users
  <2>1. ~Idle(c)
    BY DEF Step, StartSubscribe, StartReply, StopCheck, StopCheckLegacy, StopUnsubscribe,
           StopReply, Idle
  <2> QED
    BY <2>1 DEF TypeOK
<1>1. pc \in [Calls -> PCs]
  BY DEF TypeOK, PCs
<1>2. CASE StartSubscribe(c)
  <2>1. PICK res \in Results :
          /\ Subscribe(c, res)
          /\ Goto(c, CASE res = "ok" -> "replyLinked"
                       [] res = "exhausted" -> "replyLimit"
                       [] OTHER -> "replyFailure")
    BY <1>2 DEF StartSubscribe
  <2>2. registered' \subseteq Urls /\ clean' \in [Calls -> BOOLEAN] /\ faults' \in 0..MaxFaults
    BY <1>0, <2>1, HubType
  <2>3. pc' \in [Calls -> PCs]
    BY <1>1, <2>1 DEF Goto, PCs
  <2>4. Given'
    <3>1. PICK l \in {"replyLinked", "replyLimit", "replyFailure"} : Goto(c, l)
      BY <2>1
    <3> QED
      BY <1>0, <1>2, <3>1, GotoGiven DEF StartSubscribe, PCs
  <2> QED
    BY <1>2, <2>2, <2>3, <2>4 DEF StartSubscribe, TypeOK, PCs, Given
<1>3. CASE StopCheck(c) \/ StopCheckLegacy(c)
  <2>1. PICK f \in Urls, res \in Results : Subscription(c, f, res)
    BY <1>0, <1>3 DEF StopCheck, StopCheckLegacy, Urls
  <2>2. registered' \subseteq Urls /\ clean' \in [Calls -> BOOLEAN] /\ faults' \in 0..MaxFaults
    BY <1>0, <1>3, <2>1, HubType DEF StopCheck, StopCheckLegacy
  <2>3. pc' \in [Calls -> PCs]
    BY <1>1, <1>3 DEF StopCheck, StopCheckLegacy, Goto, PCs
  <2>4. Given'
    <3>1. PICK l \in {"unsubscribe", "checkLegacy", "unsubscribeLegacy", "replyError"} : Goto(c, l)
      BY <1>3 DEF StopCheck, StopCheckLegacy
    <3> QED
      BY <1>0, <1>3, <3>1, GotoGiven DEF StopCheck, StopCheckLegacy, PCs
  <2> QED
    BY <1>3, <2>2, <2>3, <2>4 DEF StopCheck, StopCheckLegacy, TypeOK, PCs, Given
<1>4. CASE StopUnsubscribe(c)
  <2>1. PICK f \in Urls, res \in Results : Unsubscribe(c, f, res)
    BY <1>0, <1>4 DEF StopUnsubscribe, Urls
  <2>2. registered' \subseteq Urls /\ clean' \in [Calls -> BOOLEAN] /\ faults' \in 0..MaxFaults
    BY <1>0, <2>1, HubType
  <2>3. pc' \in [Calls -> PCs]
    BY <1>1, <1>4 DEF StopUnsubscribe, Goto, PCs
  <2>4. Given'
    <3>1. PICK l \in {"replyStopped", "replyError"} : Goto(c, l)
      BY <1>4 DEF StopUnsubscribe
    <3> QED
      BY <1>0, <1>4, <3>1, GotoGiven DEF StopUnsubscribe, PCs
  <2> QED
    BY <1>4, <2>2, <2>3, <2>4 DEF StopUnsubscribe, TypeOK, PCs, Given
<1>5. CASE StartReply(c) \/ StopReply(c)
  <2>1. End(c) /\ UNCHANGED <<registered, commands, faults>> /\ links' \in Int
    BY <1>5 DEF StartReply, StopReply, TypeOK
  <2>2. \A d \in Calls : /\ pc'[d] = IF d = c THEN "idle" ELSE pc[d]
                         /\ by'[d] = IF d = c THEN "nobody" ELSE by[d]
    BY <2>1 DEF End, Goto, TypeOK
  <2>3. Given'
    BY <2>2 DEF Given, Idle, TypeOK
  <2> QED
    BY <1>1, <2>1, <2>3 DEF End, Goto, TypeOK, PCs, Given
<1> QED
  BY <1>2, <1>3, <1>4, <1>5 DEF Step

\* Every step of the whole keeps the types.
LEMMA NextType ==
    ASSUME SubscriptionsAssumption, TypeOK, [StreamNext]_allVars
    PROVE  TypeOK'
<1>1. ASSUME NEW c \in Calls, Command(c) PROVE TypeOK'
  <2>1. PICK l \in {"subscribe", "check"} : Begin(c, l)
    BY <1>1 DEF Command, Start, Stop
  <2>2. /\ Given'
        /\ pc' \in [Calls -> PCs]
        /\ by' \in [Calls -> Users \cup {"nobody"}]
        /\ before' \in [Calls -> SUBSET Urls]
        /\ alone' \in [Calls -> BOOLEAN]
        /\ clean' \in [Calls -> BOOLEAN]
    BY <2>1, BeginType DEF PCs
  <2>3. commands' \in 0..MaxCommands /\ UNCHANGED <<registered, links, faults>>
    BY <1>1 DEF Command, Start, Stop, TypeOK, SubscriptionsAssumption
  <2> QED
    BY <2>2, <2>3 DEF TypeOK, PCs, Given
<1>2. ASSUME NEW c \in Calls, Serve(c) PROVE TypeOK'
  BY <1>2, StepType DEF Serve
<1>3. CASE DeliveryStep
  <2>1. registered' \subseteq registered /\ faults' \in faults..MaxFaults /\ Removes
    BY <1>3, DeliveryRemoves
  <2>2. Cardinality(registered \ registered') \in Int
    <3>1. registered \ registered' \subseteq Urls
      BY DEF TypeOK
    <3> QED
      BY <3>1, TableFinite
  <2>3. links' \in Int
    BY <2>1, <2>2 DEF Removes, TypeOK
  <2>4. alone' \in [Calls -> BOOLEAN]
    BY <2>1 DEF Removes, TypeOK
  <2>5. registered' \subseteq Urls /\ faults' \in 0..MaxFaults
    BY <2>1 DEF TypeOK, SubscriptionsAssumption
  <2>6. UNCHANGED <<pc, by>>
    BY <2>1 DEF Removes
  <2> QED
    BY <2>1, <2>3, <2>4, <2>5, <2>6 DEF Removes, TypeOK, Idle
<1>4. CASE Crash
  <2>1. UNCHANGED <<registered, links, commands>> /\ faults' \in 0..MaxFaults
    BY <1>4, CrashFacts
  <2>2. PICK dead \in SUBSET Calls :
          /\ pc' = [c \in Calls |-> IF c \in dead THEN "idle" ELSE pc[c]]
          /\ by' = [c \in Calls |-> IF c \in dead THEN "nobody" ELSE by[c]]
          /\ before' = [c \in Calls |-> IF c \in dead THEN {} ELSE before[c]]
          /\ alone' = [c \in Calls |-> c \notin dead /\ alone[c]]
          /\ clean' = [c \in Calls |-> c \in dead \/ clean[c]]
    BY <1>4 DEF Crash
  <2>3. pc' \in [Calls -> PCs] /\ before' \in [Calls -> SUBSET Urls]
    BY <2>2 DEF TypeOK, PCs
  <2>4. alone' \in [Calls -> BOOLEAN] /\ clean' \in [Calls -> BOOLEAN]
    BY <2>2 DEF TypeOK
  <2>5. by' \in [Calls -> Users \cup {"nobody"}] /\ Given'
    BY <2>2 DEF TypeOK, Given, Idle
  <2> QED
    BY <2>1, <2>3, <2>4, <2>5 DEF TypeOK, PCs, Given
<1>5. CASE UNCHANGED allVars
  BY <1>5 DEF allVars, vars, run, TypeOK, Idle
<1> QED
  BY <1>1, <1>2, <1>3, <1>4, <1>5 DEF StreamNext, DeliveryStep

\* The chat is only ever registered under the URLs with the ids of its users and the one
\* without.
THEOREM StreamTypeCorrect == StreamSpec => []TypeOK
<1>1. StreamInit => TypeOK
  <2> SUFFICES ASSUME StreamInit PROVE TypeOK
    OBVIOUS
  <2>1. Cardinality(Linked) \in Int
    BY TableFinite, SubscriptionsAssumption DEF SubscriptionsAssumption
  <2> QED
    BY <2>1, SubscriptionsAssumption DEF StreamInit, Init, TypeOK, Idle, SubscriptionsAssumption
<1>2. TypeOK /\ [StreamNext]_allVars => TypeOK'
  BY SubscriptionsAssumption, NextType
<1> QED
  BY <1>1, <1>2, PTL DEF StreamSpec
-----------------------------------------------------------------------------
(* The replies and the table.                                                *)

At(l) == {c \in Calls : pc[c] = l}

\* A registration counts from the moment it is made, and a removal too: the reply
\* which accounts for it is on its way.
AddsUp ==
    /\ IsFiniteSet(At("replyLinked")) /\ IsFiniteSet(At("replyStopped"))
    /\ faults = 0 =>
         links + Cardinality(At("replyLinked"))
           = Cardinality(registered) + Cardinality(At("replyStopped"))

\* The numbers of AddsUp.
LEMMA AddsUpTypes ==
    ASSUME SubscriptionsAssumption, TypeOK, AddsUp
    PROVE  /\ links \in Int
           /\ IsFiniteSet(registered) /\ Cardinality(registered) \in Nat
           /\ Cardinality(At("replyLinked")) \in Nat
           /\ Cardinality(At("replyStopped")) \in Nat
BY TableFinite, FS_CardinalityType DEF TypeOK, AddsUp

\* A call which goes elsewhere changes at most the two sets it goes from and to.
LEMMA GotoMoves ==
    ASSUME TypeOK, NEW c \in Calls, NEW l, Goto(c, l), NEW k, IsFiniteSet(At(k))
    PROVE  /\ IsFiniteSet(At(k)')
           /\ l = k /\ pc[c] # k =>
                 At(k)' = At(k) \cup {c} /\ Cardinality(At(k)') = Cardinality(At(k)) + 1
           /\ l # k /\ pc[c] = k =>
                 At(k)' = At(k) \ {c} /\ Cardinality(At(k)') = Cardinality(At(k)) - 1
           /\ l # k /\ pc[c] # k => At(k)' = At(k)
<1>1. \A d \in Calls : pc'[d] = IF d = c THEN l ELSE pc[d]
  BY DEF Goto, TypeOK
<1>2. CASE l = k
  <2>1. At(k)' = At(k) \cup {c}
    BY <1>1, <1>2 DEF At
  <2>2. pc[c] # k => c \notin At(k)
    BY DEF At
  <2> QED
    BY <1>2, <2>1, <2>2, FS_AddElement
<1>3. CASE l # k
  <2>1. At(k)' = At(k) \ {c}
    BY <1>1, <1>3 DEF At
  <2>2. (pc[c] = k => c \in At(k)) /\ (pc[c] # k => At(k) \ {c} = At(k))
    BY DEF At
  <2> QED
    BY <1>3, <2>1, <2>2, FS_RemoveElement
<1> QED
  BY <1>2, <1>3

\* A step of a command keeps the balance.
LEMMA StepAddsUp ==
    ASSUME SubscriptionsAssumption, TypeOK, TypeOK', AddsUp, NEW c \in Calls, Step(c)
    PROVE  AddsUp'
<1>0. /\ faults \in Nat /\ links \in Int
      /\ IsFiniteSet(registered) /\ Cardinality(registered) \in Nat
      /\ Cardinality(At("replyLinked")) \in Nat
      /\ Cardinality(At("replyStopped")) \in Nat
      /\ IsFiniteSet(At("replyLinked")) /\ IsFiniteSet(At("replyStopped"))
  BY AddsUpTypes DEF TypeOK, AddsUp, SubscriptionsAssumption
<1>1. CASE StartSubscribe(c)
  <2>1. PICK res \in Results :
          /\ Subscribe(c, res)
          /\ Goto(c, CASE res = "ok" -> "replyLinked"
                       [] res = "exhausted" -> "replyLimit"
                       [] OTHER -> "replyFailure")
    BY <1>1 DEF StartSubscribe
  <2>2. pc[c] = "subscribe" /\ links' = links
    BY <1>1 DEF StartSubscribe
  <2>3. CASE res = "ok"
    <3>1. Goto(c, "replyLinked") /\ registered' = registered \cup {by[c]} /\ by[c] \notin registered
      BY <2>1, <2>3 DEF Subscribe
    <3>2. /\ Cardinality(At("replyLinked")') = Cardinality(At("replyLinked")) + 1
          /\ At("replyStopped")' = At("replyStopped")
          /\ IsFiniteSet(At("replyLinked")')
      BY <1>0, <2>2, <3>1, GotoMoves
    <3>3. Cardinality(registered') = Cardinality(registered) + 1
      BY <1>0, <3>1, FS_AddElement
    <3>4. faults' = faults
      BY <2>1, <2>3 DEF Subscribe
    <3> QED
      BY <1>0, <2>2, <3>2, <3>3, <3>4 DEF AddsUp
  <2>4. CASE res # "ok"
    <3>1. PICK l \in {"replyLimit", "replyFailure"} : Goto(c, l)
      BY <2>1, <2>4
    <3>2. At("replyLinked")' = At("replyLinked") /\ At("replyStopped")' = At("replyStopped")
      BY <1>0, <2>2, <3>1, GotoMoves
    <3>3. faults' = 0 => faults = 0 /\ registered' = registered
      BY <1>0, <2>1, <2>4 DEF Subscribe, Fail
    <3> QED
      BY <1>0, <2>2, <3>2, <3>3 DEF AddsUp
  <2> QED
    BY <2>3, <2>4
<1>2. CASE StopCheck(c) \/ StopCheckLegacy(c)
  <2>1. PICK l \in {"unsubscribe", "checkLegacy", "unsubscribeLegacy", "replyError"} : Goto(c, l)
    BY <1>2 DEF StopCheck, StopCheckLegacy
  <2>2. At("replyLinked")' = At("replyLinked") /\ At("replyStopped")' = At("replyStopped")
    BY <1>0, <1>2, <2>1, GotoMoves DEF StopCheck, StopCheckLegacy
  <2>3. (faults' = 0 => faults = 0) /\ UNCHANGED <<registered, links>>
    BY <1>0, <1>2 DEF StopCheck, StopCheckLegacy, Subscription, Fail
  <2> QED
    BY <1>0, <2>2, <2>3 DEF AddsUp
<1>3. CASE StopUnsubscribe(c)
  <2>1. PICK f \in Urls, res \in Results :
          /\ Unsubscribe(c, f, res)
          /\ Goto(c, IF res = "ok" THEN "replyStopped" ELSE "replyError")
    <3>1. by[c] \in Urls /\ "legacy" \in Urls
      BY <1>3 DEF StopUnsubscribe, TypeOK, Idle, Urls
    <3> QED
      BY <1>3, <3>1 DEF StopUnsubscribe
  <2>2. pc[c] \in {"unsubscribe", "unsubscribeLegacy"} /\ links' = links
    BY <1>3 DEF StopUnsubscribe
  <2>3. CASE res = "ok"
    <3>1. /\ Goto(c, "replyStopped")
          /\ registered' = registered \ {f} /\ f \in registered
          /\ faults' = faults
      BY <2>1, <2>3 DEF Unsubscribe
    <3>2. /\ Cardinality(At("replyStopped")') = Cardinality(At("replyStopped")) + 1
          /\ At("replyLinked")' = At("replyLinked")
          /\ IsFiniteSet(At("replyStopped")')
      BY <1>0, <2>2, <3>1, GotoMoves
    <3>3. Cardinality(registered') = Cardinality(registered) - 1
      BY <1>0, <3>1, FS_RemoveElement
    <3> QED
      BY <1>0, <2>2, <3>1, <3>2, <3>3 DEF AddsUp
  <2>4. CASE res # "ok"
    <3>1. Goto(c, "replyError")
      BY <2>1, <2>4
    <3>2. At("replyLinked")' = At("replyLinked") /\ At("replyStopped")' = At("replyStopped")
      BY <1>0, <2>2, <3>1, GotoMoves
    <3>3. faults' = 0 => faults = 0 /\ registered' = registered
      BY <1>0, <2>1, <2>4 DEF Unsubscribe, Fail
    <3> QED
      BY <1>0, <2>2, <3>2, <3>3 DEF AddsUp
  <2> QED
    BY <2>3, <2>4
<1>4. CASE StartReply(c)
  <2>1. Goto(c, "idle") /\ UNCHANGED <<registered, faults>>
    BY <1>4 DEF StartReply, End
  <2>2. /\ IsFiniteSet(At("replyLinked")')
        /\ At("replyStopped")' = At("replyStopped")
        /\ pc[c] = "replyLinked" => Cardinality(At("replyLinked")') = Cardinality(At("replyLinked")) - 1
        /\ pc[c] # "replyLinked" => At("replyLinked")' = At("replyLinked")
    BY <1>0, <1>4, <2>1, GotoMoves DEF StartReply
  <2>3. links' = IF pc[c] = "replyLinked" THEN links + 1 ELSE links
    BY <1>4 DEF StartReply
  <2> QED
    BY <1>0, <2>1, <2>2, <2>3 DEF AddsUp
<1>5. CASE StopReply(c)
  <2>1. Goto(c, "idle") /\ UNCHANGED <<registered, faults>>
    BY <1>5 DEF StopReply, End
  <2>2. /\ IsFiniteSet(At("replyStopped")')
        /\ At("replyLinked")' = At("replyLinked")
        /\ pc[c] = "replyStopped" => Cardinality(At("replyStopped")') = Cardinality(At("replyStopped")) - 1
        /\ pc[c] # "replyStopped" => At("replyStopped")' = At("replyStopped")
    BY <1>0, <1>5, <2>1, GotoMoves DEF StopReply
  <2>3. links' = IF pc[c] = "replyStopped" THEN links - 1 ELSE links
    BY <1>5 DEF StopReply
  <2> QED
    BY <1>0, <2>1, <2>2, <2>3 DEF AddsUp
<1> QED
  BY <1>1, <1>2, <1>3, <1>4, <1>5 DEF Step

\* Every step of the whole keeps the balance.
LEMMA NextAddsUp ==
    ASSUME SubscriptionsAssumption, TypeOK, TypeOK', AddsUp, [StreamNext]_allVars
    PROVE  AddsUp'
<1>0. /\ faults \in Nat /\ links \in Int
      /\ IsFiniteSet(registered) /\ Cardinality(registered) \in Nat
      /\ Cardinality(At("replyLinked")) \in Nat
      /\ Cardinality(At("replyStopped")) \in Nat
      /\ IsFiniteSet(At("replyLinked")) /\ IsFiniteSet(At("replyStopped"))
  BY AddsUpTypes DEF TypeOK, AddsUp, SubscriptionsAssumption
<1>1. ASSUME NEW c \in Calls, Command(c) PROVE AddsUp'
  <2>1. PICK l \in {"subscribe", "check"} : Goto(c, l)
    BY <1>1 DEF Command, Start, Stop, Begin, Goto
  <2>2. pc[c] = "idle" /\ UNCHANGED <<registered, links, faults>>
    BY <1>1 DEF Command, Start, Stop, Begin, Idle
  <2>3. At("replyLinked")' = At("replyLinked") /\ At("replyStopped")' = At("replyStopped")
    BY <1>0, <2>1, <2>2, GotoMoves
  <2> QED
    BY <2>2, <2>3 DEF AddsUp
<1>2. ASSUME NEW c \in Calls, Serve(c) PROVE AddsUp'
  BY <1>2, StepAddsUp DEF Serve
<1>3. CASE DeliveryStep
  <2>1. registered' \subseteq registered /\ faults' \in faults..MaxFaults /\ Removes
    BY <1>3, DeliveryRemoves
  <2>2. At("replyLinked")' = At("replyLinked") /\ At("replyStopped")' = At("replyStopped")
    BY <2>1 DEF Removes, At
  <2>3. Cardinality(registered \ registered') = Cardinality(registered) - Cardinality(registered')
    <3>1. registered \cap registered' = registered'
      BY <2>1
    <3> QED
      BY <1>0, <3>1, FS_Difference
  <2>4. Cardinality(registered') \in Nat
    BY <1>0, <2>1, FS_Subset, FS_CardinalityType
  <2>5. links' = links - (Cardinality(registered) - Cardinality(registered'))
    BY <2>1, <2>3 DEF Removes
  <2>6. faults' = 0 => faults = 0
    BY <1>0, <2>1 DEF SubscriptionsAssumption
  <2> QED
    BY <1>0, <2>2, <2>4, <2>5, <2>6 DEF AddsUp
<1>4. CASE Crash
  <2>1. PICK dead \in SUBSET Calls :
          pc' = [c \in Calls |-> IF c \in dead THEN "idle" ELSE pc[c]]
    BY <1>4 DEF Crash
  <2>2. /\ At("replyLinked")' \in SUBSET At("replyLinked")
        /\ At("replyStopped")' \in SUBSET At("replyStopped")
    BY <2>1 DEF At
  <2>3. IsFiniteSet(At("replyLinked")') /\ IsFiniteSet(At("replyStopped")')
    BY <1>0, <2>2, FS_Subset
  <2>4. faults' > 0
    BY <1>4, CrashFacts
  <2> QED
    BY <2>3, <2>4 DEF AddsUp
<1>5. CASE UNCHANGED allVars
  BY <1>5 DEF allVars, vars, run, AddsUp, At
<1> QED
  BY <1>1, <1>2, <1>3, <1>4, <1>5 DEF StreamNext, DeliveryStep

\* Whatever commands, refusals and floods overlap, the replies and the removals of
\* the delivery add up to the hub's table whenever no command runs.
THEOREM RepliesAccount == StreamSpec => []RepliesAddUp
<1>1. StreamInit => AddsUp
  <2> SUFFICES ASSUME StreamInit PROVE AddsUp
    OBVIOUS
  <2>1. At("replyLinked") = {} /\ At("replyStopped") = {}
    BY DEF StreamInit, Init, At
  <2>2. Cardinality(Linked) \in Nat
    BY TableFinite, SubscriptionsAssumption DEF SubscriptionsAssumption
  <2>3. links = Cardinality(registered) /\ registered = Linked
    BY DEF StreamInit, Init
  <2> QED
    BY <2>1, <2>2, <2>3, FS_EmptySet DEF AddsUp
<1>2. TypeOK /\ TypeOK' /\ AddsUp /\ [StreamNext]_allVars => AddsUp'
  BY SubscriptionsAssumption, NextAddsUp
<1>3. TypeOK /\ AddsUp => RepliesAddUp
  <2> SUFFICES ASSUME TypeOK, AddsUp, Quiet, faults = 0 PROVE links = Cardinality(registered)
    BY DEF RepliesAddUp
  <2>1. At("replyLinked") = {} /\ At("replyStopped") = {}
    BY DEF Quiet, Idle, At
  <2>2. Cardinality({}) = 0
    BY FS_EmptySet
  <2>3. links \in Int /\ Cardinality(registered) \in Nat
    BY SubscriptionsAssumption, AddsUpTypes
  <2> QED
    BY <2>1, <2>2, <2>3 DEF AddsUp
<1> QED
  BY <1>1, <1>2, <1>3, StreamTypeCorrect, PTL DEF StreamSpec
-----------------------------------------------------------------------------
(* What a command which runs alone has found out.                            *)

Lookups ==
    \A c \in Calls :
        alone[c] =>
            /\ \A d \in Calls \ {c} : Idle(d)
            /\ clean[c] =>
                 /\ pc[c] = "checkLegacy" => by[c] \notin registered
                 /\ pc[c] = "unsubscribe" => by[c] \in registered
                 /\ pc[c] = "unsubscribeLegacy" => "legacy" \in registered
                 /\ pc[c] = "replyError" => registered \cap {by[c], "legacy"} = {}

\* A step of a command: the others are not alone, and it learns what the hub answers.
LEMMA StepLookups ==
    ASSUME TypeOK, Lookups, NEW c \in Calls, Step(c)
    PROVE  Lookups'
<1>1. ~Idle(c)
  BY DEF Step, StartSubscribe, StartReply, StopCheck, StopCheckLegacy, StopUnsubscribe, StopReply, Idle
<1>2. ASSUME NEW d \in Calls, d # c PROVE ~alone[d]
  BY <1>1, <1>2 DEF Lookups
<1>3. CASE StartReply(c) \/ StopReply(c)
  <2>1. alone' = [alone EXCEPT ![c] = FALSE]
    BY <1>3 DEF StartReply, StopReply, End
  <2>2. \A d \in Calls : ~alone'[d]
    BY <1>2, <2>1 DEF TypeOK
  <2> QED
    BY <2>2 DEF Lookups
<1>4. CASE ~(StartReply(c) \/ StopReply(c))
  <2>1. /\ alone' = alone /\ by' = by
        /\ \A d \in Calls \ {c} : pc'[d] = pc[d]
    BY <1>4 DEF Step, StartSubscribe, StopCheck, StopCheckLegacy, StopUnsubscribe, Goto, TypeOK
  <2>2. SUFFICES ASSUME alone[c], clean'[c]
                 PROVE  /\ pc'[c] = "checkLegacy" => by[c] \notin registered'
                        /\ pc'[c] = "unsubscribe" => by[c] \in registered'
                        /\ pc'[c] = "unsubscribeLegacy" => "legacy" \in registered'
                        /\ pc'[c] = "replyError" => registered' \cap {by[c], "legacy"} = {}
    BY <1>2, <2>1 DEF Lookups, Idle
  <2>3. ~Fail(c)
    BY <2>2 DEF Fail, TypeOK
  <2>4. CASE StartSubscribe(c)
    <3>1. pc'[c] \in {"replyLinked", "replyLimit", "replyFailure"}
      BY <2>4 DEF StartSubscribe, Goto, TypeOK
    <3> QED
      BY <3>1
  <2>5. CASE StopCheck(c)
    <3>1. PICK res \in Results :
            /\ Subscription(c, by[c], res)
            /\ Goto(c, IF res = "ok" THEN "unsubscribe" ELSE "checkLegacy")
      BY <2>5 DEF StopCheck
    <3>2. pc'[c] = IF by[c] \in registered THEN "unsubscribe" ELSE "checkLegacy"
      BY <2>3, <3>1 DEF Subscription, Goto, TypeOK
    <3> QED
      BY <2>5, <3>2 DEF StopCheck
  <2>6. CASE StopCheckLegacy(c)
    <3>1. PICK res \in Results :
            /\ Subscription(c, "legacy", res)
            /\ Goto(c, IF res = "ok" THEN "unsubscribeLegacy" ELSE "replyError")
      BY <2>6 DEF StopCheckLegacy
    <3>2. pc'[c] = IF "legacy" \in registered THEN "unsubscribeLegacy" ELSE "replyError"
      BY <2>3, <3>1 DEF Subscription, Goto, TypeOK
    <3>3. clean[c] /\ registered' = registered
      BY <2>2, <2>3, <2>6, <3>1 DEF StopCheckLegacy, Subscription
    <3>4. by[c] \notin registered
      BY <2>2, <2>6, <3>3 DEF Lookups, StopCheckLegacy
    <3> QED
      BY <3>2, <3>3, <3>4
  <2>7. CASE StopUnsubscribe(c)
    <3>1. PICK res \in Results :
            /\ Unsubscribe(c, IF pc[c] = "unsubscribe" THEN by[c] ELSE "legacy", res)
            /\ Goto(c, IF res = "ok" THEN "replyStopped" ELSE "replyError")
      BY <2>7 DEF StopUnsubscribe
    <3>2. clean[c]
      BY <2>2, <2>3, <3>1 DEF Unsubscribe
    <3>3. (IF pc[c] = "unsubscribe" THEN by[c] ELSE "legacy") \in registered
      BY <2>2, <2>7, <3>2 DEF Lookups, StopUnsubscribe
    <3>4. res = "ok"
      BY <2>3, <3>1, <3>3 DEF Unsubscribe
    <3>5. pc'[c] = "replyStopped"
      BY <3>1, <3>4 DEF Goto, TypeOK
    <3> QED
      BY <3>5
  <2> QED
    BY <1>4, <2>4, <2>5, <2>6, <2>7 DEF Step
<1> QED
  BY <1>3, <1>4

\* Every step of the whole keeps what a command which is alone has found out.
LEMMA NextLookups ==
    ASSUME SubscriptionsAssumption, TypeOK, Lookups, [StreamNext]_allVars
    PROVE  Lookups'
<1>1. ASSUME NEW c \in Calls, Command(c) PROVE Lookups'
  <2>1. PICK l \in {"subscribe", "check"} : Begin(c, l)
    BY <1>1 DEF Command, Start, Stop
  <2>2. /\ \A d \in Calls : alone'[d] => d = c /\ \A e \in Calls : Idle(e)
        /\ pc'[c] = l
        /\ \A d \in Calls \ {c} : pc'[d] = pc[d]
    BY <2>1 DEF Begin, TypeOK
  <2> QED
    BY <2>2 DEF Lookups, Idle
<1>2. ASSUME NEW c \in Calls, Serve(c) PROVE Lookups'
  BY <1>2, StepLookups DEF Serve
<1>3. CASE DeliveryStep
  <2>1. Removes
    BY <1>3, DeliveryRemoves
  <2> QED
    BY <2>1 DEF Removes, Lookups, Idle
<1>4. CASE Crash
  <2>1. PICK dead \in SUBSET Calls :
          /\ pc' = [c \in Calls |-> IF c \in dead THEN "idle" ELSE pc[c]]
          /\ by' = [c \in Calls |-> IF c \in dead THEN "nobody" ELSE by[c]]
          /\ alone' = [c \in Calls |-> c \notin dead /\ alone[c]]
          /\ clean' = [c \in Calls |-> c \in dead \/ clean[c]]
    BY <1>4 DEF Crash
  <2>2. registered' = registered
    BY <1>4, CrashFacts
  <2>3. ASSUME NEW c \in Calls, alone'[c]
        PROVE  alone[c] /\ pc'[c] = pc[c] /\ by'[c] = by[c] /\ clean'[c] = clean[c]
    BY <2>1, <2>3 DEF TypeOK
  <2>4. \A d \in Calls : Idle(d) => pc'[d] = "idle"
    BY <2>1 DEF Idle
  <2> QED
    BY <2>2, <2>3, <2>4 DEF Lookups, Idle
<1>5. CASE UNCHANGED allVars
  BY <1>5 DEF allVars, vars, run, Lookups, Idle
<1> QED
  BY <1>1, <1>2, <1>3, <1>4, <1>5 DEF StreamNext, DeliveryStep

\* A Stop which runs alone replies an error, if no call failed, only when the user has
\* no link of the chat and there is none without a user id: nobody gets stuck with a
\* link of their own, whoever else may have linked the chat (stop.go:18-31).
THEOREM StopErrorIsTrue == StreamSpec => []StopErrorMeansUnlinked
<1>1. StreamInit => Lookups
  BY DEF StreamInit, Init, Lookups
<1>2. TypeOK /\ Lookups /\ [StreamNext]_allVars => Lookups'
  BY SubscriptionsAssumption, NextLookups
<1>3. Lookups => StopErrorMeansUnlinked
  BY DEF Lookups, StopErrorMeansUnlinked
<1> QED
  BY <1>1, <1>2, <1>3, StreamTypeCorrect, PTL DEF StreamSpec
-----------------------------------------------------------------------------
(* What a command which runs alone does to the table.                        *)

\* Until its own change, and then but for it, a command which runs alone has the table
\* it started with.
Owned ==
    \A c \in Calls :
        alone[c] =>
            /\ \A d \in Calls \ {c} : Idle(d)
            /\ pc[c] \in {"subscribe", "check", "checkLegacy", "unsubscribe", "unsubscribeLegacy"}
                 => registered = before[c]
            /\ pc[c] = "replyLinked" =>
                 by[c] \notin before[c] /\ registered = before[c] \cup {by[c]}
            /\ pc[c] = "replyLimit" => by[c] \notin before[c] /\ registered = before[c]
            /\ pc[c] \in {"checkLegacy", "unsubscribeLegacy"} /\ clean[c] =>
                 by[c] \notin registered
            /\ pc[c] = "replyStopped" =>
                 /\ \E f \in before[c] \cap {by[c], "legacy"} : registered = before[c] \ {f}
                 /\ clean[c] => by[c] \notin registered

\* A step of a command changes the table as the answer it got says.
LEMMA StepOwned ==
    ASSUME TypeOK, Owned, NEW c \in Calls, Step(c)
    PROVE  Owned'
<1>1. ~Idle(c)
  BY DEF Step, StartSubscribe, StartReply, StopCheck, StopCheckLegacy, StopUnsubscribe, StopReply, Idle
<1>2. ASSUME NEW d \in Calls, d # c PROVE ~alone[d]
  BY <1>1, <1>2 DEF Owned
<1>3. CASE StartReply(c) \/ StopReply(c)
  <2>1. alone' = [alone EXCEPT ![c] = FALSE]
    BY <1>3 DEF StartReply, StopReply, End
  <2>2. \A d \in Calls : ~alone'[d]
    BY <1>2, <2>1 DEF TypeOK
  <2> QED
    BY <2>2 DEF Owned
<1>4. CASE ~(StartReply(c) \/ StopReply(c))
  <2>1. /\ alone' = alone /\ by' = by /\ before' = before
        /\ \A d \in Calls \ {c} : pc'[d] = pc[d]
    BY <1>4 DEF Step, StartSubscribe, StopCheck, StopCheckLegacy, StopUnsubscribe, Goto, TypeOK
  <2>2. SUFFICES ASSUME alone[c]
                 PROVE  /\ pc'[c] \in {"subscribe", "check", "checkLegacy", "unsubscribe",
                                       "unsubscribeLegacy"} => registered' = before[c]
                        /\ pc'[c] = "replyLinked" =>
                             by[c] \notin before[c] /\ registered' = before[c] \cup {by[c]}
                        /\ pc'[c] = "replyLimit" =>
                             by[c] \notin before[c] /\ registered' = before[c]
                        /\ pc'[c] \in {"checkLegacy", "unsubscribeLegacy"} /\ clean'[c] =>
                             by[c] \notin registered'
                        /\ pc'[c] = "replyStopped" =>
                             /\ \E f \in before[c] \cap {by[c], "legacy"} :
                                  registered' = before[c] \ {f}
                             /\ clean'[c] => by[c] \notin registered'
    BY <1>2, <2>1 DEF Owned, Idle
  <2>3. registered = before[c]
    BY <1>4, <2>2 DEF Owned, Step, StartSubscribe, StopCheck, StopCheckLegacy, StopUnsubscribe
  <2>4. CASE StartSubscribe(c)
    <3>1. PICK res \in Results :
            /\ Subscribe(c, res)
            /\ pc'[c] = CASE res = "ok" -> "replyLinked"
                          [] res = "exhausted" -> "replyLimit"
                          [] OTHER -> "replyFailure"
      BY <2>4 DEF StartSubscribe, Goto, TypeOK
    <3>2. /\ res = "ok" => by[c] \notin registered /\ registered' = registered \cup {by[c]}
          /\ res = "exhausted" => by[c] \notin registered /\ registered' = registered
      BY <3>1 DEF Subscribe
    <3> QED
      BY <2>3, <3>1, <3>2 DEF Results
  <2>5. CASE StopCheck(c) \/ StopCheckLegacy(c)
    <3>1. pc'[c] \in {"unsubscribe", "checkLegacy", "unsubscribeLegacy", "replyError"}
      BY <2>5 DEF StopCheck, StopCheckLegacy, Goto, TypeOK
    <3>2. registered' = registered
      BY <2>5 DEF StopCheck, StopCheckLegacy
    <3>3. CASE StopCheck(c)
      <4>1. PICK res \in Results :
              /\ Subscription(c, by[c], res)
              /\ pc'[c] = IF res = "ok" THEN "unsubscribe" ELSE "checkLegacy"
        BY <3>3 DEF StopCheck, Goto, TypeOK
      <4>2. res # "ok" /\ clean'[c] => by[c] \notin registered
        BY <4>1 DEF Subscription, Fail, TypeOK
      <4> QED
        BY <2>3, <3>2, <4>1, <4>2
    <3>4. CASE StopCheckLegacy(c)
      <4>1. clean'[c] => clean[c]
        BY <3>4 DEF StopCheckLegacy, Subscription, Fail, TypeOK
      <4>2. clean[c] => by[c] \notin registered
        BY <2>2, <3>4 DEF Owned, StopCheckLegacy
      <4> QED
        BY <2>3, <3>1, <3>2, <4>1, <4>2
    <3> QED
      BY <2>5, <3>3, <3>4
  <2>6. CASE StopUnsubscribe(c)
    <3>1. PICK res \in Results :
            /\ Unsubscribe(c, IF pc[c] = "unsubscribe" THEN by[c] ELSE "legacy", res)
            /\ pc'[c] = IF res = "ok" THEN "replyStopped" ELSE "replyError"
      BY <2>6 DEF StopUnsubscribe, Goto, TypeOK
    <3>2. CASE res # "ok"
      BY <3>1, <3>2
    <3>3. CASE res = "ok"
      <4>1. PICK f \in registered \cap {by[c], "legacy"} :
              /\ registered' = registered \ {f} /\ clean' = clean
              /\ pc[c] = "unsubscribe" => f = by[c]
        BY <3>1, <3>3 DEF Unsubscribe
      <4>2. pc[c] # "unsubscribe" /\ clean[c] => by[c] \notin registered
        BY <2>2, <2>6 DEF Owned, StopUnsubscribe
      <4> QED
        BY <2>3, <3>1, <3>3, <4>1, <4>2
    <3> QED
      BY <3>2, <3>3
  <2> QED
    BY <1>4, <2>4, <2>5, <2>6 DEF Step
<1> QED
  BY <1>3, <1>4

\* A delivery which changes the table ends that any command was alone.
LEMMA NextOwned ==
    ASSUME SubscriptionsAssumption, TypeOK, Owned, [StreamNext]_allVars
    PROVE  Owned'
<1>1. ASSUME NEW c \in Calls, Command(c) PROVE Owned'
  <2>1. PICK l \in {"subscribe", "check"} : Begin(c, l)
    BY <1>1 DEF Command, Start, Stop
  <2>2. /\ \A d \in Calls : alone'[d] => d = c /\ \A e \in Calls : Idle(e)
        /\ pc'[c] = l /\ before'[c] = registered
        /\ \A d \in Calls \ {c} : pc'[d] = pc[d]
    BY <2>1 DEF Begin, TypeOK
  <2>3. registered' = registered
    BY <1>1 DEF Command, Start, Stop
  <2> QED
    BY <2>2, <2>3 DEF Owned, Idle
<1>2. ASSUME NEW c \in Calls, Serve(c) PROVE Owned'
  BY <1>2, StepOwned DEF Serve
<1>3. CASE DeliveryStep
  <2>1. Removes
    BY <1>3, DeliveryRemoves
  <2> QED
    BY <2>1 DEF Removes, Owned, Idle
<1>4. CASE Crash
  <2>1. PICK dead \in SUBSET Calls :
          /\ pc' = [c \in Calls |-> IF c \in dead THEN "idle" ELSE pc[c]]
          /\ by' = [c \in Calls |-> IF c \in dead THEN "nobody" ELSE by[c]]
          /\ before' = [c \in Calls |-> IF c \in dead THEN {} ELSE before[c]]
          /\ alone' = [c \in Calls |-> c \notin dead /\ alone[c]]
          /\ clean' = [c \in Calls |-> c \in dead \/ clean[c]]
    BY <1>4 DEF Crash
  <2>2. registered' = registered
    BY <1>4, CrashFacts
  <2>3. ASSUME NEW c \in Calls, alone'[c]
        PROVE  /\ alone[c] /\ pc'[c] = pc[c] /\ by'[c] = by[c] /\ before'[c] = before[c]
               /\ clean'[c] = clean[c]
    BY <2>1, <2>3 DEF TypeOK
  <2>4. \A d \in Calls : Idle(d) => pc'[d] = "idle"
    BY <2>1 DEF Idle
  <2> QED
    BY <2>2, <2>3, <2>4 DEF Owned, Idle
<1>5. CASE UNCHANGED allVars
  BY <1>5 DEF allVars, vars, run, Owned, Idle
<1> QED
  BY <1>1, <1>2, <1>3, <1>4, <1>5 DEF StreamNext, DeliveryStep

LEMMA AlwaysOwned == StreamSpec => []Owned
<1>1. StreamInit => Owned
  BY DEF StreamInit, Init, Owned
<1>2. TypeOK /\ Owned /\ [StreamNext]_allVars => Owned'
  BY SubscriptionsAssumption, NextOwned
<1> QED
  BY <1>1, <1>2, StreamTypeCorrect, PTL DEF StreamSpec

\* "Subscribed" of a Start which runs alone means that the chat was not registered under
\* the URL with the id of this user and is now, next to what it was registered under
\* before.  A Start by a user who has linked the chat already thus ends in "Unexpected
\* failure" whenever nothing else disturbs it: no other reply is reachable
\* (start.go:85-108).
THEOREM LinkedMeansRegistered ==
    StreamSpec => [](\A c \in Calls :
        alone[c] /\ pc[c] \in {"replyLinked", "replyLimit"} =>
            /\ by[c] \notin before[c]
            /\ pc[c] = "replyLinked" => registered = before[c] \cup {by[c]})
<1>1. Owned => \A c \in Calls :
                 alone[c] /\ pc[c] \in {"replyLinked", "replyLimit"} =>
                     /\ by[c] \notin before[c]
                     /\ pc[c] = "replyLinked" => registered = before[c] \cup {by[c]}
  BY DEF Owned
<1> QED
  BY <1>1, AlwaysOwned, PTL

\* "Unsubscribed" of a Stop which runs alone means that exactly one registration of the
\* chat is gone: the user's own or the one without a user id.  If no call failed, the
\* user has none of their own any more.  What other users of the chat linked stays
\* (stop.go:18-45).
THEOREM StoppedRemovesOne ==
    StreamSpec => [](\A c \in Calls :
        alone[c] /\ pc[c] = "replyStopped" =>
            /\ \E f \in before[c] \cap {by[c], "legacy"} : registered = before[c] \ {f}
            /\ clean[c] => by[c] \notin registered)
<1>1. Owned =>
        \A c \in Calls :
            alone[c] /\ pc[c] = "replyStopped" =>
                /\ \E f \in before[c] \cap {by[c], "legacy"} : registered = before[c] \ {f}
                /\ clean[c] => by[c] \notin registered
  BY DEF Owned
<1> QED
  BY <1>1, AlwaysOwned, PTL
-----------------------------------------------------------------------------
(* The delivery next to the commands.                                        *)

P == INSTANCE DeliveryProofs WITH pc <- at

\* P has its own instance of Delivery: its actions are those of D.
LEMMA SameDelivery ==
    /\ D!DeliveryAssumption = P!DeliveryAssumption
    /\ D!Init = P!Init
    /\ D!Next => P!Next
    /\ D!NoLoss = P!NoLoss
    /\ D!InOrder = P!InOrder
    /\ D!DuplicatesBounded = P!DuplicatesBounded
<1>1. D!DeliveryAssumption = P!DeliveryAssumption
  BY DEF D!DeliveryAssumption, P!DeliveryAssumption, D!FaultKinds, P!FaultKinds
<1>2. D!Init = P!Init
  BY DEF D!Init, P!Init, D!Stages, P!Stages, D!Evts, P!Evts
<1>3. D!Next => P!Next
  BY DEF D!Next, P!Next, D!Post, P!Post, D!Deliver, P!Deliver, D!DeliverMessages,
         P!DeliverMessages, D!Send, P!Send, D!SendOk, P!SendOk, D!SendFlood, P!SendFlood,
         D!SendForbidden, P!SendForbidden, D!SendError, P!SendError, D!UnsubscribeBlocked,
         P!UnsubscribeBlocked, D!UnsubscribeBlockedLegacy, P!UnsubscribeBlockedLegacy,
         D!Respond, P!Respond, D!FloodUnsubscribe, P!FloodUnsubscribe,
         D!FloodUnsubscribeLegacy, P!FloodUnsubscribeLegacy, D!FloodWarn, P!FloodWarn,
         D!Environment, P!Environment, D!Timeout, P!Timeout, D!Crash, P!Crash,
         D!Block, P!Block, D!Fault, P!Fault, D!Unsubscribe, P!Unsubscribe,
         D!Current, P!Current, D!Turn, P!Turn, D!Spawned, P!Spawned, D!Accepted, P!Accepted,
         D!Advance, P!Advance, D!hub, P!hub, D!call, P!call, D!goroutines, P!goroutines,
         D!chat, P!chat, D!Modes, P!Modes, D!Stages, P!Stages
<1>4. D!Handled = P!Handled
  BY DEF D!Handled, P!Handled, D!Evts, P!Evts
<1>5. D!NoLoss = P!NoLoss /\ D!InOrder = P!InOrder
  BY <1>4 DEF D!NoLoss, P!NoLoss, D!InOrder, P!InOrder
<1>6. D!DuplicatesBounded = P!DuplicatesBounded
  BY DEF D!DuplicatesBounded, P!DuplicatesBounded, D!Evts, P!Evts
<1> QED
  BY <1>1, <1>2, <1>3, <1>5, <1>6

\* Who changes the table only leaves the invariant of the delivery alone.
LEMMA CommandKeeps ==
    ASSUME P!DeliveryAssumption, TypeOK, TypeOK', P!DuplicatesInv, UNCHANGED delivery, faults' >= faults
    PROVE  P!DuplicatesInv'
<1>1. P!Handled' = P!Handled
  BY DEF P!Handled, delivery
<1>2. P!TypeOK'
  BY DEF P!DuplicatesInv, P!Inv, P!TypeOK, TypeOK, delivery
<1>3. P!NoLoss' /\ P!InOrder' /\ P!CallsSound'
  BY <1>1 DEF P!DuplicatesInv, P!Inv, P!NoLoss, P!InOrder, P!CallsSound, delivery
<1>4. ASSUME NEW e \in P!Evts
      PROVE  /\ P!IsFiniteSet(P!Stale(e)')
             /\ posted'[e] + P!Ahead(e)' + P!Cardinality(P!Stale(e)') <= 1 + faults'
  <2>1. P!Stale(e)' = P!Stale(e)
    BY DEF P!Stale, delivery
  <2>2. P!Frontier' = P!Frontier
    BY DEF P!Frontier, delivery
  <2>3. P!Ahead(e)' = P!Ahead(e) /\ posted' = posted
    BY <2>2 DEF P!Ahead, delivery
  <2>4. /\ P!IsFiniteSet(P!Stale(e))
        /\ posted[e] + P!Ahead(e) + P!Cardinality(P!Stale(e)) <= 1 + faults
    BY DEF P!DuplicatesInv, P!Tally
  <2>5. /\ P!Ahead(e) \in {0, 1}
        /\ posted[e] \in Nat /\ faults \in Int /\ faults' \in Int
    BY DEF P!Ahead, P!DuplicatesInv, P!Inv, P!TypeOK, TypeOK
  <2>6. P!Cardinality(P!Stale(e)) \in Nat
    BY <2>4, P!FS_CardinalityType
  <2> QED
    BY <2>1, <2>3, <2>4, <2>5, <2>6
<1> QED
  BY <1>2, <1>3, <1>4 DEF P!DuplicatesInv, P!Inv, P!Tally

\* Every step of the whole is one of the delivery, or leaves it alone.
LEMMA NextKeeps ==
    ASSUME SubscriptionsAssumption, StreamAssumption, TypeOK, TypeOK', P!DuplicatesInv,
           [StreamNext]_allVars
    PROVE  P!DuplicatesInv'
<1>0. P!DeliveryAssumption
  BY SameDelivery DEF StreamAssumption
<1>1. CASE D!Next
  <2>1. [P!Next]_(P!vars)
    BY <1>1, SameDelivery
  <2> QED
    BY <1>0, <2>1, P!NextTally
<1>2. ASSUME OtherFeeds \/ \E c \in Calls : Command(c) \/ Serve(c) PROVE P!DuplicatesInv'
  <2>1. UNCHANGED delivery
    BY <1>2 DEF Command, Serve, OtherFeeds
  <2>2. faults \in Nat
    BY DEF TypeOK, SubscriptionsAssumption
  <2>3. faults' >= faults
    BY <1>2, <2>2 DEF OtherFeeds, Command, Serve, Start, Stop, Step, StartSubscribe, StartReply, StopCheck,
                      StopCheckLegacy, StopUnsubscribe, StopReply, Subscribe, Subscription,
                      Unsubscribe, Fail
  <2> QED
    BY <1>0, <2>1, <2>3, CommandKeeps
<1>3. CASE UNCHANGED allVars
  <2>1. UNCHANGED delivery /\ faults' >= faults
    BY <1>3 DEF allVars, vars, TypeOK, SubscriptionsAssumption
  <2> QED
    BY <1>0, <2>1, CommandKeeps
<1>4. ASSUME NEW r \in Requests, Post(r) \/ Deliver(r) PROVE D!Next
  BY <1>4 DEF Post, Deliver, D!Next
<1>5. FloodUnsubscribe \/ FloodUnsubscribeLegacy \/ FloodWarn \/ Timeout \/ Crash \/ Block => D!Next
  BY DEF FloodUnsubscribe, FloodUnsubscribeLegacy, FloodWarn, Timeout, Crash, Block,
         D!Next, D!Environment
<1> QED
  BY <1>1, <1>2, <1>3, <1>4, <1>5 DEF StreamNext

\* What Delivery promises about one feed holds with the commands of the chat around
\* it, which unlink and link the chat while batches are on their way: nothing is
\* lost, the order is kept, and only faults make the chat get an event again.
THEOREM CommandsKeepDelivery ==
    StreamSpec => [](D!NoLoss /\ D!InOrder /\ D!DuplicatesBounded)
<1>0. P!DeliveryAssumption
  BY StreamAssumption, SameDelivery DEF StreamAssumption
<1>1. StreamInit => P!DuplicatesInv
  BY <1>0, SameDelivery, P!InitTally DEF StreamInit
<1>2. TypeOK /\ TypeOK' /\ P!DuplicatesInv /\ [StreamNext]_allVars => P!DuplicatesInv'
  BY SubscriptionsAssumption, StreamAssumption, NextKeeps
<1>3. P!DuplicatesInv => D!NoLoss /\ D!InOrder /\ D!DuplicatesBounded
  BY <1>0, SameDelivery, P!TallyBounds DEF P!DuplicatesInv, P!Inv
<1> QED
  BY <1>1, <1>2, <1>3, StreamTypeCorrect, PTL DEF StreamSpec
=============================================================================
