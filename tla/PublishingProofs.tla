-------------------------- MODULE PublishingProofs --------------------------
(***************************************************************************)
(* What the handlers of Publishing promise, for any number of messages and *)
(* attempts, any limit and any number of lost answers.  Inv is about the   *)
(* posts, which are attempted again, Answered about the replies, which are *)
(* not.                                                                    *)
(***************************************************************************)
EXTENDS Publishing, TLAPS

USE PublishingAssumption DEF Messages

\* Before a message is acknowledged all copies of it are due to lost answers, and
\* what was acknowledged is accepted.
Acknowledged(m) ==
    /\ accepted[m] <= 1 + faults
    /\ pc[m] \in {"new", "retry"} => accepted[m] <= faults
    /\ outcome[m] = "nil" => accepted[m] > 0

\* A reason why a post is not accepted after n attempts.
Excused(m, n) == m \in Refused \/ used = Limit \/ faults >= n

\* Every attempt on a post which is not accepted so far has failed for a reason.
Attempted(m) ==
    m \in Posts \ NoBot =>
        /\ pc[m] # "answer"
        /\ pc[m] = "new" => tries[m] = 0
        /\ pc[m] = "retry" /\ accepted[m] = 0 => Excused(m, tries[m] + 1)
        /\ pc[m] = "done" /\ accepted[m] = 0 => Excused(m, MaxTries + 1)

\* The inductive invariant.
Inv == TypeOK /\ \A m \in Messages : Acknowledged(m) /\ Attempted(m)

\* What one attempt does: the counts grow, and an attempt which is not
\* acknowledged has either changed nothing for a reason, or is a fault.
LEMMA AttemptCounts ==
    ASSUME TypeOK, NEW m \in Messages, NEW err \in Errors, Attempt(m, err)
    PROVE  /\ accepted' \in [Messages -> Nat] /\ used' \in 0..Limit
           /\ faults' \in 0..MaxFaults /\ faults' >= faults
           /\ used = Limit => used' = Limit
           /\ \A n \in Messages \ {m} : accepted'[n] = accepted[n]
           /\ accepted'[m] >= accepted[m]
           /\ accepted'[m] <= accepted[m] + 1
           /\ err = "nil" => accepted'[m] > 0
           /\ err # "nil" => \/ faults' = faults + 1
                             \/ /\ accepted'[m] = accepted[m]
                                /\ faults' = faults
                                /\ m \in Refused \/ used' = Limit
<1>1. CASE UNCHANGED <<accepted, used, faults>> /\ (m \in Refused \/ used = Limit)
           /\ err # "nil"
  BY <1>1 DEF TypeOK
<1>2. CASE /\ err = "nil" /\ used < Limit
           /\ accepted' = [accepted EXCEPT ![m] = @ + 1]
           /\ used' = used + 1
           /\ UNCHANGED faults
  BY <1>2 DEF TypeOK
<1>3. CASE /\ err = "noAck" /\ faults < MaxFaults /\ faults' = faults + 1
           /\ UNCHANGED <<accepted, used>>
  BY <1>3 DEF TypeOK
<1>4. CASE /\ err = "noAck" /\ faults < MaxFaults /\ faults' = faults + 1
           /\ used < Limit
           /\ accepted' = [accepted EXCEPT ![m] = @ + 1]
           /\ used' = used + 1
  BY <1>4 DEF TypeOK
<1> QED
  BY <1>1, <1>2, <1>3, <1>4 DEF Attempt

\* A step on one message leaves the others as they are but for the counts they
\* share, which only grow.
LEMMA OthersKept ==
    ASSUME TypeOK, NEW n \in Messages, Acknowledged(n), Attempted(n),
           accepted'[n] = accepted[n], pc'[n] = pc[n], tries'[n] = tries[n],
           outcome'[n] = outcome[n], faults' \in Nat, faults' >= faults,
           used = Limit => used' = Limit
    PROVE  Acknowledged(n)' /\ Attempted(n)'
<1>1. accepted[n] \in Nat /\ tries[n] \in Nat /\ faults \in Nat
  BY DEF TypeOK
<1>2. Acknowledged(n)'
  BY <1>1 DEF Acknowledged
<1>3. \A k \in Nat : Excused(n, k) => Excused(n, k)'
  BY <1>1 DEF Excused
<1>4. tries[n] + 1 \in Nat /\ MaxTries + 1 \in Nat /\ tries'[n] + 1 = tries[n] + 1
  BY <1>1
<1>5. Attempted(n)'
  BY <1>3, <1>4 DEF Attempted, Excused
<1> QED
  BY <1>2, <1>5

\* The invariant holds before the first message.
LEMMA InitInv == Init => Inv
<1> SUFFICES ASSUME Init PROVE Inv
  OBVIOUS
<1>1. TypeOK
  BY DEF Init, TypeOK, Errors
<1>2. ASSUME NEW m \in Messages PROVE Acknowledged(m) /\ Attempted(m)
  BY DEF Init, Acknowledged, Attempted
<1> QED
  BY <1>1, <1>2 DEF Inv

\* No step of any handler disturbs the invariant: each changes its own message
\* only, by an attempt or by a reply.
LEMMA HandleInv ==
    ASSUME Inv, NEW m \in Messages, Handle(m)
    PROVE  Inv'
<1>1. TypeOK /\ Acknowledged(m) /\ Attempted(m)
  BY DEF Inv
<1>2. accepted[m] \in Nat /\ tries[m] \in 0..MaxTries /\ faults \in Nat
  BY <1>1 DEF TypeOK
<1>3. ASSUME NEW n \in Messages \ {m},
             accepted'[n] = accepted[n], pc'[n] = pc[n], tries'[n] = tries[n],
             outcome'[n] = outcome[n], faults' \in Nat, faults' >= faults,
             used = Limit => used' = Limit
      PROVE  Acknowledged(n)' /\ Attempted(n)'
  BY <1>1, <1>3, OthersKept DEF Inv
<1>4. CASE SkipNoBot(m)
  <2>1. TypeOK'
    BY <1>1, <1>4 DEF SkipNoBot, Goto, TypeOK
  <2>2. Acknowledged(m)' /\ Attempted(m)'
    BY <1>1, <1>2, <1>4 DEF SkipNoBot, Goto, TypeOK, Acknowledged, Attempted
  <2>3. ASSUME NEW n \in Messages \ {m} PROVE Acknowledged(n)' /\ Attempted(n)'
    BY <1>1, <1>3, <1>4 DEF SkipNoBot, Goto, TypeOK
  <2> QED
    BY <2>1, <2>2, <2>3 DEF Inv
<1>5. CASE PublishPost(m)
  <2>1. PICK err \in Errors :
           /\ Attempt(m, err)
           /\ outcome' = [outcome EXCEPT ![m] = err]
           /\ pc' = [pc EXCEPT ![m] = IF err = "nil" THEN "done" ELSE "retry"]
    BY <1>5 DEF PublishPost, Goto
  <2>2. tries' = tries /\ pc[m] = "new" /\ m \in Posts \ NoBot
    BY <1>5 DEF PublishPost
  <2>3. TypeOK'
    BY <1>1, <2>1, <2>2, AttemptCounts DEF TypeOK
  <2>4. Acknowledged(m)'
    BY <1>1, <1>2, <2>1, <2>2, <2>3, AttemptCounts DEF Acknowledged, TypeOK
  <2>5. Attempted(m)'
    BY <1>1, <1>2, <2>1, <2>2, AttemptCounts DEF Attempted, Excused, TypeOK
  <2>6. ASSUME NEW n \in Messages \ {m} PROVE Acknowledged(n)' /\ Attempted(n)'
    BY <1>1, <1>3, <2>1, <2>2, AttemptCounts DEF TypeOK
  <2> QED
    BY <2>3, <2>4, <2>5, <2>6 DEF Inv
<1>6. CASE Retry(m)
  <2>1. PICK err \in Errors :
           /\ Attempt(m, err)
           /\ outcome' = [outcome EXCEPT ![m] = err]
           /\ pc' = [pc EXCEPT ![m] = IF err = "nil" \/ tries[m] + 1 = MaxTries
                                        THEN "done" ELSE "retry"]
    BY <1>6 DEF Retry, Goto
  <2>2. tries' = [tries EXCEPT ![m] = @ + 1] /\ pc[m] = "retry" /\ tries[m] < MaxTries
    BY <1>6 DEF Retry
  <2>3. TypeOK'
    BY <1>1, <1>2, <2>1, <2>2, AttemptCounts DEF TypeOK
  <2>4. Acknowledged(m)'
    BY <1>1, <1>2, <2>1, <2>2, <2>3, AttemptCounts DEF Acknowledged, TypeOK
  <2>5. Attempted(m)'
    <3>1. tries'[m] = tries[m] + 1 /\ pc'[m] \in {"retry", "done"}
      BY <1>1, <2>1, <2>2 DEF TypeOK
    <3>2. ASSUME m \in Posts \ NoBot, accepted'[m] = 0
          PROVE  err # "nil" /\ (m \in Refused \/ used' = Limit \/ faults' >= tries[m] + 2)
      <4>1. accepted[m] = 0 /\ Excused(m, tries[m] + 1) /\ err # "nil"
        BY <1>1, <1>2, <2>1, <2>2, <3>2, AttemptCounts DEF Attempted
      <4> QED
        BY <1>1, <1>2, <2>1, <2>2, <4>1, AttemptCounts DEF Excused, TypeOK
    <3>3. pc'[m] = "done" /\ err # "nil" => tries[m] + 1 = MaxTries
      BY <1>1, <2>1 DEF TypeOK
    <3>4. tries'[m] + 1 = tries[m] + 2
      BY <1>2, <3>1
    <3>5. tries[m] + 1 = MaxTries => tries[m] + 2 = MaxTries + 1
      BY <1>2
    <3> QED
      BY <3>1, <3>2, <3>3, <3>4, <3>5 DEF Attempted, Excused
  <2>6. ASSUME NEW n \in Messages \ {m} PROVE Acknowledged(n)' /\ Attempted(n)'
    BY <1>1, <1>3, <2>1, <2>2, AttemptCounts DEF TypeOK
  <2> QED
    BY <2>3, <2>4, <2>5, <2>6 DEF Inv
<1>7. CASE PublishReply(m)
  <2>1. PICK err \in Errors : Attempt(m, err) /\ outcome' = [outcome EXCEPT ![m] = err]
    BY <1>7 DEF PublishReply
  <2>2. /\ tries' = tries /\ pc[m] = "new" /\ m \in Replies
        /\ pc' = [pc EXCEPT ![m] = "answer"]
    BY <1>7 DEF PublishReply, Goto
  <2>3. TypeOK'
    BY <1>1, <2>1, <2>2, AttemptCounts DEF TypeOK
  <2>4. Acknowledged(m)' /\ Attempted(m)'
    BY <1>1, <1>2, <2>1, <2>2, <2>3, AttemptCounts DEF Acknowledged, Attempted, TypeOK
  <2>5. ASSUME NEW n \in Messages \ {m} PROVE Acknowledged(n)' /\ Attempted(n)'
    BY <1>1, <1>3, <2>1, <2>2, AttemptCounts DEF TypeOK
  <2> QED
    BY <2>3, <2>4, <2>5 DEF Inv
<1>8. CASE AnswerReply(m)
  <2>1. TypeOK'
    BY <1>1, <1>8 DEF AnswerReply, Goto, TypeOK
  <2>2. Acknowledged(m)'
    BY <1>1, <1>2, <1>8 DEF AnswerReply, Goto, TypeOK, Acknowledged
  <2>3. Attempted(m)'
    BY <1>1, <1>8 DEF AnswerReply, Goto, TypeOK, Attempted
  <2>4. ASSUME NEW n \in Messages \ {m} PROVE Acknowledged(n)' /\ Attempted(n)'
    BY <1>1, <1>3, <1>8 DEF AnswerReply, Goto, TypeOK
  <2> QED
    BY <2>1, <2>2, <2>3, <2>4 DEF Inv
<1> QED
  BY <1>4, <1>5, <1>6, <1>7, <1>8 DEF Handle

\* Every reachable state of every instance satisfies the inductive invariant.
THEOREM Invariance == Spec => []Inv
<1>1. Inv /\ [Next]_vars => Inv'
  <2> SUFFICES ASSUME Inv, [Next]_vars PROVE Inv'
    OBVIOUS
  <2>1. CASE UNCHANGED vars
    BY <2>1 DEF vars, Inv, TypeOK, Acknowledged, Attempted, Excused
  <2>2. CASE Next
    BY <2>2, HandleInv DEF Next
  <2> QED
    BY <2>1, <2>2
<1> QED
  BY <1>1, InitInv, PTL DEF Spec

\* The service never accepts more than its limit, and no backoff makes more than
\* MaxTries attempts after the first one.
THEOREM TypeCorrect == Spec => []TypeOK
<1>1. Inv => TypeOK
  BY DEF Inv
<1> QED
  BY <1>1, Invariance, PTL

\* A post whose handler reports no error has been accepted by the service.
THEOREM SuccessIsAcceptance == Spec => []SuccessMeansAccepted
<1>1. Inv => SuccessMeansAccepted
  BY DEF Inv, Acknowledged, SuccessMeansAccepted
<1> QED
  BY <1>1, Invariance, PTL

\* Every copy of an event but one is due to a lost answer of the service.
THEOREM CopiesNeedFaults == Spec => []CopiesBounded
<1>1. Inv => CopiesBounded
  BY DEF Inv, Acknowledged, CopiesBounded
<1> QED
  BY <1>1, Invariance, PTL

\* A post is given up only if it is refused, the limit is reached, or more answers
\* were lost than the backoff has retries.
THEOREM GivenUpOnlyForAReason == Spec => []GivenUpForAReason
<1>1. Inv => GivenUpForAReason
  <2> SUFFICES ASSUME Inv, NEW m \in Posts \ NoBot, pc[m] = "done", accepted[m] = 0
               PROVE  m \in Refused \/ used = Limit \/ faults > MaxTries
    BY DEF GivenUpForAReason
  <2>1. Attempted(m) /\ faults \in Nat
    BY DEF Inv, TypeOK
  <2> QED
    BY <2>1 DEF Attempted, Excused
<1> QED
  BY <1>1, Invariance, PTL
-----------------------------------------------------------------------------
(* What the user is told of a message replied to the prompt.                 *)

\* The only attempt on a message decides what its user is told.
Answered(m) ==
    m \in Replies =>
        /\ pc[m] # "retry"
        /\ pc[m] = "new" => accepted[m] = 0 /\ outcome[m] = "none"
        /\ pc[m] = "answer" => outcome[m] \in Errors
        /\ accepted[m] <= 1
        /\ outcome[m] \in {"limit", "limitReached"} => accepted[m] = 0 /\ used = Limit
        /\ outcome[m] \in {"nil", "refused", "noAck", "published"} /\ accepted[m] = 0 =>
             m \in Refused \/ faults > 0

\* An attempt leaves an untouched message accepted once, or not accepted for the reason
\* its error names.
LEMMA AttemptTells ==
    ASSUME TypeOK, NEW m \in Messages, accepted[m] = 0, NEW err \in Errors, Attempt(m, err)
    PROVE  /\ accepted'[m] <= 1
           /\ err = "limit" => accepted'[m] = 0 /\ used' = Limit
           /\ err # "limit" /\ accepted'[m] = 0 => m \in Refused \/ faults' > 0
BY DEF Attempt, TypeOK

LEMMA HandleAnswered ==
    ASSUME Inv, Inv', NEW m \in Messages, Handle(m), \A n \in Messages : Answered(n)
    PROVE  \A n \in Messages : Answered(n)'
<1>1. /\ TypeOK /\ TypeOK' /\ Messages = Posts \cup Replies
      /\ faults \in Nat /\ faults' \in Nat
  BY DEF Inv, TypeOK
<1>2. /\ faults' >= faults /\ (used = Limit => used' = Limit)
      /\ \A n \in Messages \ {m} :
            accepted'[n] = accepted[n] /\ pc'[n] = pc[n] /\ outcome'[n] = outcome[n]
  <2>1. CASE SkipNoBot(m) \/ AnswerReply(m)
    BY <1>1, <2>1 DEF SkipNoBot, AnswerReply, Goto, TypeOK
  <2>2. CASE PublishPost(m) \/ Retry(m) \/ PublishReply(m)
    <3>1. PICK err \in Errors : Attempt(m, err) /\ outcome' = [outcome EXCEPT ![m] = err]
      BY <2>2 DEF PublishPost, Retry, PublishReply
    <3>2. \A n \in Messages \ {m} : pc'[n] = pc[n] /\ outcome'[n] = outcome[n]
      BY <1>1, <2>2, <3>1 DEF PublishPost, Retry, PublishReply, Goto, TypeOK
    <3> QED
      BY <1>1, <3>1, <3>2, AttemptCounts
  <2> QED
    BY <2>1, <2>2 DEF Handle
<1>3. ASSUME NEW n \in Messages \ {m} PROVE Answered(n)'
  BY <1>1, <1>2, <1>3 DEF Answered
<1>4. Answered(m)'
  <2> SUFFICES ASSUME m \in Replies PROVE Answered(m)'
    BY DEF Answered
  <2>1. Answered(m) /\ m \notin Posts
    OBVIOUS
  <2>2. CASE PublishReply(m)
    <3>1. PICK err \in Errors : Attempt(m, err) /\ outcome' = [outcome EXCEPT ![m] = err]
      BY <2>2 DEF PublishReply
    <3>2. pc'[m] = "answer" /\ outcome'[m] = err /\ pc[m] = "new"
      BY <1>1, <2>2, <3>1 DEF PublishReply, Goto, TypeOK
    <3>3. accepted[m] = 0
      BY <2>1, <3>2 DEF Answered
    <3> QED
      BY <1>1, <3>1, <3>2, <3>3, AttemptTells DEF Answered, Errors
  <2>3. CASE AnswerReply(m)
    <3>1. /\ pc[m] = "answer" /\ pc'[m] = "done"
          /\ outcome'[m] = IF outcome[m] = "limit" THEN "limitReached" ELSE "published"
          /\ UNCHANGED <<accepted, used, faults>>
      BY <1>1, <2>3 DEF AnswerReply, Goto, TypeOK
    <3> QED
      BY <2>1, <3>1 DEF Answered, Errors
  <2>4. CASE SkipNoBot(m) \/ PublishPost(m)
    BY <2>1, <2>4 DEF SkipNoBot, PublishPost
  <2>5. CASE Retry(m)
    BY <2>1, <2>5 DEF Retry, Answered
  <2> QED
    BY <2>2, <2>3, <2>4, <2>5 DEF Handle
<1> QED
  BY <1>3, <1>4

\* What the user is told is true but for errors: "Message published" of a message which
\* is not means that the service refused it or that an answer failed, and the message
\* that the limit is reached means that it is, and that nothing was published.  Nothing
\* is published twice (publish.go:188-203).
THEOREM RepliesAreTold ==
    Spec => [](\A m \in Replies :
                 /\ accepted[m] <= 1
                 /\ outcome[m] = "limitReached" => accepted[m] = 0 /\ used = Limit
                 /\ outcome[m] = "published" /\ accepted[m] = 0 => m \in Refused \/ faults > 0)
<1> DEFINE AllAnswered == \A m \in Messages : Answered(m)
<1>1. Init => AllAnswered
  BY DEF Init, Answered
<1>2. Inv /\ Inv' /\ AllAnswered /\ [Next]_vars => AllAnswered'
  <2>1. CASE UNCHANGED vars
    BY <2>1 DEF vars, Answered
  <2>2. ASSUME Inv, Inv', AllAnswered, NEW m \in Messages, Handle(m) PROVE AllAnswered'
    BY <2>2, HandleAnswered
  <2> QED
    BY <2>1, <2>2 DEF Next
<1>3. AllAnswered => \A m \in Replies :
                 /\ accepted[m] <= 1
                 /\ outcome[m] = "limitReached" => accepted[m] = 0 /\ used = Limit
                 /\ outcome[m] = "published" /\ accepted[m] = 0 => m \in Refused \/ faults > 0
  BY DEF Answered
<1> QED
  BY <1>1, <1>2, <1>3, Invariance, PTL DEF Spec
=============================================================================
