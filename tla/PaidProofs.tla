------------------------------ MODULE PaidProofs ------------------------------
(***************************************************************************)
(* Proofs about PaidLimits for any number of channels, subjects, handlers, *)
(* failures, and joins and leaves.                                         *)
(*                                                                         *)
(* The properties speak of the moments when all updates are handled.  The  *)
(* invariants say, for the moments between, what is still to come: an      *)
(* update no handler took yet, or a handler which has not reached the      *)
(* subject, or is in the midst of it with what it needs at hand.  That     *)
(* there is an end of updates is a variant: ToDo, which every step         *)
(* decreases.                                                              *)
(***************************************************************************)
EXTENDS PaidLimits, FiniteSetTheorems, WellFoundedInduction, TLAPS

PCs == {"idle", "ask", "delete", "tellReset", "entries", "set", "tellSet", "unban"}

Active(h) == pc[h] # "idle"

\* The steps of the loop over chanByLimit.
Loop == {"entries", "set", "tellSet", "unban"}

\* The indices of the subjects.
Calls == 1..Len(Subjects)

\* What is known of the constants, for every subject.
LEMMA SubjectFacts ==
    ASSUME PaidAssumption
    PROVE  /\ Len(Subjects) \in Nat \ {0}
           /\ Default \in Nat
           /\ \A k \in Calls : Subjects[k] \in Subj
           /\ \A s \in Subj : /\ DOMAIN LimitsOf(s) \subseteq Channels
                              /\ \A c \in DOMAIN LimitsOf(s) : LimitsOf(s)[c] \in Nat
                              /\ \A c \in DOMAIN LimitsOf(s) : LimitsOf(s)[c] > Default
           /\ \A s \in Subj : \E k \in Calls : s = Subjects[k]
<1>1. Subjects \in Seq(Subj) /\ Subjects # <<>>
  BY DEF PaidAssumption
<1>2. Len(Subjects) \in Nat \ {0}
  BY <1>1
<1>3. \A k \in Calls : Subjects[k] \in Subj
  BY <1>1, <1>2 DEF Calls
<1>4. \A s \in Subj : \E k \in Calls : s = Subjects[k]
  BY DEF Subj, Calls
<1> QED
  BY <1>2, <1>3, <1>4 DEF PaidAssumption

\* A handler at a subject.
LEMMA SubjectOf ==
    ASSUME PaidAssumption, TypeOK, NEW h \in Handlers
    PROVE  /\ at[h] \in Calls /\ at[h] \in Nat /\ Subject(h) \in Subj
           /\ at[h] + 1 \in Nat /\ at[h] + 1 > 0
<1>1. at[h] \in Calls
  BY DEF TypeOK, Calls
<1>2. Len(Subjects) \in Nat /\ Subjects[at[h]] \in Subj
  BY <1>1, SubjectFacts
<1>3. at[h] \in Nat /\ at[h] + 1 \in Nat /\ at[h] + 1 > 0
  BY <1>1, <1>2 DEF Calls
<1> QED
  BY <1>1, <1>2, <1>3 DEF Subject
-----------------------------------------------------------------------------
(* What the parts of the steps do.                                           *)

\* Enter moves the handler to a subject, or ends it.
LEMMA EnterFacts ==
    ASSUME PaidAssumption, TypeOK, NEW h \in Handlers, NEW k \in Nat, k > 0, Enter(h, k)
    PROVE  /\ pc' \in [Handlers -> PCs]
           /\ at' \in [Handlers -> Calls]
           /\ toAsk' \in [Handlers -> SUBSET Channels]
           /\ chanByLimit' \in [Handlers -> SUBSET Channels]
           /\ chanByLimit'[h] = {}
           /\ k > Len(Subjects) => pc'[h] = "idle"
           /\ k <= Len(Subjects) => /\ pc'[h] = "ask"
                                    /\ at'[h] = k
                                    /\ toAsk'[h] = DOMAIN LimitsOf(Subjects[k])
           /\ \A g \in Handlers \ {h} : /\ pc'[g] = pc[g] /\ at'[g] = at[g]
                                        /\ toAsk'[g] = toAsk[g]
                                        /\ chanByLimit'[g] = chanByLimit[g]
<1>0. /\ pc \in [Handlers -> PCs] /\ at \in [Handlers -> Calls]
      /\ toAsk \in [Handlers -> SUBSET Channels]
      /\ chanByLimit \in [Handlers -> SUBSET Channels]
      /\ Len(Subjects) \in Nat \ {0}
  BY SubjectFacts DEF TypeOK, PCs, Calls
<1>1. CASE k > Len(Subjects)
  <2>1. /\ pc' = [pc EXCEPT ![h] = "idle"]
        /\ at' = [at EXCEPT ![h] = 1]
        /\ toAsk' = [toAsk EXCEPT ![h] = {}]
        /\ chanByLimit' = [chanByLimit EXCEPT ![h] = {}]
    BY <1>1 DEF Enter
  <2>2. 1 \in Calls /\ "idle" \in PCs
    BY <1>0 DEF Calls, PCs
  <2>3. ~(k <= Len(Subjects))
    BY <1>0, <1>1
  <2> QED
    BY <1>0, <2>1, <2>2, <2>3
<1>2. CASE ~(k > Len(Subjects))
  <2>1. /\ pc' = [pc EXCEPT ![h] = "ask"]
        /\ at' = [at EXCEPT ![h] = k]
        /\ toAsk' = [toAsk EXCEPT ![h] = DOMAIN LimitsOf(Subjects[k])]
        /\ chanByLimit' = [chanByLimit EXCEPT ![h] = {}]
    BY <1>2 DEF Enter
  <2>2. k \in Calls /\ "ask" \in PCs
    BY <1>0, <1>2 DEF Calls, PCs
  <2>3. DOMAIN LimitsOf(Subjects[k]) \in SUBSET Channels
    BY <2>2, SubjectFacts
  <2> QED
    BY <1>0, <1>2, <2>1, <2>2, <2>3
<1> QED
  BY <1>1, <1>2

\* Telegram sends an update for every change of a role.
LEMMA SetRoleFacts ==
    ASSUME TypeOK, NEW c \in Channels, NEW r \in {"member", "left", "kicked"}, SetRole(c, r)
    PROVE  /\ role' \in [Channels -> {"member", "left", "kicked"}]
           /\ updates' \in Nat
           /\ updates' >= updates
           /\ role'[c] = r
           /\ \A d \in Channels \ {c} : role'[d] = role[d]
           /\ updates' = 0 => role' = role
BY DEF SetRole, TypeOK

\* A fault is one more.
LEMMA FaultFacts ==
    ASSUME TypeOK, NEW kind, Fault(kind)
    PROVE  faults' \subseteq Faults /\ faults \subseteq faults' /\ kind \in faults'
BY DEF Fault, TypeOK
-----------------------------------------------------------------------------
(* The types.                                                                *)

\* The step of a handler which goes elsewhere keeps the type of pc.
LEMMA GotoType ==
    ASSUME TypeOK, NEW h \in Handlers, NEW l \in PCs, Goto(h, l)
    PROVE  pc' \in [Handlers -> PCs]
BY DEF Goto, TypeOK, PCs

\* An entry which is taken is a channel.
LEMMA EntryType ==
    ASSUME TypeOK, NEW h \in Handlers, NEW c \in entries[h],
           entries' = [entries EXCEPT ![h] = @ \ {c}],
           current' = [current EXCEPT ![h] = {c}]
    PROVE  /\ c \in Channels
           /\ entries' \in [Handlers -> SUBSET Channels]
           /\ current' \in [Handlers -> {{}} \cup {{d} : d \in Channels}]
<1>1. c \in Channels /\ entries[h] \in SUBSET Channels
  BY DEF TypeOK
<1>2. entries' \in [Handlers -> SUBSET Channels]
  BY <1>1 DEF TypeOK
<1>3. {c} \in {{}} \cup {{d} : d \in Channels}
  BY <1>1
<1> QED
  BY <1>1, <1>2, <1>3 DEF TypeOK

\* The channel a step is about.
LEMMA CurrentType ==
    ASSUME PaidAssumption, TypeOK, NEW h \in Handlers, NEW c \in current[h]
    PROVE  c \in Channels
<1>1. current[h] \in {{}} \cup {{d} : d \in Channels}
  BY DEF TypeOK
<1>2. PICK d \in Channels : current[h] = {d}
  BY <1>1
<1> QED
  BY <1>2

\* What a handler has found belongs to its subject, and it sets the limit of the
\* best channel it has found.  Without this TypeOK is not inductive: the limit of a
\* channel of another subject need not exist.
Found ==
    \A h \in Handlers : Active(h) =>
        /\ toAsk[h] \subseteq DOMAIN LimitsOf(Subject(h))
        /\ chanByLimit[h] \subseteq DOMAIN LimitsOf(Subject(h))
        /\ pc[h] # "ask" => toAsk[h] = {}
        /\ pc[h] \in {"delete", "tellReset"} => chanByLimit[h] = {}
        /\ pc[h] \in Loop => entries[h] \subseteq chanByLimit[h] /\ chanByLimit[h] # {}
        /\ pc[h] \in {"set", "tellSet"} =>
              \E c \in chanByLimit[h] : current[h] = {c} /\ IsMax(h, c)

\* Every step of a handler keeps the types.
LEMMA StepType ==
    ASSUME PaidAssumption, TypeOK, Found, NEW h \in Handlers, Step(h)
    PROVE  TypeOK'
<1>0. /\ at[h] + 1 \in Nat /\ at[h] + 1 > 0 /\ Subject(h) \in Subj /\ Default \in Nat
      /\ pc \in [Handlers -> PCs] /\ at \in [Handlers -> Calls]
      /\ Len(Subjects) \in Nat \ {0}
  <2>1. at[h] + 1 \in Nat /\ at[h] + 1 > 0 /\ Subject(h) \in Subj
    BY SubjectOf
  <2>2. Len(Subjects) \in Nat \ {0} /\ Default \in Nat
    BY SubjectFacts
  <2>3. pc \in [Handlers -> PCs] /\ at \in [Handlers -> Calls]
    BY DEF TypeOK, PCs, Calls
  <2> QED
    BY <2>1, <2>2, <2>3
<1>1. CASE Handle(h)
  <2>1. Enter(h, 1) /\ updates' = updates - 1 /\ updates > 0
    BY <1>1 DEF Handle
  <2>2. /\ pc' \in [Handlers -> PCs] /\ at' \in [Handlers -> Calls]
        /\ toAsk' \in [Handlers -> SUBSET Channels]
        /\ chanByLimit' \in [Handlers -> SUBSET Channels]
    BY <2>1, EnterFacts
  <2>3. updates' \in Nat /\ overlapped' \in BOOLEAN
    BY <1>1, <2>1 DEF Handle, TypeOK
  <2>4. UNCHANGED <<role, limit, entries, current, told, changes, faults>>
    BY <1>1 DEF Handle
  <2> QED
    BY <2>2, <2>3, <2>4 DEF TypeOK, PCs, Calls
<1>2. CASE Ask(h)
  <2>1. PICK c \in toAsk[h] :
          /\ toAsk' = [toAsk EXCEPT ![h] = @ \ {c}]
          /\ chanByLimit' = [chanByLimit EXCEPT ![h] =
               IF role[c] = "member"
                 THEN {d \in @ : LimitAt(h, d) # LimitAt(h, c)} \cup {c}
                 ELSE @]
    BY <1>2 DEF Ask
  <2>2. c \in Channels /\ toAsk[h] \in SUBSET Channels /\ chanByLimit[h] \in SUBSET Channels
    BY DEF TypeOK
  <2>3. toAsk' \in [Handlers -> SUBSET Channels]
    BY <2>1, <2>2 DEF TypeOK
  <2>4. (IF role[c] = "member"
           THEN {d \in chanByLimit[h] : LimitAt(h, d) # LimitAt(h, c)} \cup {c}
           ELSE chanByLimit[h]) \in SUBSET Channels
    BY <2>2
  <2>5. chanByLimit' \in [Handlers -> SUBSET Channels]
    BY <2>1, <2>4 DEF TypeOK
  <2>6. UNCHANGED <<role, updates, limit, pc, at, entries, current, told, overlapped, changes, faults>>
    BY <1>2 DEF Ask, telegram, history
  <2> QED
    BY <2>3, <2>5, <2>6 DEF TypeOK
<1>3. CASE AskFails(h)
  <2>1. /\ Fault("ask")
        /\ updates' \in 0..updates
        /\ pc' = [g \in Handlers |-> "idle"]
        /\ at' = [g \in Handlers |-> 1]
        /\ toAsk' = [g \in Handlers |-> {}]
        /\ chanByLimit' = [g \in Handlers |-> {}]
        /\ entries' = [g \in Handlers |-> {}]
        /\ current' = [g \in Handlers |-> {}]
        /\ UNCHANGED <<role, limit, told, overlapped, changes>>
    BY <1>3 DEF AskFails
  <2>2. faults' \subseteq Faults
    BY <2>1, FaultFacts
  <2>3. at' \in [Handlers -> 1..Len(Subjects)] /\ updates' \in Nat
    BY <1>0, <2>1 DEF TypeOK
  <2>4. /\ toAsk' \in [Handlers -> SUBSET Channels]
        /\ chanByLimit' \in [Handlers -> SUBSET Channels]
        /\ entries' \in [Handlers -> SUBSET Channels]
        /\ current' \in [Handlers -> {{}} \cup {{c} : c \in Channels}]
    BY <2>1
  <2> QED
    BY <2>1, <2>2, <2>3, <2>4 DEF TypeOK
<1>4. CASE Decide(h)
  <2>1. PICK l \in {"delete", "entries"} : Goto(h, l)
    BY <1>4 DEF Decide
  <2>2. pc' \in [Handlers -> PCs]
    BY <2>1, GotoType DEF PCs
  <2>3. entries' \in [Handlers -> SUBSET Channels]
    BY <1>4 DEF Decide, TypeOK
  <2>4. UNCHANGED <<role, updates, limit, at, toAsk, chanByLimit, current, told, overlapped, changes, faults>>
    BY <1>4 DEF Decide, telegram, history
  <2> QED
    BY <2>2, <2>3, <2>4 DEF TypeOK, PCs
<1>5. CASE Delete(h)
  <2>1. UNCHANGED <<role, updates, entries, current, told, overlapped, changes>>
    BY <1>5 DEF Delete, telegram, history
  <2>2. CASE /\ limit' = [limit EXCEPT ![Subject(h)] = Default]
             /\ Goto(h, "tellReset")
             /\ UNCHANGED <<at, toAsk, chanByLimit, faults>>
    <3>1. pc' \in [Handlers -> PCs]
      BY <2>2, GotoType DEF PCs
    <3>2. limit' \in [Subj -> Nat]
      BY <1>0, <2>2 DEF TypeOK
    <3> QED
      BY <2>1, <2>2, <3>1, <3>2 DEF TypeOK, PCs
  <2>3. CASE /\ Fault("limits") /\ Enter(h, at[h] + 1)
             /\ limit' \in {limit, [limit EXCEPT ![Subject(h)] = Default]}
    <3>1. /\ pc' \in [Handlers -> PCs] /\ at' \in [Handlers -> Calls]
          /\ toAsk' \in [Handlers -> SUBSET Channels]
          /\ chanByLimit' \in [Handlers -> SUBSET Channels]
      BY <1>0, <2>3, EnterFacts
    <3>2. faults' \subseteq Faults
      BY <2>3, FaultFacts
    <3>3. limit' \in [Subj -> Nat]
      BY <1>0, <2>3 DEF TypeOK
    <3> QED
      BY <2>1, <3>1, <3>2, <3>3 DEF TypeOK, PCs, Calls
  <2> QED
    BY <1>5, <2>2, <2>3 DEF Delete
<1>6. CASE TellReset(h) \/ EndOfLoop(h)
  <2>1. Enter(h, at[h] + 1) /\ UNCHANGED <<role, updates, limit, entries, overlapped, changes, faults>>
    BY <1>6 DEF TellReset, EndOfLoop, telegram, history
  <2>2. /\ pc' \in [Handlers -> PCs] /\ at' \in [Handlers -> Calls]
        /\ toAsk' \in [Handlers -> SUBSET Channels]
        /\ chanByLimit' \in [Handlers -> SUBSET Channels]
    BY <1>0, <2>1, EnterFacts
  <2>3. told' \in [Subj -> Nat]
    BY <1>0, <1>6 DEF TellReset, EndOfLoop, history, TypeOK
  <2>4. current' \in [Handlers -> {{}} \cup {{c} : c \in Channels}]
    <3>1. {} \in {{}} \cup {{c} : c \in Channels}
      OBVIOUS
    <3> QED
      BY <1>6, <3>1 DEF TellReset, EndOfLoop, TypeOK
  <2> QED
    BY <2>1, <2>2, <2>3, <2>4 DEF TypeOK, PCs, Calls
<1>7. CASE Get(h)
  <2>1. PICK c \in entries[h] :
          /\ entries' = [entries EXCEPT ![h] = @ \ {c}]
          /\ current' = [current EXCEPT ![h] = {c}]
          /\ \/ /\ Goto(h, IF LimitAt(h, c) > limit[Subject(h)] THEN "set" ELSE "entries")
                /\ UNCHANGED faults
             \/ /\ Fault("limits")
                /\ UNCHANGED pc
    BY <1>7 DEF Get
  <2>2. /\ entries' \in [Handlers -> SUBSET Channels]
        /\ current' \in [Handlers -> {{}} \cup {{d} : d \in Channels}]
    BY <2>1, EntryType
  <2>3. pc' \in [Handlers -> PCs]
    BY <1>0, <2>1, GotoType DEF PCs
  <2>4. faults' \subseteq Faults
    BY <2>1, FaultFacts DEF TypeOK
  <2>5. UNCHANGED <<role, updates, limit, at, toAsk, chanByLimit, told, overlapped, changes>>
    BY <1>7 DEF Get, telegram, history
  <2> QED
    BY <2>2, <2>3, <2>4, <2>5 DEF TypeOK, PCs
<1>8. CASE Set(h) \/ TellSet(h)
  <2>1. UNCHANGED <<role, updates, at, toAsk, chanByLimit, entries, current, overlapped, changes>>
    BY <1>8 DEF Set, TellSet, telegram, history
  <2>2. PICK l \in {"tellSet", "entries"} : Goto(h, l)
    BY <1>8 DEF Set, TellSet
  <2>3. pc' \in [Handlers -> PCs]
    BY <2>2, GotoType DEF PCs
  <2>4. limit' \in [Subj -> Nat] /\ told' \in [Subj -> Nat]
    <3>1. pc[h] \in {"set", "tellSet"}
      BY <1>8 DEF Set, TellSet
    <3>2. ASSUME NEW c \in current[h] PROVE LimitAt(h, c) \in Nat
      BY <1>0, <3>1, SubjectFacts DEF Found, Active, LimitAt
    <3>3. CASE Set(h)
      <4>1. told' = told
        BY <3>3 DEF Set, history
      <4>2. limit' = limit \/ \E c \in current[h] : limit' = [limit EXCEPT ![Subject(h)] = LimitAt(h, c)]
        BY <3>3 DEF Set
      <4> QED
        BY <1>0, <3>2, <4>1, <4>2 DEF TypeOK
    <3>4. CASE TellSet(h)
      <4>1. limit' = limit
        BY <3>4 DEF TellSet
      <4>2. \E c \in current[h] : told' = [told EXCEPT ![Subject(h)] = LimitAt(h, c)]
        BY <3>4 DEF TellSet
      <4> QED
        BY <1>0, <3>2, <4>1, <4>2 DEF TypeOK
    <3> QED
      BY <1>8, <3>3, <3>4
  <2>5. faults' \subseteq Faults
    BY <1>8, FaultFacts DEF Set, TellSet, TypeOK
  <2> QED
    BY <2>1, <2>3, <2>4, <2>5 DEF TypeOK, PCs
<1>9. CASE Ban(h)
  <2>1. PICK c \in entries[h] :
          /\ entries' = [entries EXCEPT ![h] = @ \ {c}]
          /\ current' = [current EXCEPT ![h] = {c}]
          /\ \/ SetRole(c, "kicked") /\ Goto(h, "unban") /\ UNCHANGED faults
             \/ /\ Fault("ban")
                /\ SetRole(c, "kicked") \/ UNCHANGED <<role, updates>>
                /\ UNCHANGED pc
    BY <1>9 DEF Ban, telegram
  <2>2. /\ c \in Channels
        /\ entries' \in [Handlers -> SUBSET Channels]
        /\ current' \in [Handlers -> {{}} \cup {{d} : d \in Channels}]
    BY <2>1, EntryType
  <2>3. pc' \in [Handlers -> PCs]
    BY <1>0, <2>1, GotoType DEF PCs
  <2>4. faults' \subseteq Faults
    BY <2>1, FaultFacts DEF TypeOK
  <2>5. role' \in [Channels -> {"member", "left", "kicked"}] /\ updates' \in Nat
    BY <2>1, <2>2, SetRoleFacts DEF TypeOK
  <2>6. UNCHANGED <<limit, at, toAsk, chanByLimit, told, overlapped, changes>>
    BY <1>9 DEF Ban, history
  <2> QED
    BY <2>2, <2>3, <2>4, <2>5, <2>6 DEF TypeOK, PCs
<1>10. CASE Unban(h)
  <2>1. PICK c \in current[h] :
          \/ SetRole(c, "left") /\ UNCHANGED faults
          \/ Fault("unban") /\ (SetRole(c, "left") \/ UNCHANGED <<role, updates>>)
    BY <1>10 DEF Unban, telegram
  <2>2. c \in Channels
    BY CurrentType
  <2>3. pc' \in [Handlers -> PCs]
    BY <1>10, GotoType DEF Unban, PCs
  <2>4. faults' \subseteq Faults
    BY <2>1, FaultFacts DEF TypeOK
  <2>5. role' \in [Channels -> {"member", "left", "kicked"}] /\ updates' \in Nat
    BY <2>1, <2>2, SetRoleFacts DEF TypeOK
  <2>6. UNCHANGED <<limit, at, toAsk, chanByLimit, entries, current, told, overlapped, changes>>
    BY <1>10 DEF Unban
  <2> QED
    BY <2>3, <2>4, <2>5, <2>6 DEF TypeOK, PCs
<1> QED
  BY <1>1, <1>2, <1>3, <1>4, <1>5, <1>6, <1>7, <1>8, <1>9, <1>10 DEF Step

\* A step of a handler leaves the variables of the others alone, or ends them all.
LEMMA OthersSame ==
    ASSUME PaidAssumption, TypeOK, NEW h \in Handlers, Step(h), ~AskFails(h),
           NEW g \in Handlers \ {h}
    PROVE  /\ pc'[g] = pc[g] /\ at'[g] = at[g] /\ toAsk'[g] = toAsk[g]
           /\ chanByLimit'[g] = chanByLimit[g] /\ entries'[g] = entries[g]
           /\ current'[g] = current[g]
<1>0. at[h] + 1 \in Nat /\ at[h] + 1 > 0
  BY SubjectOf
<1>1. CASE Handle(h)
  <2>1. Enter(h, 1) /\ UNCHANGED <<entries, current>>
    BY <1>1 DEF Handle
  <2> QED
    BY <1>0, <2>1, EnterFacts
<1>2. CASE Ask(h) \/ Decide(h)
  BY <1>2 DEF Ask, Decide, Goto, TypeOK
<1>3. CASE Delete(h) \/ TellReset(h) \/ EndOfLoop(h)
  <2>1. entries'[g] = entries[g] /\ current'[g] = current[g]
    BY <1>3 DEF Delete, TellReset, EndOfLoop, TypeOK
  <2>2. CASE Enter(h, at[h] + 1)
    BY <1>0, <2>1, <2>2, EnterFacts
  <2>3. CASE Goto(h, "tellReset") /\ UNCHANGED <<at, toAsk, chanByLimit>>
    BY <2>1, <2>3 DEF Goto, TypeOK
  <2> QED
    BY <1>3, <2>2, <2>3 DEF Delete, TellReset, EndOfLoop
<1>4. CASE Get(h) \/ Ban(h)
  BY <1>4 DEF Get, Ban, Goto, TypeOK
<1>5. CASE Set(h) \/ TellSet(h) \/ Unban(h)
  BY <1>5 DEF Set, TellSet, Unban, Goto, TypeOK
<1> QED
  BY <1>1, <1>2, <1>3, <1>4, <1>5 DEF Step

\* The subject of a handler which stays where it is.
LEMMA SubjectSame ==
    ASSUME NEW g \in Handlers, at'[g] = at[g]
    PROVE  Subject(g)' = Subject(g) /\ \A c : LimitAt(g, c)' = LimitAt(g, c)
<1>1. Subject(g)' = Subject(g)
  BY DEF Subject
<1>2. ASSUME NEW c PROVE LimitAt(g, c)' = LimitAt(g, c)
  BY <1>1 DEF LimitAt
<1> QED
  BY <1>1, <1>2

\* The best channel is the best as long as none is found.
LEMMA IsMaxSame ==
    ASSUME NEW g \in Handlers, at'[g] = at[g], chanByLimit'[g] = chanByLimit[g], NEW c
    PROVE  IsMax(g, c)' = IsMax(g, c)
<1>1. \A d : LimitAt(g, d)' = LimitAt(g, d)
  BY SubjectSame
<1> QED
  BY <1>1 DEF IsMax

FoundBy(h) ==
    /\ toAsk[h] \subseteq DOMAIN LimitsOf(Subject(h))
    /\ chanByLimit[h] \subseteq DOMAIN LimitsOf(Subject(h))
    /\ pc[h] # "ask" => toAsk[h] = {}
    /\ pc[h] \in {"delete", "tellReset"} => chanByLimit[h] = {}
    /\ pc[h] \in Loop => entries[h] \subseteq chanByLimit[h] /\ chanByLimit[h] # {}
    /\ pc[h] \in {"set", "tellSet"} =>
          \E c \in chanByLimit[h] : current[h] = {c} /\ IsMax(h, c)

\* Every step keeps what the handlers have found.
LEMMA StepFound ==
    ASSUME PaidAssumption, TypeOK, Found, NEW h \in Handlers, Step(h)
    PROVE  Found'
<1> SUFFICES ASSUME NEW g \in Handlers, pc'[g] # "idle"
             PROVE  FoundBy(g)'
  BY DEF Found, FoundBy, Active
<1>0. Active(h) => FoundBy(h)
  BY DEF Found, FoundBy
<1>1. CASE AskFails(h)
  BY <1>1 DEF AskFails
<1>2. CASE ~AskFails(h) /\ g # h
  <2>1. /\ pc'[g] = pc[g] /\ at'[g] = at[g] /\ toAsk'[g] = toAsk[g]
        /\ chanByLimit'[g] = chanByLimit[g] /\ entries'[g] = entries[g]
        /\ current'[g] = current[g]
    BY <1>2, OthersSame
  <2>2. Subject(g)' = Subject(g) /\ \A c : IsMax(g, c)' = IsMax(g, c)
    BY <2>1, SubjectSame, IsMaxSame
  <2>3. FoundBy(g)
    BY <2>1 DEF Found, FoundBy, Active
  <2> QED
    BY <2>1, <2>2, <2>3 DEF FoundBy
<1>3. CASE ~AskFails(h) /\ g = h
  <2>0. at[h] + 1 \in Nat /\ at[h] + 1 > 0 /\ Len(Subjects) \in Nat \ {0}
    BY SubjectOf, SubjectFacts
  <2>1. ASSUME NEW k \in Nat, k > 0, Enter(h, k) PROVE FoundBy(h)'
    <3>1. k <= Len(Subjects) /\ pc'[h] = "ask" /\ at'[h] = k
          /\ toAsk'[h] = DOMAIN LimitsOf(Subjects[k]) /\ chanByLimit'[h] = {}
      BY <1>3, <2>0, <2>1, EnterFacts
    <3>2. Subject(h)' = Subjects[k]
      BY <3>1 DEF Subject
    <3> QED
      BY <3>1, <3>2 DEF FoundBy, Loop
  <2>2. CASE Handle(h) \/ TellReset(h) \/ EndOfLoop(h)
    <3>1. \E k \in Nat : k > 0 /\ Enter(h, k)
      BY <2>0, <2>2 DEF Handle, TellReset, EndOfLoop
    <3> QED
      BY <1>3, <2>1, <3>1
  <2>3. CASE Ask(h)
    <3>1. PICK c \in toAsk[h] :
            /\ toAsk' = [toAsk EXCEPT ![h] = @ \ {c}]
            /\ chanByLimit' = [chanByLimit EXCEPT ![h] =
                 IF role[c] = "member"
                   THEN {d \in @ : LimitAt(h, d) # LimitAt(h, c)} \cup {c}
                   ELSE @]
      BY <2>3 DEF Ask
    <3>2. pc[h] = "ask" /\ UNCHANGED <<pc, at>> /\ FoundBy(h)
      BY <1>0, <2>3 DEF Ask, Active
    <3>3. Subject(h)' = Subject(h)
      BY <3>2, SubjectSame
    <3>4. toAsk'[h] = toAsk[h] \ {c} /\ chanByLimit'[h] \subseteq chanByLimit[h] \cup {c}
      BY <3>1 DEF TypeOK
    <3> QED
      BY <1>3, <3>2, <3>3, <3>4 DEF FoundBy, Loop
  <2>4. CASE Decide(h)
    <3>1. /\ pc[h] = "ask" /\ toAsk[h] = {} /\ UNCHANGED <<at, toAsk, chanByLimit>>
          /\ entries'[h] = chanByLimit[h]
          /\ pc'[h] = IF chanByLimit[h] = {} THEN "delete" ELSE "entries"
          /\ FoundBy(h)
      BY <1>0, <2>4 DEF Decide, Goto, TypeOK, Active
    <3>2. Subject(h)' = Subject(h)
      BY <3>1, SubjectSame
    <3> QED
      BY <1>3, <3>1, <3>2 DEF FoundBy, Loop
  <2>5. CASE Delete(h)
    <3>1. CASE Goto(h, "tellReset") /\ UNCHANGED <<at, toAsk, chanByLimit>>
      <4>1. pc[h] = "delete" /\ pc'[h] = "tellReset" /\ FoundBy(h)
        BY <1>0, <2>5, <3>1 DEF Delete, Goto, TypeOK, Active
      <4>2. Subject(h)' = Subject(h)
        BY <3>1, SubjectSame
      <4> QED
        BY <1>3, <3>1, <4>1, <4>2 DEF FoundBy, Loop
    <3>2. CASE Enter(h, at[h] + 1)
      BY <1>3, <2>0, <2>1, <3>2
    <3> QED
      BY <2>5, <3>1, <3>2 DEF Delete
  <2>6. CASE Get(h)
    <3>1. PICK c \in entries[h] :
            /\ IsMax(h, c)
            /\ entries' = [entries EXCEPT ![h] = @ \ {c}]
            /\ current' = [current EXCEPT ![h] = {c}]
            /\ pc' = pc \/ \E l \in {"set", "entries"} : Goto(h, l)
      BY <2>6 DEF Get
    <3>2. pc[h] = "entries" /\ UNCHANGED <<at, toAsk, chanByLimit>> /\ FoundBy(h)
      BY <1>0, <2>6 DEF Get, Active
    <3>3. entries'[h] = entries[h] \ {c} /\ current'[h] = {c} /\ pc'[h] \in {"set", "entries"}
      BY <3>1, <3>2 DEF TypeOK, Goto
    <3>4. Subject(h)' = Subject(h) /\ IsMax(h, c)' /\ c \in chanByLimit[h]
      BY <3>1, <3>2, SubjectSame, IsMaxSame DEF FoundBy, Loop
    <3> QED
      BY <1>3, <3>2, <3>3, <3>4 DEF FoundBy, Loop
  <2>7. CASE Set(h) \/ TellSet(h) \/ Unban(h)
    <3>1. /\ pc[h] \in {"set", "tellSet", "unban"}
          /\ UNCHANGED <<at, toAsk, chanByLimit, entries, current>> /\ FoundBy(h)
      BY <1>0, <2>7 DEF Set, TellSet, Unban, Active
    <3>2. pc'[h] = "entries" \/ (pc[h] = "set" /\ pc'[h] = "tellSet")
      BY <2>7 DEF Set, TellSet, Unban, Goto, TypeOK
    <3>3. Subject(h)' = Subject(h) /\ \A c : IsMax(h, c)' = IsMax(h, c)
      BY <3>1, SubjectSame, IsMaxSame
    <3> QED
      BY <1>3, <3>1, <3>2, <3>3 DEF FoundBy, Loop
  <2>8. CASE Ban(h)
    <3>1. PICK c \in entries[h] :
            /\ entries' = [entries EXCEPT ![h] = @ \ {c}]
            /\ current' = [current EXCEPT ![h] = {c}]
            /\ pc' = pc \/ Goto(h, "unban")
      BY <2>8 DEF Ban
    <3>2. pc[h] = "entries" /\ UNCHANGED <<at, toAsk, chanByLimit>> /\ FoundBy(h)
      BY <1>0, <2>8 DEF Ban, Active
    <3>3. entries'[h] = entries[h] \ {c} /\ pc'[h] \in {"unban", "entries"}
      BY <3>1, <3>2 DEF TypeOK, Goto
    <3>4. Subject(h)' = Subject(h)
      BY <3>2, SubjectSame
    <3> QED
      BY <1>3, <3>2, <3>3, <3>4 DEF FoundBy, Loop
  <2> QED
    BY <1>3, <2>2, <2>3, <2>4, <2>5, <2>6, <2>7, <2>8 DEF Step
<1> QED
  BY <1>1, <1>2, <1>3

\* What the user does makes Telegram send an update.
LEMMA UserStep ==
    ASSUME PaidAssumption, TypeOK, NEW c \in Channels, Join(c) \/ Leave(c)
    PROVE  /\ TypeOK'
           /\ updates' > 0
           /\ UNCHANGED <<limit, local, told, overlapped, faults>>
<1>1. PICK r \in {"member", "left"} : role[c] # r /\ SetRole(c, r)
  BY DEF Join, Leave
<1>2. role' \in [Channels -> {"member", "left", "kicked"}] /\ updates' \in Nat
  BY <1>1, SetRoleFacts
<1>3. updates' > 0
  BY <1>1 DEF SetRole, TypeOK
<1>4. changes' \in 0..MaxChanges
  BY DEF Join, Leave, TypeOK, PaidAssumption
<1>5. UNCHANGED <<limit, local, told, overlapped, faults>>
  BY DEF Join, Leave
<1> QED
  BY <1>2, <1>3, <1>4, <1>5 DEF TypeOK, local

\* The handlers and what they found, while the user joins or leaves.
LEMMA SameLocal ==
    ASSUME UNCHANGED local
    PROVE  /\ UNCHANGED <<pc, at, toAsk, chanByLimit, entries, current>>
           /\ \A h \in Handlers : Subject(h)' = Subject(h)
           /\ \A h \in Handlers : \A c : LimitAt(h, c)' = LimitAt(h, c)
           /\ \A h \in Handlers : \A c : IsMax(h, c)' = IsMax(h, c)
<1>1. UNCHANGED <<pc, at, toAsk, chanByLimit, entries, current>>
  BY DEF local
<1> QED
  BY <1>1, SubjectSame, IsMaxSame

LEMMA SameFound ==
    ASSUME Found, UNCHANGED local
    PROVE  Found'
BY SameLocal DEF Found, Active

LEMMA InitType ==
    ASSUME PaidAssumption, Init
    PROVE  TypeOK /\ Found
<1>1. 1 \in 1..Len(Subjects) /\ Default \in Nat /\ 0 \in 0..MaxChanges
  BY SubjectFacts DEF PaidAssumption
<1>2. {} \in {{}} \cup {{c} : c \in Channels}
  OBVIOUS
<1> QED
  BY <1>1, <1>2 DEF Init, TypeOK, Found, Active

LEMMA NextType ==
    ASSUME PaidAssumption, TypeOK, Found, [Next]_vars
    PROVE  TypeOK' /\ Found'
<1>1. CASE \E c \in Channels : Join(c) \/ Leave(c)
  BY <1>1, UserStep, SameFound
<1>2. CASE \E h \in Handlers : Step(h)
  BY <1>2, StepType, StepFound
<1>3. CASE UNCHANGED vars
  <2>1. UNCHANGED local /\ UNCHANGED <<role, updates, limit, told, overlapped, changes, faults>>
    BY <1>3 DEF vars, telegram, history
  <2> QED
    BY <2>1, SameFound DEF TypeOK, local
<1> QED
  BY <1>1, <1>2, <1>3 DEF Next

\* The variables of every instance have their types (paid.go:24-127).
THEOREM TypeCorrect == Spec => []TypeOK
<1>1. Init => TypeOK /\ Found
  BY PaidAssumption, InitType
<1>2. TypeOK /\ Found /\ [Next]_vars => (TypeOK /\ Found)'
  BY PaidAssumption, NextType
<1> QED
  BY <1>1, <1>2, PTL DEF Spec

\* Only the start of a handler takes an update: a step which leaves none changes
\* no role.
LEMMA QuietStep ==
    ASSUME PaidAssumption, TypeOK, NEW h \in Handlers, Step(h), ~Handle(h), ~AskFails(h),
           updates' = 0
    PROVE  updates = 0 /\ role' = role /\ faults \subseteq faults'
<1>0. updates \in Nat
  BY DEF TypeOK
<1>1. CASE Ban(h)
  <2>1. PICK c \in entries[h] : /\ SetRole(c, "kicked") \/ UNCHANGED telegram
                                /\ UNCHANGED faults \/ Fault("ban")
    BY <1>1 DEF Ban
  <2>2. c \in Channels
    BY DEF TypeOK
  <2>3. updates = 0 /\ role' = role
    BY <1>0, <2>1, <2>2, SetRoleFacts DEF telegram
  <2> QED
    BY <2>1, <2>3, FaultFacts
<1>2. CASE Unban(h)
  <2>1. PICK c \in current[h] : /\ SetRole(c, "left") \/ UNCHANGED telegram
                                /\ UNCHANGED faults \/ Fault("unban")
    BY <1>2 DEF Unban
  <2>2. c \in Channels
    BY CurrentType
  <2>3. updates = 0 /\ role' = role
    BY <1>0, <2>1, <2>2, SetRoleFacts DEF telegram
  <2> QED
    BY <2>1, <2>3, FaultFacts
<1>3. CASE Ask(h) \/ Decide(h) \/ Delete(h) \/ TellReset(h) \/ Get(h) \/ Set(h)
           \/ TellSet(h) \/ EndOfLoop(h)
  <2>1. UNCHANGED telegram
    BY <1>3 DEF Ask, Decide, Delete, TellReset, Get, Set, TellSet, EndOfLoop
  <2>2. UNCHANGED faults \/ \E kind : Fault(kind)
    BY <1>3 DEF Ask, Decide, Delete, TellReset, Get, Set, TellSet, EndOfLoop
  <2> QED
    BY <2>1, <2>2, FaultFacts DEF telegram
<1> QED
  BY <1>1, <1>2, <1>3 DEF Step
-----------------------------------------------------------------------------
(* Nobody stays in two channels.                                             *)

\* The configuration gives the channels of a subject different limits.  Of two
\* channels with one limit memberChannels keeps one, in the order of a Go map, and
\* the user stays in both.
DistinctLimits ==
    \A s \in Subj : \A c, d \in DOMAIN LimitsOf(s) :
        LimitsOf(s)[c] = LimitsOf(s)[d] => c = d

\* A handler will find the user in c and in d, or has found it and will remove it
\* from c.
Separates(h, k, c, d) ==
    \/ at[h] < k
    \/ at[h] = k /\ pc[h] = "ask" /\ {c, d} \subseteq toAsk[h] \cup chanByLimit[h]
    \/ at[h] = k /\ pc[h] \in Loop /\ c \in entries[h] /\ d \in chanByLimit[h]

\* As long as the user is in two channels of a subject, an update is not taken yet,
\* or a handler will find it in both: whichever it joined last sent an update.
Separated ==
    faults \cap {"ask", "ban"} = {} =>
        \A k \in Calls : \A c, d \in MemberOf(Subjects[k]) :
            LimitsOf(Subjects[k])[c] < LimitsOf(Subjects[k])[d] =>
                updates > 0 \/ \E h \in Handlers : Active(h) /\ Separates(h, k, c, d)

\* A handler on its way from subject to subject still separates the channels of
\* those it did not reach.
LEMMA EnterSeparates ==
    ASSUME PaidAssumption, TypeOK, NEW h \in Handlers, NEW n \in Nat, n > 0, Enter(h, n),
           NEW k \in Calls, n <= k,
           NEW c \in DOMAIN LimitsOf(Subjects[k]), NEW d \in DOMAIN LimitsOf(Subjects[k])
    PROVE  Active(h)' /\ Separates(h, k, c, d)'
<1>0. Len(Subjects) \in Nat
  BY SubjectFacts
<1>1. n <= Len(Subjects) /\ k \in Nat
  BY <1>0 DEF Calls
<1>2. pc'[h] = "ask" /\ at'[h] = n /\ toAsk'[h] = DOMAIN LimitsOf(Subjects[n])
  BY <1>1, EnterFacts
<1>3. n < k \/ n = k
  BY <1>1
<1> QED
  BY <1>2, <1>3 DEF Active, Separates

\* A handler which will separate two channels does so until it removes the user
\* from one of them.
LEMMA KeepsSeparating ==
    ASSUME PaidAssumption, DistinctLimits, TypeOK, Found, NEW h \in Handlers, Active(h),
           Step(h), ~AskFails(h), role' = role, ~("ban" \in faults'),
           NEW k \in Calls, NEW c \in MemberOf(Subjects[k]), NEW d \in MemberOf(Subjects[k]),
           LimitsOf(Subjects[k])[c] < LimitsOf(Subjects[k])[d],
           Separates(h, k, c, d)
    PROVE  Active(h)' /\ Separates(h, k, c, d)'
<1>0. /\ c \in DOMAIN LimitsOf(Subjects[k]) /\ d \in DOMAIN LimitsOf(Subjects[k])
      /\ role[c] = "member" /\ role[d] = "member" /\ k \in Nat
      /\ LimitsOf(Subjects[k])[c] \in Nat /\ LimitsOf(Subjects[k])[d] \in Nat
  BY SubjectFacts DEF MemberOf, Calls
<1>1. /\ at[h] \in Nat /\ at[h] + 1 \in Nat /\ at[h] + 1 > 0 /\ FoundBy(h) /\ pc[h] \in PCs
      /\ Subject(h) \in Subj
  BY SubjectOf DEF Found, FoundBy, TypeOK, PCs
<1>2. ~Handle(h)
  BY DEF Handle, Active
<1>3. ASSUME at[h] = k, pc[h] \in Loop, c \in entries[h], d \in chanByLimit[h]
      PROVE  ~IsMax(h, c)
  BY <1>0, <1>3 DEF IsMax, LimitAt, Subject
<1>4. CASE Ask(h)
  <2>1. PICK e \in toAsk[h] :
          /\ toAsk' = [toAsk EXCEPT ![h] = @ \ {e}]
          /\ chanByLimit' = [chanByLimit EXCEPT ![h] =
               IF role[e] = "member"
                 THEN {b \in @ : LimitAt(h, b) # LimitAt(h, e)} \cup {e}
                 ELSE @]
    BY <1>4 DEF Ask
  <2>2. pc[h] = "ask" /\ UNCHANGED <<pc, at>>
    BY <1>4 DEF Ask
  <2>3. ASSUME NEW b \in toAsk[h] \cup chanByLimit[h], role[b] = "member"
        PROVE  b \in toAsk'[h] \cup chanByLimit'[h]
    <3>1. e \in DOMAIN LimitsOf(Subject(h)) /\ b \in DOMAIN LimitsOf(Subject(h))
      BY <1>1 DEF FoundBy
    <3>2. b # e => LimitAt(h, b) # LimitAt(h, e)
      BY <1>1, <3>1 DEF DistinctLimits, LimitAt
    <3>3. toAsk'[h] = toAsk[h] \ {e}
      BY <2>1 DEF TypeOK
    <3>4. chanByLimit'[h] = IF role[e] = "member"
                              THEN {a \in chanByLimit[h] : LimitAt(h, a) # LimitAt(h, e)} \cup {e}
                              ELSE chanByLimit[h]
      BY <2>1 DEF TypeOK
    <3> QED
      BY <2>3, <3>2, <3>3, <3>4
  <2> QED
    BY <1>0, <2>2, <2>3 DEF Separates, Active, Loop
<1>5. CASE Decide(h)
  <2>1. /\ pc[h] = "ask" /\ toAsk[h] = {} /\ UNCHANGED <<at, chanByLimit>>
        /\ entries'[h] = chanByLimit[h]
        /\ pc'[h] = IF chanByLimit[h] = {} THEN "delete" ELSE "entries"
    BY <1>5 DEF Decide, Goto, TypeOK
  <2>2. CASE at[h] < k
    BY <2>1, <2>2 DEF Separates, Active
  <2>3. CASE ~(at[h] < k)
    <3>1. at[h] = k /\ c \in chanByLimit[h] /\ d \in chanByLimit[h]
      BY <2>1, <2>3 DEF Separates, Loop
    <3> QED
      BY <2>1, <3>1 DEF Separates, Active, Loop
  <2> QED
    BY <2>2, <2>3
<1>6. CASE Delete(h) \/ TellReset(h) \/ EndOfLoop(h)
  <2>1. at[h] < k
    BY <1>6 DEF Separates, Delete, TellReset, EndOfLoop, Loop
  <2>2. CASE Enter(h, at[h] + 1)
    <3>1. at[h] + 1 <= k
      BY <1>0, <1>1, <2>1
    <3> QED
      BY <1>0, <1>1, <2>2, <3>1, EnterSeparates
  <2>3. CASE Goto(h, "tellReset") /\ UNCHANGED at
    BY <2>1, <2>3 DEF Separates, Active, Goto, TypeOK
  <2> QED
    BY <1>6, <2>2, <2>3 DEF Delete, TellReset, EndOfLoop
<1>7. CASE Get(h)
  <2>1. PICK e \in entries[h] :
          /\ IsMax(h, e)
          /\ entries' = [entries EXCEPT ![h] = @ \ {e}]
          /\ pc' = pc \/ \E l \in {"set", "entries"} : Goto(h, l)
    BY <1>7 DEF Get
  <2>2. pc[h] = "entries" /\ UNCHANGED <<at, chanByLimit>>
    BY <1>7 DEF Get
  <2>3. pc'[h] \in {"set", "entries"} /\ entries'[h] = entries[h] \ {e}
    BY <2>1, <2>2 DEF Goto, TypeOK
  <2> QED
    BY <1>3, <2>1, <2>2, <2>3 DEF Separates, Active, Loop
<1>8. CASE Set(h) \/ TellSet(h) \/ Unban(h)
  <2>1. pc[h] \in {"set", "tellSet", "unban"} /\ UNCHANGED <<at, chanByLimit, entries>>
    BY <1>8 DEF Set, TellSet, Unban
  <2>2. pc'[h] \in {"entries", "tellSet"}
    BY <1>8 DEF Set, TellSet, Unban, Goto, TypeOK
  <2> QED
    BY <2>1, <2>2 DEF Separates, Active, Loop
<1>9. CASE Ban(h)
  <2>1. PICK e \in entries[h] :
          /\ entries' = [entries EXCEPT ![h] = @ \ {e}]
          /\ \/ SetRole(e, "kicked") /\ Goto(h, "unban")
             \/ Fault("ban")
    BY <1>9 DEF Ban
  <2>2. SetRole(e, "kicked") /\ Goto(h, "unban")
    BY <2>1, FaultFacts
  <2>3. pc[h] = "entries" /\ UNCHANGED <<at, chanByLimit>>
    BY <1>9 DEF Ban
  <2>4. pc'[h] = "unban" /\ entries'[h] = entries[h] \ {e} /\ e \in Channels
    BY <2>1, <2>2 DEF Goto, TypeOK
  <2>5. role[e] = "kicked"
    BY <2>2, <2>4, SetRoleFacts
  <2> QED
    BY <1>0, <2>3, <2>4, <2>5 DEF Separates, Active, Loop
<1> QED
  BY <1>2, <1>4, <1>5, <1>6, <1>7, <1>8, <1>9 DEF Step

\* A step keeps an account of every two channels the user is in.
LEMMA StepSeparated ==
    ASSUME PaidAssumption, DistinctLimits, TypeOK, Found, Separated,
           NEW h \in Handlers, Step(h)
    PROVE  Separated'
<1> SUFFICES ASSUME faults' \cap {"ask", "ban"} = {},
                    NEW k \in Calls,
                    NEW c \in MemberOf(Subjects[k])', NEW d \in MemberOf(Subjects[k])',
                    LimitsOf(Subjects[k])[c] < LimitsOf(Subjects[k])[d],
                    ~(updates' > 0)
             PROVE  \E g \in Handlers : Active(g)' /\ Separates(g, k, c, d)'
  BY DEF Separated, Calls
<1>1. ~AskFails(h)
  BY FaultFacts DEF AskFails
<1>2. c \in DOMAIN LimitsOf(Subjects[k]) /\ d \in DOMAIN LimitsOf(Subjects[k])
  BY DEF MemberOf
<1>3. CASE Handle(h)
  <2>1. Enter(h, 1)
    BY <1>3 DEF Handle
  <2>2. 1 \in Nat /\ 1 > 0 /\ 1 <= k
    BY SubjectFacts DEF Calls
  <2> QED
    BY <1>2, <2>1, <2>2, EnterSeparates
<1>4. CASE ~Handle(h)
  <2>1. updates' = 0
    <3>1. updates' \in Nat
      BY StepType DEF TypeOK
    <3> QED
      BY <3>1
  <2>2. updates = 0 /\ role' = role /\ faults \subseteq faults'
    BY <1>1, <1>4, <2>1, QuietStep
  <2>3. c \in MemberOf(Subjects[k]) /\ d \in MemberOf(Subjects[k])
    BY <2>2 DEF MemberOf
  <2>4. PICK g \in Handlers : Active(g) /\ Separates(g, k, c, d)
    <3>1. faults \cap {"ask", "ban"} = {}
      BY <2>2
    <3>2. ~(updates > 0)
      BY <2>2
    <3> QED
      BY <2>3, <3>1, <3>2 DEF Separated
  <2>5. CASE g = h
    BY <1>1, <2>2, <2>3, <2>4, <2>5, KeepsSeparating
  <2>6. CASE g # h
    <3>1. /\ pc'[g] = pc[g] /\ at'[g] = at[g] /\ toAsk'[g] = toAsk[g]
          /\ chanByLimit'[g] = chanByLimit[g] /\ entries'[g] = entries[g]
      BY <1>1, <2>6, OthersSame
    <3> QED
      BY <2>4, <3>1 DEF Active, Separates
  <2> QED
    BY <2>5, <2>6
<1> QED
  BY <1>3, <1>4

LEMMA NextSeparated ==
    ASSUME PaidAssumption, DistinctLimits, TypeOK, Found, Separated, [Next]_vars
    PROVE  Separated'
<1>1. CASE \E c \in Channels : Join(c) \/ Leave(c)
  <2>1. updates' > 0
    BY <1>1, UserStep
  <2> QED
    BY <2>1 DEF Separated
<1>2. CASE \E h \in Handlers : Step(h)
  BY <1>2, StepSeparated
<1>3. CASE UNCHANGED vars
  BY <1>3 DEF vars, telegram, local, Separated, MemberOf, Active, Separates
<1> QED
  BY <1>1, <1>2, <1>3 DEF Next

\* At the start the user is in no channel.
LEMMA InitMember ==
    ASSUME PaidAssumption, Init
    PROVE  \A k \in Calls : MemberOf(Subjects[k]) = {}
BY SubjectFacts DEF Init, MemberOf

\* When all is handled, no handler is left to separate two channels.
LEMMA SeparatedOneChannel ==
    ASSUME PaidAssumption, DistinctLimits, Separated
    PROVE  OneChannel
<1> SUFFICES ASSUME Quiet, faults \cap {"ask", "ban"} = {}, NEW s \in Subj
             PROVE  Cardinality(MemberOf(s)) <= 1
  BY DEF OneChannel
<1>1. PICK k \in Calls : s = Subjects[k]
  BY SubjectFacts
<1>2. ASSUME NEW c \in MemberOf(s), NEW d \in MemberOf(s)
      PROVE  ~(LimitsOf(s)[c] < LimitsOf(s)[d])
  <2>1. ~(updates > 0) /\ \A h \in Handlers : ~Active(h)
    BY DEF Quiet, Active
  <2>2. c \in MemberOf(Subjects[k]) /\ d \in MemberOf(Subjects[k])
    BY <1>1
  <2> QED
    BY <1>1, <2>1, <2>2 DEF Separated
<1>3. ASSUME NEW c \in MemberOf(s), NEW d \in MemberOf(s)
      PROVE  c = d
  <2>1. c \in DOMAIN LimitsOf(s) /\ d \in DOMAIN LimitsOf(s)
    BY DEF MemberOf
  <2>2. LimitsOf(s)[c] \in Nat /\ LimitsOf(s)[d] \in Nat
    BY <2>1, SubjectFacts
  <2>3. LimitsOf(s)[c] = LimitsOf(s)[d]
    BY <1>2, <2>2
  <2> QED
    BY <2>1, <2>3 DEF DistinctLimits
<1>4. CASE MemberOf(s) = {}
  BY <1>4, FS_EmptySet
<1>5. CASE MemberOf(s) # {}
  <2>1. PICK c \in MemberOf(s) : TRUE
    BY <1>5
  <2>2. MemberOf(s) = {c}
    BY <1>3, <2>1
  <2>3. Cardinality({c}) = 1
    BY FS_Singleton
  <2> QED
    BY <2>2, <2>3
<1> QED
  BY <1>4, <1>5

\* When the limits of a subject's channels are different, nobody stays in two of
\* them once all updates are handled, however many handlers overlap, unless Telegram
\* failed to answer or to remove the user (paid.go:101-121).
THEOREM NobodyInTwo ==
    ASSUME DistinctLimits
    PROVE  Spec => []OneChannel
<1>1. Init => TypeOK /\ Found /\ Separated
  BY PaidAssumption, InitType, InitMember DEF Separated
<1>2. TypeOK /\ Found /\ Separated /\ [Next]_vars => (TypeOK /\ Found /\ Separated)'
  BY PaidAssumption, NextType, NextSeparated
<1>3. Separated => OneChannel
  BY PaidAssumption, SeparatedOneChannel
<1> QED
  BY <1>1, <1>2, <1>3, PTL DEF Spec
-----------------------------------------------------------------------------
(* The limit is the one of the best channel.                                 *)

\* A finite set of channels has one of the greatest limit: a smallest set without
\* one would still have one after a channel is taken out.
LEMMA MaxExists ==
    ASSUME NEW f, NEW S, S # {}, IsFiniteSet(S), \A c \in S : f[c] \in Nat
    PROVE  \E m \in S : \A d \in S : f[d] <= f[m]
<1> DEFINE HasMax(A) == \E m \in A : \A d \in A : f[d] <= f[m]
           Sizes == {n \in Nat : \E A \in SUBSET S : A # {} /\ Cardinality(A) = n /\ ~HasMax(A)}
<1>1. SUFFICES ASSUME ~HasMax(S) PROVE FALSE
  OBVIOUS
<1>2. Cardinality(S) \in Sizes
  BY <1>1, FS_CardinalityType
<1>3. PICK n \in Sizes : \A k \in Sizes : ~(<<k, n>> \in OpToRel(<, Nat))
  BY <1>2, NatLessThanWellFounded, WFMin
<1>4. PICK A \in SUBSET S : A # {} /\ Cardinality(A) = n /\ ~HasMax(A)
  BY <1>3
<1>5. PICK c \in A : TRUE
  BY <1>4
<1>6. IsFiniteSet(A) /\ IsFiniteSet(A \ {c}) /\ n \in Nat
  BY <1>4, FS_Subset
<1>7. Cardinality(A \ {c}) = n - 1 /\ n - 1 \in Nat /\ n - 1 < n
  <2>1. Cardinality(A \ {c}) = Cardinality(A) - 1 /\ Cardinality(A \ {c}) \in Nat
    BY <1>5, <1>6, FS_RemoveElement, FS_CardinalityType
  <2> QED
    BY <1>4, <1>6, <2>1
<1>8. ~(n - 1 \in Sizes)
  BY <1>3, <1>6, <1>7 DEF OpToRel
<1>9. CASE A \ {c} = {}
  <2>1. A = {c} /\ f[c] <= f[c]
    BY <1>4, <1>5, <1>9
  <2> QED
    BY <1>4, <2>1
<1>10. CASE A \ {c} # {}
  <2>1. PICK m \in A \ {c} : \A d \in A \ {c} : f[d] <= f[m]
    BY <1>7, <1>8, <1>10
  <2>2. f[m] \in Nat /\ f[c] \in Nat /\ \A d \in A : f[d] \in Nat
    BY <1>4, <1>5, <2>1
  <2>3. CASE f[c] <= f[m]
    BY <1>4, <1>5, <2>1, <2>3
  <2>4. CASE f[m] < f[c]
    <3>1. \A d \in A : f[d] <= f[c]
      BY <2>1, <2>2, <2>4
    <3> QED
      BY <1>4, <1>5, <3>1
  <2> QED
    BY <2>2, <2>3, <2>4
<1> QED
  BY <1>9, <1>10

\* A handler which has found the user in a channel has found a best one.
LEMMA BestFound ==
    ASSUME PaidAssumption, TypeOK, Found, NEW h \in Handlers, Active(h), chanByLimit[h] # {}
    PROVE  \E m \in chanByLimit[h] : IsMax(h, m)
<1>1. /\ chanByLimit[h] \subseteq DOMAIN LimitsOf(Subject(h)) /\ Subject(h) \in Subj
      /\ chanByLimit[h] \in SUBSET Channels
  BY SubjectOf DEF Found, TypeOK
<1>2. IsFiniteSet(chanByLimit[h])
  BY <1>1, FS_Subset DEF PaidAssumption
<1>3. \A c \in chanByLimit[h] : LimitsOf(Subject(h))[c] \in Nat
  BY <1>1, SubjectFacts
<1>4. \E m \in chanByLimit[h] : \A d \in chanByLimit[h] :
          LimitsOf(Subject(h))[d] <= LimitsOf(Subject(h))[m]
  BY <1>2, <1>3, MaxExists
<1> QED
  BY <1>4 DEF IsMax, LimitAt

\* No handler overlapped another one and no call failed.
Sole == ~overlapped /\ faults = {}

\* One handler runs at a time.
Alone == \A g, h \in Handlers : Active(g) /\ Active(h) => g = h

\* What a handler knows is true: the user is where it was found, and of the channels
\* asked for, none is better than the best one found.
Knows(h) ==
    /\ chanByLimit[h] \subseteq MemberOf(Subject(h))
    /\ \A c \in MemberOf(Subject(h)) \ toAsk[h] :
          \E d \in chanByLimit[h] : LimitAt(h, c) <= LimitAt(h, d)

Truth == updates = 0 => \A h \in Handlers : Active(h) => Knows(h)

\* The handler will raise the limit of its subject to that of the best channel.
Grants(h) ==
    \/ pc[h] \in {"ask", "set"}
    \/ pc[h] \in Loop /\ \E m \in entries[h] : IsMax(h, m)

WillGrant(h, k) ==
    \/ at[h] < k
    \/ at[h] = k /\ Grants(h)

\* A member has the limit of the channel, or will get it.
Granted ==
    updates = 0 => \A k \in Calls : \A c \in MemberOf(Subjects[k]) :
        \/ limit[Subjects[k]] >= LimitsOf(Subjects[k])[c]
        \/ \E h \in Handlers : Active(h) /\ WillGrant(h, k)

WillReset(h, k) ==
    \/ at[h] < k
    \/ at[h] = k /\ pc[h] \in {"ask", "delete"}

\* Who is in no channel has the default limit, or will get it.
Reset ==
    updates = 0 => \A k \in Calls : MemberOf(Subjects[k]) = {} =>
        \/ limit[Subjects[k]] = Default
        \/ \E h \in Handlers : Active(h) /\ WillReset(h, k)

\* A handler which is about to set the limit raises it, and one which is about to
\* tell the user of it tells the truth.
Honest(h) ==
    /\ pc[h] = "tellReset" => limit[Subject(h)] = Default
    /\ pc[h] = "set" => \A c \in current[h] : limit[Subject(h)] < LimitAt(h, c)
    /\ pc[h] = "tellSet" => \A c \in current[h] : limit[Subject(h)] = LimitAt(h, c)

WillTell(h, s) == Subject(h) = s /\ pc[h] \in {"tellReset", "tellSet"}

\* The user knows the limit, or will be told of it.
Told ==
    /\ \A h \in Handlers : Honest(h)
    /\ \A s \in Subj : told[s] = limit[s] \/ \E h \in Handlers : WillTell(h, s)

SoleInv == Sole => Alone /\ Truth /\ Granted /\ Reset /\ Told

\* Without overlaps and failures a handler starts when all others have ended.
LEMMA SoleStep ==
    ASSUME PaidAssumption, TypeOK, NEW h \in Handlers, Step(h), Sole'
    PROVE  /\ Sole
           /\ ~AskFails(h)
           /\ faults' = {}
           /\ Handle(h) => \A g \in Handlers : pc[g] = "idle"
           /\ ~Handle(h) => pc[h] # "idle"
<1>1. faults' = {} /\ ~overlapped'
  BY DEF Sole
<1>2. ~\E kind : Fault(kind)
  BY <1>1, FaultFacts
<1>3. ~AskFails(h)
  BY <1>2 DEF AskFails
<1>4. faults = {}
  BY <1>1, <1>2, <1>3 DEF Step, Handle, Ask, Decide, Delete, TellReset, Get, Set, TellSet,
                          Ban, Unban, EndOfLoop
<1>5. ~overlapped /\ (Handle(h) => \A g \in Handlers : pc[g] = "idle")
  <2>1. CASE Handle(h)
    BY <1>1, <2>1 DEF Handle
  <2>2. CASE ~Handle(h)
    <3>1. overlapped' = overlapped
      BY <1>3, <2>2 DEF Step, Ask, Decide, Delete, TellReset, Get, Set, TellSet, Ban,
                        Unban, EndOfLoop, history
    <3> QED
      BY <1>1, <2>2, <3>1
  <2> QED
    BY <2>1, <2>2
<1>6. ~Handle(h) => pc[h] # "idle"
  BY <1>3 DEF Step, Ask, Decide, Delete, TellReset, Get, Set, TellSet, Ban, Unban, EndOfLoop
<1> QED
  BY <1>1, <1>3, <1>4, <1>5, <1>6 DEF Sole

\* The first step of a handler: everything is still before it.
LEMMA HandleSole ==
    ASSUME PaidAssumption, TypeOK, NEW h \in Handlers, Handle(h),
           \A g \in Handlers : pc[g] = "idle", Told
    PROVE  (Alone /\ Truth /\ Granted /\ Reset /\ Told)'
<1>1. Enter(h, 1) /\ 1 \in Nat /\ 1 > 0 /\ Len(Subjects) \in Nat \ {0}
  BY SubjectFacts DEF Handle
<1>2. /\ pc'[h] = "ask" /\ at'[h] = 1 /\ toAsk'[h] = DOMAIN LimitsOf(Subjects[1])
      /\ chanByLimit'[h] = {}
      /\ \A g \in Handlers \ {h} : pc'[g] = "idle"
  BY <1>1, EnterFacts
<1>3. UNCHANGED <<limit, told, current>>
  BY DEF Handle
<1>4. Alone'
  BY <1>2 DEF Alone, Active
<1>5. Truth'
  <2>1. Knows(h)'
    BY <1>2 DEF Knows, MemberOf, Subject
  <2> QED
    BY <1>2, <2>1 DEF Truth, Active
<1>6. ASSUME NEW k \in Calls
      PROVE  Active(h)' /\ WillGrant(h, k)' /\ WillReset(h, k)'
  <2>1. 1 < k \/ k = 1
    BY <1>1 DEF Calls
  <2> QED
    BY <1>2, <2>1 DEF Active, WillGrant, Grants, WillReset
<1>7. Granted' /\ Reset'
  BY <1>6 DEF Granted, Reset, Calls
<1>8. Told'
  <2>1. \A g \in Handlers : Honest(g)'
    BY <1>2 DEF Honest
  <2>2. \A s \in Subj : told[s] = limit[s]
    BY DEF Told, WillTell
  <2> QED
    BY <1>3, <2>1, <2>2 DEF Told, Subj
<1> QED
  BY <1>4, <1>5, <1>7, <1>8

\* What a handler knows stays true as long as no role changes.
LEMMA KnowsStep ==
    ASSUME PaidAssumption, TypeOK, Found, NEW h \in Handlers, Active(h), Step(h),
           ~AskFails(h), role' = role, Active(h)', Knows(h)
    PROVE  Knows(h)'
<1>0. at[h] + 1 \in Nat /\ at[h] + 1 > 0 /\ Len(Subjects) \in Nat \ {0} /\ FoundBy(h)
      /\ Subject(h) \in Subj
  BY SubjectOf, SubjectFacts DEF Found, FoundBy
<1>1. ~Handle(h)
  BY DEF Handle, Active
<1>2. CASE Ask(h)
  <2>1. PICK c \in toAsk[h] :
          /\ toAsk' = [toAsk EXCEPT ![h] = @ \ {c}]
          /\ chanByLimit' = [chanByLimit EXCEPT ![h] =
               IF role[c] = "member"
                 THEN {d \in @ : LimitAt(h, d) # LimitAt(h, c)} \cup {c}
                 ELSE @]
    BY <1>2 DEF Ask
  <2>2. at' = at
    BY <1>2 DEF Ask
  <2>3. Subject(h)' = Subject(h) /\ \A e : LimitAt(h, e)' = LimitAt(h, e)
    BY <2>2, SubjectSame
  <2>4. MemberOf(Subject(h))' = MemberOf(Subject(h))
    BY <2>3 DEF MemberOf
  <2>5. c \in DOMAIN LimitsOf(Subject(h)) /\ LimitAt(h, c) \in Nat
    BY <1>0, SubjectFacts DEF FoundBy, LimitAt
  <2>6. /\ toAsk'[h] = toAsk[h] \ {c}
        /\ chanByLimit'[h] = IF role[c] = "member"
                               THEN {d \in chanByLimit[h] : LimitAt(h, d) # LimitAt(h, c)} \cup {c}
                               ELSE chanByLimit[h]
    BY <2>1 DEF TypeOK
  <2>7. chanByLimit'[h] \subseteq MemberOf(Subject(h))
    BY <2>5, <2>6 DEF Knows, MemberOf
  <2>8. ASSUME NEW e \in MemberOf(Subject(h)) \ toAsk'[h]
        PROVE  \E d \in chanByLimit'[h] : LimitAt(h, e) <= LimitAt(h, d)
    <3>1. CASE e = c
      <4>1. role[c] = "member" /\ c \in chanByLimit'[h]
        BY <2>6, <2>8, <3>1 DEF MemberOf
      <4> QED
        BY <2>5, <3>1, <4>1
    <3>2. CASE e # c
      <4>1. PICK d \in chanByLimit[h] : LimitAt(h, e) <= LimitAt(h, d)
        BY <2>6, <2>8, <3>2 DEF Knows
      <4>2. CASE d \in chanByLimit'[h]
        BY <4>1, <4>2
      <4>3. CASE ~(d \in chanByLimit'[h])
        <5>1. c \in chanByLimit'[h] /\ LimitAt(h, d) = LimitAt(h, c)
          BY <2>6, <4>3
        <5> QED
          BY <4>1, <5>1
      <4> QED
        BY <4>2, <4>3
    <3> QED
      BY <3>1, <3>2
  <2> QED
    BY <2>3, <2>4, <2>7, <2>8 DEF Knows
<1>3. CASE UNCHANGED <<at, toAsk, chanByLimit>>
  <2>1. Subject(h)' = Subject(h) /\ \A e : LimitAt(h, e)' = LimitAt(h, e)
    BY <1>3, SubjectSame
  <2>2. MemberOf(Subject(h))' = MemberOf(Subject(h))
    BY <2>1 DEF MemberOf
  <2> QED
    BY <1>3, <2>1, <2>2 DEF Knows
<1>4. CASE Enter(h, at[h] + 1)
  <2>1. pc'[h] # "idle"
    BY DEF Active
  <2>2. /\ at'[h] = at[h] + 1 /\ chanByLimit'[h] = {}
        /\ toAsk'[h] = DOMAIN LimitsOf(Subjects[at[h] + 1])
    BY <1>0, <1>4, <2>1, EnterFacts
  <2> QED
    BY <2>2 DEF Knows, MemberOf, Subject
<1> QED
  BY <1>1, <1>2, <1>3, <1>4 DEF Step, Decide, Delete, TellReset, Get, Set, TellSet, Ban,
                                Unban, EndOfLoop

\* A handler which tells the truth goes on doing so.
LEMMA HonestStep ==
    ASSUME PaidAssumption, TypeOK, Found, NEW h \in Handlers, Step(h), Active(h),
           ~AskFails(h), faults' = {}, Honest(h)
    PROVE  Honest(h)'
<1>0. at[h] + 1 \in Nat /\ at[h] + 1 > 0 /\ FoundBy(h) /\ Subject(h) \in Subj
  BY SubjectOf DEF Found, FoundBy
<1>1. ~\E kind : Fault(kind)
  BY FaultFacts
<1>2. ~Handle(h)
  BY DEF Handle, Active
<1>3. CASE Enter(h, at[h] + 1)
  BY <1>0, <1>3, EnterFacts DEF Honest
<1>4. CASE Ask(h) \/ Decide(h) \/ TellSet(h) \/ Ban(h) \/ Unban(h)
  BY <1>1, <1>4 DEF Ask, Decide, TellSet, Ban, Unban, Goto, TypeOK, Honest
<1>5. CASE Delete(h)
  <2>1. limit' = [limit EXCEPT ![Subject(h)] = Default] /\ pc'[h] = "tellReset" /\ at' = at
    BY <1>1, <1>5 DEF Delete, Goto, TypeOK
  <2>2. Subject(h)' = Subject(h)
    BY <2>1, SubjectSame
  <2> QED
    BY <1>0, <2>1, <2>2 DEF Honest, TypeOK
<1>6. CASE Get(h)
  <2>1. PICK c \in entries[h] :
          /\ current' = [current EXCEPT ![h] = {c}]
          /\ Goto(h, IF LimitAt(h, c) > limit[Subject(h)] THEN "set" ELSE "entries")
    BY <1>1, <1>6 DEF Get
  <2>2. at' = at /\ limit' = limit
    BY <1>6 DEF Get
  <2>3. Subject(h)' = Subject(h) /\ \A e : LimitAt(h, e)' = LimitAt(h, e)
    BY <2>2, SubjectSame
  <2>4. /\ current'[h] = {c}
        /\ pc'[h] = IF LimitAt(h, c) > limit[Subject(h)] THEN "set" ELSE "entries"
    BY <2>1 DEF Goto, TypeOK
  <2>5. LimitAt(h, c) > limit[Subject(h)] => limit[Subject(h)] < LimitAt(h, c)
    OBVIOUS
  <2> QED
    BY <2>2, <2>3, <2>4, <2>5 DEF Honest
<1>7. CASE Set(h)
  <2>1. PICK c \in current[h] : limit' = [limit EXCEPT ![Subject(h)] = LimitAt(h, c)]
    BY <1>1, <1>7 DEF Set
  <2>2. pc[h] = "set" /\ pc'[h] = "tellSet" /\ at' = at /\ current' = current
    BY <1>1, <1>7 DEF Set, Goto, TypeOK
  <2>3. Subject(h)' = Subject(h) /\ \A e : LimitAt(h, e)' = LimitAt(h, e)
    BY <2>2, SubjectSame
  <2>4. current[h] = {c}
    BY <1>0, <2>1, <2>2 DEF FoundBy
  <2>5. limit'[Subject(h)] = LimitAt(h, c)
    BY <1>0, <2>1 DEF TypeOK
  <2> QED
    BY <2>2, <2>3, <2>4, <2>5 DEF Honest
<1> QED
  BY <1>1, <1>2, <1>3, <1>4, <1>5, <1>6, <1>7 DEF Step, TellReset, EndOfLoop

\* A member who is promised a limit gets it, or still is promised it.
LEMMA GrantStep ==
    ASSUME PaidAssumption, TypeOK, Found, NEW h \in Handlers, Step(h), Active(h),
           ~AskFails(h), faults' = {}, role' = role, updates' = 0, Knows(h), Honest(h),
           NEW k \in Calls, NEW c \in MemberOf(Subjects[k]),
           limit[Subjects[k]] >= LimitsOf(Subjects[k])[c] \/ WillGrant(h, k)
    PROVE  \/ limit'[Subjects[k]] >= LimitsOf(Subjects[k])[c]
           \/ Active(h)' /\ WillGrant(h, k)'
<1> DEFINE s == Subjects[k]
           L == LimitsOf(s)[c]
<1>0. /\ at[h] + 1 \in Nat /\ at[h] + 1 > 0 /\ at[h] \in Nat /\ FoundBy(h)
      /\ Subject(h) \in Subj /\ s \in Subj /\ k \in Nat /\ k <= Len(Subjects)
      /\ Len(Subjects) \in Nat /\ L \in Nat /\ L > Default /\ Default \in Nat
  <2>1. Len(Subjects) \in Nat /\ s \in Subj /\ c \in DOMAIN LimitsOf(s)
    BY SubjectFacts DEF MemberOf
  <2>2. k \in Nat /\ k <= Len(Subjects)
    BY <2>1 DEF Calls
  <2>3. L \in Nat /\ L > Default /\ Default \in Nat
    BY <2>1, SubjectFacts
  <2> QED
    BY <2>1, <2>2, <2>3, SubjectOf DEF Found, FoundBy
<1>1. ~\E kind : Fault(kind)
  BY FaultFacts
<1>2. ~Handle(h)
  BY DEF Handle, Active
<1>3. /\ limit[Subject(h)] \in Nat /\ limit[s] \in Nat
      /\ \A d \in chanByLimit[h] : LimitAt(h, d) \in Nat
  BY <1>0, SubjectFacts DEF TypeOK, FoundBy, LimitAt
<1>4. ASSUME Subject(h) = s, toAsk[h] = {}
      PROVE  \E d \in chanByLimit[h] : L <= LimitAt(h, d)
  <2>1. \E d \in chanByLimit[h] : LimitAt(h, c) <= LimitAt(h, d)
    BY <1>4 DEF Knows
  <2> QED
    BY <1>4, <2>1 DEF LimitAt
<1>5. ASSUME Subject(h) = s, toAsk[h] = {}, NEW m \in chanByLimit[h], IsMax(h, m)
      PROVE  L <= LimitAt(h, m)
  <2>1. PICK d \in chanByLimit[h] : L <= LimitAt(h, d)
    BY <1>4, <1>5
  <2>2. LimitAt(h, d) <= LimitAt(h, m)
    BY <1>5 DEF IsMax
  <2> QED
    BY <1>0, <1>3, <2>1, <2>2
<1>6. at[h] = k => Subject(h) = s
  BY DEF Subject
<1>7. CASE Enter(h, at[h] + 1) /\ (TellReset(h) \/ EndOfLoop(h))
  <2>1. limit' = limit
    BY <1>7 DEF TellReset, EndOfLoop
  <2>2. WillGrant(h, k) => at[h] < k
    BY <1>7 DEF WillGrant, Grants, TellReset, EndOfLoop, Loop
  <2>3. CASE at[h] < k
    <3>1. at[h] + 1 <= Len(Subjects) /\ (at[h] + 1 < k \/ at[h] + 1 = k)
      BY <1>0, <2>3
    <3>2. pc'[h] = "ask" /\ at'[h] = at[h] + 1
      BY <1>0, <1>7, <3>1, EnterFacts
    <3> QED
      BY <3>1, <3>2 DEF Active, WillGrant, Grants
  <2> QED
    BY <2>1, <2>2, <2>3
<1>8. CASE Ask(h)
  BY <1>8 DEF Ask, Active, WillGrant, Grants
<1>9. CASE Decide(h)
  <2>1. /\ pc[h] = "ask" /\ toAsk[h] = {} /\ UNCHANGED <<at, chanByLimit, limit>>
        /\ entries'[h] = chanByLimit[h]
        /\ pc'[h] = IF chanByLimit[h] = {} THEN "delete" ELSE "entries"
    BY <1>9 DEF Decide, Goto, TypeOK
  <2>2. CASE at[h] < k
    BY <2>1, <2>2 DEF Active, WillGrant
  <2>3. CASE at[h] = k
    <3>1. chanByLimit[h] # {}
      BY <1>4, <1>6, <2>1, <2>3
    <3>2. PICK m \in chanByLimit[h] : IsMax(h, m)
      BY <3>1, BestFound
    <3>3. IsMax(h, m)'
      BY <2>1, <3>2, IsMaxSame
    <3> QED
      BY <2>1, <2>3, <3>1, <3>3 DEF Active, WillGrant, Grants, Loop
  <2> QED
    BY <2>1, <2>2, <2>3 DEF WillGrant
<1>10. CASE Delete(h)
  <2>1. /\ pc[h] = "delete" /\ pc'[h] = "tellReset" /\ at' = at
        /\ limit' = [limit EXCEPT ![Subject(h)] = Default]
    BY <1>1, <1>10 DEF Delete, Goto, TypeOK
  <2>2. CASE at[h] < k
    BY <2>1, <2>2 DEF Active, WillGrant
  <2>3. CASE ~(at[h] < k)
    <3>1. limit[s] >= L
      BY <2>1, <2>3 DEF WillGrant, Grants, Loop
    <3>2. Subject(h) # s
      BY <1>0, <1>4, <2>1 DEF FoundBy
    <3>3. limit'[s] = limit[s]
      BY <1>0, <2>1, <3>2 DEF TypeOK
    <3> QED
      BY <3>1, <3>3
  <2> QED
    BY <2>2, <2>3
<1>11. CASE Get(h)
  <2>1. PICK m \in entries[h] :
          /\ IsMax(h, m)
          /\ Goto(h, IF LimitAt(h, m) > limit[Subject(h)] THEN "set" ELSE "entries")
    BY <1>1, <1>11 DEF Get
  <2>2. pc[h] = "entries" /\ UNCHANGED <<at, chanByLimit, limit>>
    BY <1>11 DEF Get
  <2>3. pc'[h] = IF LimitAt(h, m) > limit[Subject(h)] THEN "set" ELSE "entries"
    BY <2>1 DEF Goto, TypeOK
  <2>4. CASE at[h] < k
    BY <2>2, <2>3, <2>4 DEF Active, WillGrant
  <2>5. CASE at[h] = k
    <3>1. L <= LimitAt(h, m) /\ m \in chanByLimit[h]
      BY <1>0, <1>5, <1>6, <2>1, <2>2, <2>5 DEF FoundBy, Loop
    <3>2. CASE LimitAt(h, m) > limit[Subject(h)]
      BY <2>2, <2>3, <2>5, <3>2 DEF Active, WillGrant, Grants
    <3>3. CASE ~(LimitAt(h, m) > limit[Subject(h)])
      <4>1. limit[s] >= L
        BY <1>0, <1>3, <1>6, <2>5, <3>1, <3>3
      <4> QED
        BY <2>2, <4>1
    <3> QED
      BY <3>2, <3>3
  <2> QED
    BY <2>2, <2>4, <2>5 DEF WillGrant
<1>12. CASE Set(h)
  <2>1. PICK m \in current[h] : limit' = [limit EXCEPT ![Subject(h)] = LimitAt(h, m)]
    BY <1>1, <1>12 DEF Set
  <2>2. pc[h] = "set" /\ pc'[h] = "tellSet" /\ UNCHANGED <<at, chanByLimit>>
    BY <1>1, <1>12 DEF Set, Goto, TypeOK
  <2>3. m \in chanByLimit[h] /\ IsMax(h, m) /\ toAsk[h] = {}
    BY <1>0, <2>1, <2>2 DEF FoundBy
  <2>4. limit'[Subject(h)] = LimitAt(h, m) /\ (Subject(h) # s => limit'[s] = limit[s])
    BY <1>0, <2>1 DEF TypeOK
  <2>5. CASE at[h] < k
    BY <2>2, <2>5 DEF Active, WillGrant
  <2>6. CASE Subject(h) = s
    <3>1. L <= LimitAt(h, m)
      BY <1>5, <2>3, <2>6
    <3>2. LimitAt(h, m) \in Nat
      BY <1>3, <2>3
    <3> QED
      BY <1>0, <2>4, <2>6, <3>1, <3>2
  <2>7. CASE Subject(h) # s /\ ~(at[h] < k)
    BY <1>6, <2>4, <2>7 DEF WillGrant
  <2> QED
    BY <2>5, <2>6, <2>7
<1>13. CASE TellSet(h) \/ Unban(h)
  <2>1. /\ pc[h] \in {"tellSet", "unban"} /\ pc'[h] = "entries"
        /\ UNCHANGED <<at, chanByLimit, entries, limit>>
    BY <1>13 DEF TellSet, Unban, Goto, TypeOK
  <2>2. \A m : IsMax(h, m)' = IsMax(h, m)
    BY <2>1, IsMaxSame
  <2> QED
    BY <2>1, <2>2 DEF Active, WillGrant, Grants, Loop
<1>14. CASE Ban(h)
  <2>1. PICK e \in entries[h] :
          /\ ~IsMax(h, e)
          /\ entries' = [entries EXCEPT ![h] = @ \ {e}]
          /\ Goto(h, "unban")
    BY <1>1, <1>14 DEF Ban
  <2>2. pc[h] = "entries" /\ UNCHANGED <<at, chanByLimit, limit>>
    BY <1>14 DEF Ban
  <2>3. pc'[h] = "unban" /\ entries'[h] = entries[h] \ {e}
    BY <2>1 DEF Goto, TypeOK
  <2>4. \A m : IsMax(h, m)' = IsMax(h, m)
    BY <2>2, IsMaxSame
  <2> QED
    BY <2>1, <2>2, <2>3, <2>4 DEF Active, WillGrant, Grants, Loop
<1> QED
  BY <1>1, <1>2, <1>7, <1>8, <1>9, <1>10, <1>11, <1>12, <1>13, <1>14
     DEF Step, TellReset, EndOfLoop

\* Who is promised the default limit gets it, or still is promised it.
LEMMA ResetStep ==
    ASSUME PaidAssumption, TypeOK, Found, NEW h \in Handlers, Step(h), Active(h),
           ~AskFails(h), faults' = {}, role' = role, Knows(h),
           NEW k \in Calls, MemberOf(Subjects[k]) = {},
           limit[Subjects[k]] = Default \/ WillReset(h, k)
    PROVE  \/ limit'[Subjects[k]] = Default
           \/ Active(h)' /\ WillReset(h, k)'
<1> DEFINE s == Subjects[k]
<1>0. /\ at[h] + 1 \in Nat /\ at[h] + 1 > 0 /\ at[h] \in Nat /\ FoundBy(h)
      /\ Subject(h) \in Subj /\ s \in Subj /\ k \in Nat /\ k <= Len(Subjects)
      /\ Len(Subjects) \in Nat
  <2>1. Len(Subjects) \in Nat /\ s \in Subj
    BY SubjectFacts
  <2>2. k \in Nat /\ k <= Len(Subjects)
    BY <2>1 DEF Calls
  <2> QED
    BY <2>1, <2>2, SubjectOf DEF Found, FoundBy
<1>1. ~\E kind : Fault(kind)
  BY FaultFacts
<1>2. ~Handle(h)
  BY DEF Handle, Active
<1>3. Subject(h) = s => chanByLimit[h] = {}
  BY DEF Knows
<1>4. at[h] = k => Subject(h) = s
  BY DEF Subject
<1>5. CASE Enter(h, at[h] + 1) /\ (TellReset(h) \/ EndOfLoop(h))
  <2>1. limit' = limit /\ ~(pc[h] \in {"ask", "delete"})
    BY <1>5 DEF TellReset, EndOfLoop
  <2>2. CASE at[h] < k
    <3>1. at[h] + 1 <= Len(Subjects) /\ (at[h] + 1 < k \/ at[h] + 1 = k)
      BY <1>0, <2>2
    <3>2. pc'[h] = "ask" /\ at'[h] = at[h] + 1
      BY <1>0, <1>5, <3>1, EnterFacts
    <3> QED
      BY <3>1, <3>2 DEF Active, WillReset
  <2> QED
    BY <2>1, <2>2 DEF WillReset
<1>6. CASE Ask(h)
  BY <1>6 DEF Ask, Active, WillReset
<1>7. CASE Decide(h)
  <2>1. /\ pc[h] = "ask" /\ at' = at /\ limit' = limit
        /\ pc'[h] = IF chanByLimit[h] = {} THEN "delete" ELSE "entries"
    BY <1>7 DEF Decide, Goto, TypeOK
  <2> QED
    BY <1>3, <1>4, <2>1 DEF Active, WillReset
<1>8. CASE Delete(h)
  <2>1. /\ pc'[h] = "tellReset" /\ at' = at
        /\ limit' = [limit EXCEPT ![Subject(h)] = Default]
    BY <1>1, <1>8 DEF Delete, Goto, TypeOK
  <2>2. CASE Subject(h) = s
    BY <1>0, <2>1, <2>2 DEF TypeOK
  <2>3. CASE Subject(h) # s
    <3>1. limit'[s] = limit[s]
      BY <1>0, <2>1, <2>3 DEF TypeOK
    <3> QED
      BY <1>4, <2>1, <2>3, <3>1 DEF Active, WillReset
  <2> QED
    BY <2>2, <2>3
<1>9. CASE Set(h)
  <2>1. PICK m \in current[h] : limit' = [limit EXCEPT ![Subject(h)] = LimitAt(h, m)]
    BY <1>1, <1>9 DEF Set
  <2>2. pc[h] = "set" /\ pc'[h] = "tellSet" /\ at' = at
    BY <1>1, <1>9 DEF Set, Goto, TypeOK
  <2>3. Subject(h) # s
    BY <1>0, <1>3, <2>2 DEF FoundBy, Loop
  <2>4. limit'[s] = limit[s]
    BY <1>0, <2>1, <2>3 DEF TypeOK
  <2> QED
    BY <2>2, <2>4 DEF Active, WillReset
<1>10. CASE Get(h) \/ TellSet(h) \/ Ban(h) \/ Unban(h)
  <2>1. /\ pc[h] \in Loop /\ pc'[h] \in Loop /\ at' = at /\ limit' = limit
    BY <1>1, <1>10 DEF Get, TellSet, Ban, Unban, Goto, TypeOK, Loop
  <2> QED
    BY <2>1 DEF Active, WillReset, Loop
<1> QED
  BY <1>1, <1>2, <1>5, <1>6, <1>7, <1>8, <1>9, <1>10 DEF Step, TellReset, EndOfLoop

\* Who knows the limit, or is about to be told of it, still does or is.
LEMMA TellStep ==
    ASSUME PaidAssumption, TypeOK, Found, NEW h \in Handlers, Step(h), Active(h),
           ~AskFails(h), faults' = {}, Honest(h),
           NEW s \in Subj, told[s] = limit[s] \/ WillTell(h, s)
    PROVE  told'[s] = limit'[s] \/ WillTell(h, s)'
<1>0. FoundBy(h) /\ Subject(h) \in Subj
  BY SubjectOf DEF Found, FoundBy
<1>1. ~\E kind : Fault(kind)
  BY FaultFacts
<1>2. ~Handle(h)
  BY DEF Handle, Active
<1>3. CASE Ask(h) \/ Decide(h) \/ Get(h) \/ Ban(h) \/ Unban(h) \/ EndOfLoop(h)
  <2>1. limit' = limit /\ told' = told /\ ~(pc[h] \in {"tellReset", "tellSet"})
    BY <1>3 DEF Ask, Decide, Get, Ban, Unban, EndOfLoop, history
  <2> QED
    BY <2>1 DEF WillTell
<1>4. CASE Delete(h)
  <2>1. /\ pc[h] = "delete" /\ pc'[h] = "tellReset" /\ at' = at /\ told' = told
        /\ limit' = [limit EXCEPT ![Subject(h)] = Default]
    BY <1>1, <1>4 DEF Delete, Goto, TypeOK, history
  <2>2. Subject(h)' = Subject(h)
    BY <2>1, SubjectSame
  <2>3. Subject(h) # s => limit'[s] = limit[s]
    BY <1>0, <2>1 DEF TypeOK
  <2> QED
    BY <2>1, <2>2, <2>3 DEF WillTell
<1>5. CASE Set(h)
  <2>1. PICK c \in current[h] : limit' = [limit EXCEPT ![Subject(h)] = LimitAt(h, c)]
    BY <1>1, <1>5 DEF Set
  <2>2. pc[h] = "set" /\ pc'[h] = "tellSet" /\ at' = at /\ told' = told
    BY <1>1, <1>5 DEF Set, Goto, TypeOK, history
  <2>3. Subject(h)' = Subject(h)
    BY <2>2, SubjectSame
  <2>4. Subject(h) # s => limit'[s] = limit[s]
    BY <1>0, <2>1 DEF TypeOK
  <2> QED
    BY <2>2, <2>3, <2>4 DEF WillTell
<1>6. CASE TellReset(h)
  <2>1. pc[h] = "tellReset" /\ limit' = limit /\ told' = [told EXCEPT ![Subject(h)] = Default]
    BY <1>6 DEF TellReset
  <2>2. told'[s] = IF s = Subject(h) THEN Default ELSE told[s]
    BY <1>0, <2>1 DEF TypeOK
  <2> QED
    BY <2>1, <2>2 DEF Honest, WillTell
<1>7. CASE TellSet(h)
  <2>1. PICK c \in current[h] : told' = [told EXCEPT ![Subject(h)] = LimitAt(h, c)]
    BY <1>7 DEF TellSet
  <2>2. pc[h] = "tellSet" /\ limit' = limit
    BY <1>7 DEF TellSet
  <2>3. told'[s] = IF s = Subject(h) THEN LimitAt(h, c) ELSE told[s]
    BY <1>0, <2>1 DEF TypeOK
  <2> QED
    BY <2>1, <2>2, <2>3 DEF Honest, WillTell
<1> QED
  BY <1>2, <1>3, <1>4, <1>5, <1>6, <1>7 DEF Step

\* Every step of a handler which is alone.
LEMMA StepSole ==
    ASSUME PaidAssumption, TypeOK, Found, SoleInv, NEW h \in Handlers, Step(h), Sole'
    PROVE  (Alone /\ Truth /\ Granted /\ Reset /\ Told)'
<1>1. Alone /\ Truth /\ Granted /\ Reset /\ Told
  BY SoleStep DEF SoleInv
<1>2. CASE Handle(h)
  BY <1>1, <1>2, SoleStep, HandleSole
<1>3. CASE ~Handle(h)
  <2>1. Active(h) /\ ~AskFails(h) /\ faults' = {}
    BY <1>3, SoleStep DEF Active
  <2>2. \A g \in Handlers \ {h} : /\ pc[g] = "idle" /\ pc'[g] = "idle"
                                  /\ at'[g] = at[g] /\ current'[g] = current[g]
    BY <1>1, <2>1, OthersSame DEF Alone, Active
  <2>3. Alone'
    BY <2>2 DEF Alone, Active
  <2>4. Honest(h) /\ Honest(h)'
    BY <1>1, <2>1, HonestStep DEF Told
  <2>5. Told'
    <3>1. \A g \in Handlers : Honest(g)'
      BY <2>2, <2>4 DEF Honest
    <3>2. ASSUME NEW s \in Subj
          PROVE  told'[s] = limit'[s] \/ WillTell(h, s)'
      <4>1. told[s] = limit[s] \/ WillTell(h, s)
        BY <1>1, <2>2 DEF Told, WillTell
      <4> QED
        BY <2>1, <2>4, <4>1, TellStep
    <3> QED
      BY <3>1, <3>2 DEF Told, Subj
  <2>6. CASE updates' # 0
    BY <2>3, <2>5, <2>6 DEF Truth, Granted, Reset
  <2>7. CASE updates' = 0
    <3>1. updates = 0 /\ role' = role
      BY <1>3, <2>1, <2>7, QuietStep
    <3>2. Knows(h)
      BY <1>1, <2>1, <3>1 DEF Truth
    <3>3. Truth'
      <4>1. Active(h)' => Knows(h)'
        BY <2>1, <3>1, <3>2, KnowsStep
      <4> QED
        BY <2>2, <4>1 DEF Truth, Active
    <3>4. ASSUME NEW k \in Calls, NEW c \in MemberOf(Subjects[k])
          PROVE  \/ limit'[Subjects[k]] >= LimitsOf(Subjects[k])[c]
                 \/ Active(h)' /\ WillGrant(h, k)'
      <4>1. limit[Subjects[k]] >= LimitsOf(Subjects[k])[c] \/ WillGrant(h, k)
        BY <1>1, <2>2, <3>1 DEF Granted, Active
      <4> QED
        BY <2>1, <2>4, <2>7, <3>1, <3>2, <4>1, GrantStep
    <3>5. ASSUME NEW k \in Calls, MemberOf(Subjects[k]) = {}
          PROVE  \/ limit'[Subjects[k]] = Default
                 \/ Active(h)' /\ WillReset(h, k)'
      <4>1. limit[Subjects[k]] = Default \/ WillReset(h, k)
        BY <1>1, <2>2, <3>1, <3>5 DEF Reset, Active
      <4> QED
        BY <2>1, <3>1, <3>2, <3>5, <4>1, ResetStep
    <3>6. \A k \in Calls : MemberOf(Subjects[k])' = MemberOf(Subjects[k])
      BY <3>1 DEF MemberOf
    <3>7. Granted'
      BY <3>4, <3>6 DEF Granted, Calls
    <3>8. Reset'
      BY <3>5, <3>6 DEF Reset, Calls
    <3> QED
      BY <2>3, <2>5, <3>3, <3>7, <3>8
  <2> QED
    BY <2>6, <2>7
<1> QED
  BY <1>2, <1>3

\* While the user joins or leaves, only what the handlers are up to counts.
LEMMA UserSole ==
    ASSUME PaidAssumption, TypeOK, SoleInv, NEW c \in Channels, Join(c) \/ Leave(c)
    PROVE  SoleInv'
<1>1. updates' # 0 /\ UNCHANGED <<limit, local, told, overlapped, faults>>
  BY UserStep
<1>2. SUFFICES ASSUME Sole' PROVE (Alone /\ Told)'
  BY <1>1 DEF SoleInv, Truth, Granted, Reset
<1>3. Sole
  BY <1>1, <1>2 DEF Sole
<1>4. Alone /\ Told
  BY <1>3 DEF SoleInv
<1>5. /\ UNCHANGED <<pc, at, current>>
      /\ \A h \in Handlers : Subject(h)' = Subject(h)
      /\ \A h \in Handlers : \A d : LimitAt(h, d)' = LimitAt(h, d)
  BY <1>1, SameLocal
<1>6. Alone'
  BY <1>4, <1>5 DEF Alone, Active
<1>7. \A h \in Handlers : Honest(h)'
  BY <1>1, <1>4, <1>5 DEF Told, Honest
<1>8. \A s \in Subj : told'[s] = limit'[s] \/ \E h \in Handlers : WillTell(h, s)'
  BY <1>1, <1>4, <1>5 DEF Told, WillTell
<1> QED
  BY <1>6, <1>7, <1>8 DEF Told, Subj

LEMMA InitSole ==
    ASSUME PaidAssumption, Init
    PROVE  SoleInv
<1>1. Alone /\ Truth
  BY DEF Init, Alone, Truth, Active
<1>2. Granted
  BY InitMember DEF Granted
<1>3. Reset
  BY SubjectFacts DEF Init, Reset
<1>4. Told
  BY DEF Init, Told, Honest
<1> QED
  BY <1>1, <1>2, <1>3, <1>4 DEF SoleInv

LEMMA NextSole ==
    ASSUME PaidAssumption, TypeOK, Found, SoleInv, [Next]_vars
    PROVE  SoleInv'
<1>1. CASE \E c \in Channels : Join(c) \/ Leave(c)
  BY <1>1, UserSole
<1>2. CASE \E h \in Handlers : Step(h)
  BY <1>2, StepSole DEF SoleInv
<1>3. CASE UNCHANGED vars
  <2>1. UNCHANGED local /\ UNCHANGED <<role, updates, limit, told, overlapped, faults>>
    BY <1>3 DEF vars, telegram, history
  <2>2. UNCHANGED <<pc, at, toAsk, chanByLimit, entries, current>>
    BY <2>1 DEF local
  <2>3. Sole' = Sole /\ Alone' = Alone
    BY <2>1, <2>2 DEF Sole, Alone, Active
  <2>4. Truth' = Truth
    BY <2>1, <2>2 DEF Truth, Active, Knows, MemberOf, LimitAt, Subject
  <2>5. Granted' = Granted
    BY <2>1, <2>2 DEF Granted, Active, WillGrant, Grants, MemberOf, IsMax, LimitAt, Subject
  <2>6. Reset' = Reset
    BY <2>1, <2>2 DEF Reset, Active, WillReset, MemberOf
  <2>7. Told' = Told
    BY <2>1, <2>2 DEF Told, Honest, WillTell, LimitAt, Subject
  <2> QED
    BY <2>3, <2>4, <2>5, <2>6, <2>7 DEF SoleInv
<1> QED
  BY <1>1, <1>2, <1>3 DEF Next

\* When all is handled, no handler is left to grant, reset or tell anything.
LEMMA SoleQuiet ==
    ASSUME PaidAssumption, SoleInv
    PROVE  PaidIsGranted /\ UnpaidIsReset /\ ToldIsTrue
<1> SUFFICES ASSUME Undisturbed, NEW s \in Subj
             PROVE  /\ \A c \in MemberOf(s) : limit[s] >= LimitsOf(s)[c]
                    /\ MemberOf(s) = {} => limit[s] = Default
                    /\ told[s] = limit[s]
  BY DEF PaidIsGranted, UnpaidIsReset, ToldIsTrue
<1>1. PICK k \in Calls : s = Subjects[k]
  BY SubjectFacts
<1>2. /\ Granted /\ Reset /\ Told /\ updates = 0
      /\ \A h \in Handlers : ~Active(h) /\ ~WillTell(h, s)
  BY DEF Undisturbed, Quiet, SoleInv, Sole, Active, WillTell
<1>3. \A c \in MemberOf(s) : limit[s] >= LimitsOf(s)[c]
  BY <1>1, <1>2 DEF Granted
<1>4. MemberOf(s) = {} => limit[s] = Default
  BY <1>1, <1>2 DEF Reset
<1>5. told[s] = limit[s]
  BY <1>2 DEF Told
<1> QED
  BY <1>3, <1>4, <1>5

\* The invariant holds in every instance.
LEMMA LimitIsPaidFor == Spec => [](PaidIsGranted /\ UnpaidIsReset /\ ToldIsTrue)
<1>1. Init => TypeOK /\ Found /\ SoleInv
  BY PaidAssumption, InitType, InitSole
<1>2. TypeOK /\ Found /\ SoleInv /\ [Next]_vars => (TypeOK /\ Found /\ SoleInv)'
  BY PaidAssumption, NextType, NextSole
<1>3. SoleInv => PaidIsGranted /\ UnpaidIsReset /\ ToldIsTrue
  BY PaidAssumption, SoleQuiet
<1> QED
  BY <1>1, <1>2, <1>3, PTL DEF Spec

\* For handlers which do not overlap, when no call fails and all updates are
\* handled: a member of a paid channel has at least the limit of that channel,
\* however many channels it joined and left and in whatever order Telegram was asked
\* (paid.go:80-99) ...
THEOREM PaidGranted == Spec => []PaidIsGranted
BY LimitIsPaidFor, PTL

\* ... who is in no paid channel has the default limit (paid.go:61-74) ...
THEOREM UnpaidReset == Spec => []UnpaidIsReset
BY LimitIsPaidFor, PTL

\* ... and the last limit the user was told of is the one in force (paid.go:66-72,
\* 88-97).
THEOREM ToldTrue == Spec => []ToldIsTrue
BY LimitIsPaidFor, PTL
-----------------------------------------------------------------------------
(* Bans are lifted.                                                          *)

\* Who is banned is about to be let in again by a handler, unless a call failed.
Lifted ==
    faults \cap {"ask", "ban", "unban"} = {} =>
        \A c \in Channels :
            role[c] = "kicked" => \E h \in Handlers : pc[h] = "unban" /\ current[h] = {c}

LEMMA StepLifted ==
    ASSUME PaidAssumption, TypeOK, Lifted, NEW h \in Handlers, Step(h)
    PROVE  Lifted'
<1> SUFFICES ASSUME faults' \cap {"ask", "ban", "unban"} = {}, NEW c \in Channels, role'[c] = "kicked"
             PROVE  \E g \in Handlers : pc'[g] = "unban" /\ current'[g] = {c}
  BY DEF Lifted
<1>1. ~AskFails(h)
  BY FaultFacts DEF AskFails
<1>2. faults \subseteq faults'
  <2>1. UNCHANGED faults \/ \E kind \in FaultKinds : Fault(kind)
    BY <1>1 DEF Step, Handle, Ask, Decide, Delete, TellReset, Get, Set, TellSet, Ban, Unban,
                EndOfLoop, FaultKinds
  <2> QED
    BY <2>1, FaultFacts
<1>3. CASE \E g \in Handlers \ {h} : pc[g] = "unban" /\ current[g] = {c}
  BY <1>1, <1>3, OthersSame
<1>4. CASE role[c] # "kicked"
  <2>1. role' # role
    BY <1>4
  <2>2. Ban(h) \/ Unban(h)
    BY <1>1, <2>1 DEF Step, Handle, Ask, Decide, Delete, TellReset, Get, Set, TellSet,
                      EndOfLoop, telegram
  <2>3. CASE Ban(h)
    <3>0. ~Fault("ban")
      BY FaultFacts
    <3>1. PICK d \in entries[h] :
            /\ current' = [current EXCEPT ![h] = {d}]
            /\ SetRole(d, "kicked") /\ Goto(h, "unban")
      BY <2>3, <3>0 DEF Ban
    <3>2. d = c
      BY <1>4, <3>1 DEF SetRole, TypeOK
    <3> QED
      BY <3>1, <3>2 DEF Goto, TypeOK
  <2>4. CASE Unban(h)
    <3>1. PICK d \in current[h] : SetRole(d, "left")
      BY <2>1, <2>4 DEF Unban, telegram
    <3> QED
      BY <1>4, <3>1 DEF SetRole, TypeOK
  <2> QED
    BY <2>2, <2>3, <2>4
<1>5. CASE pc[h] = "unban" /\ current[h] = {c}
  <2>1. Unban(h)
    BY <1>1, <1>5 DEF Step, Handle, Ask, Decide, Delete, TellReset, Get, Set, TellSet, Ban,
                      EndOfLoop
  <2>2. ~Fault("unban")
    BY FaultFacts
  <2>3. SetRole(c, "left")
    BY <1>5, <2>1, <2>2 DEF Unban
  <2> QED
    BY <2>3 DEF SetRole, TypeOK
<1> QED
  BY <1>2, <1>3, <1>4, <1>5 DEF Lifted

\* Nobody stays banned: when all updates are handled, every ban is lifted, unless the
\* answer to the ban was lost, lifting it failed or the process ended before
\* (paid.go:102-109).  It is what Settles says of the state the system settles in.
THEOREM BansAreLifted ==
    Spec => [](Quiet /\ faults \cap {"ask", "ban", "unban"} = {} =>
                  \A c \in Channels : role[c] # "kicked")
<1>1. Init => Lifted
  BY DEF Init, Lifted
<1>2. TypeOK /\ Lifted /\ [Next]_vars => Lifted'
  <2> SUFFICES ASSUME TypeOK, Lifted, [Next]_vars PROVE Lifted'
    OBVIOUS
  <2>1. ASSUME NEW c \in Channels, Join(c) \/ Leave(c) PROVE Lifted'
    <3>1. UNCHANGED <<pc, current, faults>>
      BY <2>1 DEF Join, Leave, local
    <3>2. \A d \in Channels : role'[d] = "kicked" => role[d] = "kicked"
      BY <2>1 DEF Join, Leave, SetRole, TypeOK
    <3> QED
      BY <3>1, <3>2 DEF Lifted
  <2>2. ASSUME NEW h \in Handlers, Step(h) PROVE Lifted'
    BY <2>2, PaidAssumption, StepLifted
  <2>3. CASE UNCHANGED vars
    BY <2>3 DEF vars, telegram, local, Lifted
  <2> QED
    BY <2>1, <2>2, <2>3 DEF Next
<1>3. Lifted => (Quiet /\ faults \cap {"ask", "ban", "unban"} = {} =>
                    \A c \in Channels : role[c] # "kicked")
  BY DEF Lifted, Quiet
<1> QED
  BY <1>1, <1>2, <1>3, TypeCorrect, PTL DEF Spec
-----------------------------------------------------------------------------
(* The updates caused by removing the user cause no end of others.           *)

\* The channels a handler still means to treat.
Known(h) == IF pc[h] = "ask" THEN chanByLimit[h] ELSE entries[h]

Members == {c \in Channels : role[c] = "member"}

\* What handlers still mean to treat although the user is no member any more.
Stale == {hc \in Handlers \X Channels : hc[2] \in Known(hc[1]) /\ role[hc[2]] # "member"}

In(ls) == {h \in Handlers : pc[h] \in ls}

ToVisit == {hk \in Handlers \X Calls : Active(hk[1]) /\ at[hk[1]] <= hk[2]}

ToAsk == {hc \in Handlers \X Channels : hc[2] \in toAsk[hc[1]]}

ToTreat == {hc \in Handlers \X Channels : hc[2] \in entries[hc[1]]}

MayFail == Faults \ faults

MayChange == (changes + 1)..MaxChanges

ToHandle == 1..updates

\* All that there is left to do.
ToDo == <<MayFail, MayChange, Members, Stale, In({"unban"}), ToHandle, ToVisit, In({"ask"}),
          ToAsk, ToTreat, In({"delete", "set"}), In({"tellSet"})>>

\* A step makes one of the sets smaller, and none of those before it greater.
Decreases ==
    \E k \in 1..12 :
        /\ ToDo'[k] \subseteq ToDo[k] /\ ToDo'[k] # ToDo[k]
        /\ \A j \in 1..(k - 1) : ToDo'[j] \subseteq ToDo[j]

LEMMA ToDoParts ==
    /\ ToDo[1] = MayFail /\ ToDo[2] = MayChange /\ ToDo[3] = Members /\ ToDo[4] = Stale
    /\ ToDo[5] = In({"unban"}) /\ ToDo[6] = ToHandle /\ ToDo[7] = ToVisit
    /\ ToDo[8] = In({"ask"}) /\ ToDo[9] = ToAsk /\ ToDo[10] = ToTreat
    /\ ToDo[11] = In({"delete", "set"}) /\ ToDo[12] = In({"tellSet"})
BY DEF ToDo

LEMMA ToDoPartsNext ==
    /\ ToDo'[1] = MayFail' /\ ToDo'[2] = MayChange' /\ ToDo'[3] = Members'
    /\ ToDo'[4] = Stale' /\ ToDo'[5] = In({"unban"})' /\ ToDo'[6] = ToHandle'
    /\ ToDo'[7] = ToVisit' /\ ToDo'[8] = In({"ask"})' /\ ToDo'[9] = ToAsk'
    /\ ToDo'[10] = ToTreat' /\ ToDo'[11] = In({"delete", "set"})'
    /\ ToDo'[12] = In({"tellSet"})'
BY DEF ToDo

LEMMA IntervalFinite == \A a, b \in Int : IsFiniteSet(a..b)
BY FS_Interval

\* There is an end to everything there is to do.
LEMMA ToDoFinite ==
    ASSUME PaidAssumption, IsFiniteSet(Handlers), TypeOK
    PROVE  \A k \in 1..12 : IsFiniteSet(ToDo[k])
<1>1. /\ IsFiniteSet(Channels)
      /\ MaxChanges \in Int /\ updates \in Int /\ changes + 1 \in Int /\ 1 \in Int
  BY DEF PaidAssumption, TypeOK
<1>2. IsFiniteSet(MayFail)
  <2>1. IsFiniteSet({} \cup {"ask"} \cup {"limits"} \cup {"ban"} \cup {"unban"})
    BY FS_EmptySet, FS_AddElement
  <2>2. MayFail \in SUBSET ({} \cup {"ask"} \cup {"limits"} \cup {"ban"} \cup {"unban"})
    BY DEF PaidAssumption, FaultKinds, MayFail
  <2> QED
    BY <2>1, <2>2, FS_Subset
<1>3. IsFiniteSet(MayChange) /\ IsFiniteSet(ToHandle)
  BY <1>1, IntervalFinite, Zenon DEF MayChange, ToHandle
<1>4. IsFiniteSet(Members)
  BY <1>1, FS_Subset DEF Members
<1>5. IsFiniteSet(Stale) /\ IsFiniteSet(ToAsk) /\ IsFiniteSet(ToTreat)
  <2>1. IsFiniteSet(Handlers \X Channels)
    BY <1>1, FS_Product
  <2> QED
    BY <2>1, FS_Subset DEF Stale, ToAsk, ToTreat
<1>6. IsFiniteSet(ToVisit)
  <2>1. IsFiniteSet(Calls)
    <3>1. 1 \in Int /\ Len(Subjects) \in Int
      BY SubjectFacts
    <3> QED
      BY <3>1, IntervalFinite, Zenon DEF Calls
  <2>2. IsFiniteSet(Handlers \X Calls)
    BY <2>1, FS_Product
  <2> QED
    BY <2>2, FS_Subset DEF ToVisit
<1>7. \A ls : IsFiniteSet(In(ls))
  BY FS_Subset DEF In
<1>8. /\ IsFiniteSet(In({"unban"})) /\ IsFiniteSet(In({"ask"}))
      /\ IsFiniteSet(In({"delete", "set"})) /\ IsFiniteSet(In({"tellSet"}))
  BY <1>7
<1> SUFFICES ASSUME NEW k \in 1..12 PROVE IsFiniteSet(ToDo[k])
  OBVIOUS
<1>9. k \in {1, 2, 3, 4, 5, 6, 7, 8, 9, 10, 11, 12}
  OBVIOUS
<1> QED
  BY <1>2, <1>3, <1>4, <1>5, <1>6, <1>8, <1>9, ToDoParts

\* What a handler's own variables say of the sets, while the others stay where they are.
LEMMA OwnParts ==
    ASSUME TypeOK, NEW h \in Handlers,
           \A g \in Handlers \ {h} :
               /\ pc'[g] = pc[g] /\ at'[g] = at[g] /\ toAsk'[g] = toAsk[g]
               /\ chanByLimit'[g] = chanByLimit[g] /\ entries'[g] = entries[g]
    PROVE  /\ \A ls : (pc'[h] \in ls => pc[h] \in ls) => In(ls)' \subseteq In(ls)
           /\ \A ls : pc[h] \in ls /\ pc'[h] \notin ls =>
                        In(ls)' \subseteq In(ls) /\ In(ls)' # In(ls)
           /\ pc'[h] = pc[h] /\ at'[h] = at[h] => ToVisit' = ToVisit
           /\ toAsk'[h] = toAsk[h] => ToAsk' = ToAsk
           /\ entries'[h] = entries[h] => ToTreat' = ToTreat
           /\ (\A c \in Channels : role'[c] = "member" <=> role[c] = "member") =>
                /\ Members' = Members
                /\ (\A c \in Channels : c \in Known(h)' /\ role[c] # "member" => c \in Known(h))
                     => Stale' \subseteq Stale
<1>1. ASSUME NEW ls, pc'[h] \in ls => pc[h] \in ls PROVE In(ls)' \subseteq In(ls)
  BY <1>1 DEF In
<1>2. ASSUME NEW ls, pc[h] \in ls, pc'[h] \notin ls
      PROVE  In(ls)' \subseteq In(ls) /\ In(ls)' # In(ls)
  BY <1>2 DEF In
<1>3. ASSUME pc'[h] = pc[h], at'[h] = at[h] PROVE ToVisit' = ToVisit
  BY <1>3 DEF ToVisit, Active
<1>4. ASSUME toAsk'[h] = toAsk[h] PROVE ToAsk' = ToAsk
  BY <1>4 DEF ToAsk
<1>5. ASSUME entries'[h] = entries[h] PROVE ToTreat' = ToTreat
  BY <1>5 DEF ToTreat
<1>6. ASSUME \A c \in Channels : role'[c] = "member" <=> role[c] = "member"
      PROVE  Members' = Members
  BY <1>6 DEF Members
<1>7. ASSUME \A c \in Channels : role'[c] = "member" <=> role[c] = "member",
             \A c \in Channels : c \in Known(h)' /\ role[c] # "member" => c \in Known(h)
      PROVE  Stale' \subseteq Stale
  <2>1. \A g \in Handlers \ {h} : Known(g)' = Known(g)
    BY DEF Known
  <2> QED
    BY <1>7, <2>1 DEF Stale
<1> QED
  BY <1>1, <1>2, <1>3, <1>4, <1>5, <1>6, <1>7

\* A call which fails is one less that may.
LEMMA FaultDecreases ==
    ASSUME NEW kind, Fault(kind)
    PROVE  Decreases
<1>1. MayFail' \subseteq MayFail /\ MayFail' # MayFail
  BY DEF Fault, MayFail
<1>2. /\ ToDo'[1] \subseteq ToDo[1] /\ ToDo'[1] # ToDo[1]
      /\ \A j \in 1..(1 - 1) : ToDo'[j] \subseteq ToDo[j]
  BY <1>1, ToDoParts, ToDoPartsNext
<1> QED
  BY <1>2 DEF Decreases

\* The lexicographic order of ToDo, written out.
LEMMA DecreasesBy ==
    ASSUME NEW k \in 1..12,
           ToDo'[k] \subseteq ToDo[k], ToDo'[k] # ToDo[k],
           k > 1 => MayFail' \subseteq MayFail,
           k > 2 => MayChange' \subseteq MayChange,
           k > 3 => Members' \subseteq Members,
           k > 4 => Stale' \subseteq Stale,
           k > 5 => In({"unban"})' \subseteq In({"unban"}),
           k > 6 => ToHandle' \subseteq ToHandle,
           k > 7 => ToVisit' \subseteq ToVisit,
           k > 8 => In({"ask"})' \subseteq In({"ask"}),
           k > 9 => ToAsk' \subseteq ToAsk,
           k > 10 => ToTreat' \subseteq ToTreat,
           k > 11 => In({"delete", "set"})' \subseteq In({"delete", "set"})
    PROVE  Decreases
<1>1. ASSUME NEW j \in 1..(k - 1) PROVE ToDo'[j] \subseteq ToDo[j]
  <2>1. j \in {1, 2, 3, 4, 5, 6, 7, 8, 9, 10, 11} /\ k > j
    OBVIOUS
  <2> QED
    BY <2>1, ToDoParts, ToDoPartsNext
<1> QED
  BY <1>1 DEF Decreases

\* Every step of a handler gets it further with what there is to do.
LEMMA StepDecreases ==
    ASSUME PaidAssumption, TypeOK, NEW h \in Handlers, Step(h)
    PROVE  Decreases
<1>0. /\ at[h] + 1 \in Nat /\ at[h] + 1 > 0 /\ at[h] \in Calls
      /\ Len(Subjects) \in Nat \ {0} /\ updates \in Nat
  BY SubjectOf, SubjectFacts DEF TypeOK
<1>1. CASE \E kind : Fault(kind)
  BY <1>1, FaultDecreases
<1> SUFFICES ASSUME ~\E kind : Fault(kind) PROVE Decreases
  BY <1>1
<1>2. ~AskFails(h)
  BY DEF AskFails
<1>3. \A g \in Handlers \ {h} :
          /\ pc'[g] = pc[g] /\ at'[g] = at[g] /\ toAsk'[g] = toAsk[g]
          /\ chanByLimit'[g] = chanByLimit[g] /\ entries'[g] = entries[g]
  BY <1>2, OthersSame
<1>4. faults' = faults /\ changes' = changes
  BY <1>2 DEF Step, Handle, Ask, Decide, Delete, TellReset, Get, Set, TellSet, Ban, Unban,
              EndOfLoop, history
<1>5. MayFail' = MayFail /\ MayChange' = MayChange
  BY <1>4 DEF MayFail, MayChange
<1>6. ASSUME role' = role,
             \A c \in Channels : c \in Known(h)' /\ role[c] # "member" => c \in Known(h)
      PROVE  Members' = Members /\ Stale' \subseteq Stale
  BY <1>3, <1>6, OwnParts
<1>7. ASSUME updates' = updates PROVE ToHandle' = ToHandle
  BY <1>7 DEF ToHandle
<1>8. CASE Handle(h)
  <2>1. /\ pc[h] = "idle" /\ Enter(h, 1) /\ updates > 0 /\ updates' = updates - 1
        /\ role' = role
    BY <1>8 DEF Handle
  <2>2. pc'[h] = "ask" /\ chanByLimit'[h] = {}
    BY <1>0, <2>1, EnterFacts
  <2>3. Members' = Members /\ Stale' \subseteq Stale
    BY <1>6, <2>1, <2>2 DEF Known
  <2>4. In({"unban"})' \subseteq In({"unban"})
    BY <1>3, <2>2, OwnParts
  <2>5. ToHandle' \subseteq ToHandle /\ ToHandle' # ToHandle
    <3>1. updates \in ToHandle /\ updates \notin ToHandle'
      BY <1>0, <2>1 DEF ToHandle
    <3>2. ToHandle' \subseteq ToHandle
      BY <1>0, <2>1 DEF ToHandle
    <3> QED
      BY <3>1, <3>2
  <2>6. ToDo'[6] \subseteq ToDo[6] /\ ToDo'[6] # ToDo[6]
    BY <2>5, ToDoParts, ToDoPartsNext
  <2> QED
    BY <1>5, <2>3, <2>4, <2>6, DecreasesBy
<1>9. CASE Ask(h)
  <2>1. PICK c \in toAsk[h] :
          /\ toAsk' = [toAsk EXCEPT ![h] = @ \ {c}]
          /\ chanByLimit' = [chanByLimit EXCEPT ![h] =
               IF role[c] = "member"
                 THEN {d \in @ : LimitAt(h, d) # LimitAt(h, c)} \cup {c}
                 ELSE @]
    BY <1>9 DEF Ask
  <2>2. pc[h] = "ask" /\ UNCHANGED <<role, updates, pc, at>>
    BY <1>9 DEF Ask, telegram
  <2>3. \A d \in chanByLimit'[h] : role[d] # "member" => d \in chanByLimit[h]
    BY <2>1 DEF TypeOK
  <2>4. Members' = Members /\ Stale' \subseteq Stale
    BY <1>6, <2>2, <2>3 DEF Known
  <2>5. /\ In({"unban"})' \subseteq In({"unban"}) /\ In({"ask"})' \subseteq In({"ask"})
        /\ ToVisit' = ToVisit
    BY <1>3, <2>2, OwnParts
  <2>6. ToAsk' \subseteq ToAsk /\ ToAsk' # ToAsk
    <3>1. toAsk'[h] \subseteq toAsk[h] /\ c \notin toAsk'[h] /\ c \in Channels
      BY <2>1 DEF TypeOK
    <3>2. <<h, c>> \in ToAsk /\ <<h, c>> \notin ToAsk'
      BY <3>1 DEF ToAsk
    <3>3. ToAsk' \subseteq ToAsk
      BY <1>3, <3>1 DEF ToAsk
    <3> QED
      BY <3>2, <3>3
  <2>7. ToDo'[9] \subseteq ToDo[9] /\ ToDo'[9] # ToDo[9]
    BY <2>6, ToDoParts, ToDoPartsNext
  <2> QED
    BY <1>5, <1>7, <2>2, <2>4, <2>5, <2>7, DecreasesBy
<1>10. CASE Decide(h)
  <2>1. /\ pc[h] = "ask" /\ pc'[h] \in {"delete", "entries"}
        /\ entries'[h] = chanByLimit[h]
        /\ UNCHANGED <<role, updates, at>>
    BY <1>10 DEF Decide, Goto, telegram, TypeOK
  <2>2. Members' = Members /\ Stale' \subseteq Stale
    BY <1>6, <2>1 DEF Known
  <2>3. In({"unban"})' \subseteq In({"unban"})
    BY <1>3, <2>1, OwnParts
  <2>4. In({"ask"})' \subseteq In({"ask"}) /\ In({"ask"})' # In({"ask"})
    BY <1>3, <2>1, OwnParts
  <2>5. ToVisit' \subseteq ToVisit
    BY <1>3, <2>1 DEF ToVisit, Active
  <2>6. ToDo'[8] \subseteq ToDo[8] /\ ToDo'[8] # ToDo[8]
    BY <2>4, ToDoParts, ToDoPartsNext
  <2> QED
    BY <1>5, <1>7, <2>1, <2>2, <2>3, <2>5, <2>6, DecreasesBy
<1>11. CASE Enter(h, at[h] + 1) /\ pc[h] \in {"tellReset", "entries"}
            /\ UNCHANGED <<role, updates, entries>>
  <2>1. pc'[h] = "idle" \/ (pc'[h] = "ask" /\ at'[h] = at[h] + 1 /\ chanByLimit'[h] = {})
    BY <1>0, <1>11, EnterFacts
  <2>2. Members' = Members /\ Stale' \subseteq Stale
    BY <1>6, <1>11, <2>1 DEF Known
  <2>3. In({"unban"})' \subseteq In({"unban"})
    BY <1>3, <2>1, OwnParts
  <2>4. ToVisit' \subseteq ToVisit /\ ToVisit' # ToVisit
    <3>1. ToVisit' \subseteq ToVisit
      <4>1. at[h] \in Int /\ \A k \in Calls : k \in Int
        BY <1>0 DEF Calls
      <4>2. \A k \in Calls : Active(h)' /\ at'[h] <= k => at[h] <= k
        BY <2>1, <4>1 DEF Active
      <4>3. Active(h)
        BY <1>11 DEF Active
      <4>4. \A g \in Handlers \ {h} : (Active(g)' <=> Active(g)) /\ at'[g] = at[g]
        BY <1>3 DEF Active
      <4> QED
        BY <4>2, <4>3, <4>4 DEF ToVisit
    <3>2. at[h] \in Int
      BY <1>0 DEF Calls
    <3>3. <<h, at[h]>> \in ToVisit
      BY <1>0, <1>11, <3>2 DEF ToVisit, Active
    <3>4. ~(Active(h)' /\ at'[h] <= at[h])
      BY <2>1, <3>2 DEF Active
    <3>5. <<h, at[h]>> \notin ToVisit'
      BY <3>4 DEF ToVisit
    <3> QED
      BY <3>1, <3>3, <3>5
  <2>5. ToDo'[7] \subseteq ToDo[7] /\ ToDo'[7] # ToDo[7]
    BY <2>4, ToDoParts, ToDoPartsNext
  <2> QED
    BY <1>5, <1>7, <1>11, <2>2, <2>3, <2>5, DecreasesBy
<1>12. CASE Delete(h) \/ Set(h)
  <2>1. /\ pc[h] \in {"delete", "set"} /\ pc'[h] \in {"tellReset", "tellSet"}
        /\ UNCHANGED <<role, updates, at, toAsk, chanByLimit, entries>>
    BY <1>12 DEF Delete, Set, Goto, telegram, TypeOK
  <2>2. Members' = Members /\ Stale' \subseteq Stale
    BY <1>6, <2>1 DEF Known
  <2>3. /\ In({"unban"})' \subseteq In({"unban"}) /\ In({"ask"})' \subseteq In({"ask"})
        /\ In({"delete", "set"})' \subseteq In({"delete", "set"})
        /\ In({"delete", "set"})' # In({"delete", "set"})
    BY <1>3, <2>1, OwnParts
  <2>4. ToVisit' \subseteq ToVisit /\ ToAsk' = ToAsk /\ ToTreat' = ToTreat
    BY <1>3, <2>1 DEF ToVisit, ToAsk, ToTreat, Active
  <2>5. ToDo'[11] \subseteq ToDo[11] /\ ToDo'[11] # ToDo[11]
    BY <2>3, ToDoParts, ToDoPartsNext
  <2> QED
    BY <1>5, <1>7, <2>1, <2>2, <2>3, <2>4, <2>5, DecreasesBy
<1>13. CASE Get(h)
  <2>1. PICK c \in entries[h] : entries' = [entries EXCEPT ![h] = @ \ {c}]
    BY <1>13 DEF Get
  <2>2. /\ pc[h] = "entries" /\ pc'[h] \in {"set", "entries"}
        /\ UNCHANGED <<role, updates, at, toAsk>>
    BY <1>13 DEF Get, Goto, telegram, TypeOK
  <2>3. entries'[h] = entries[h] \ {c} /\ c \in Channels
    BY <2>1 DEF TypeOK
  <2>4. Members' = Members /\ Stale' \subseteq Stale
    BY <1>6, <2>2, <2>3 DEF Known
  <2>5. In({"unban"})' \subseteq In({"unban"}) /\ In({"ask"})' \subseteq In({"ask"})
    BY <1>3, <2>2, OwnParts
  <2>6. ToVisit' \subseteq ToVisit /\ ToAsk' = ToAsk
    BY <1>3, <2>2 DEF ToVisit, ToAsk, Active
  <2>7. ToTreat' \subseteq ToTreat /\ ToTreat' # ToTreat
    <3>1. <<h, c>> \in ToTreat /\ <<h, c>> \notin ToTreat'
      BY <2>3 DEF ToTreat
    <3>2. ToTreat' \subseteq ToTreat
      BY <1>3, <2>3 DEF ToTreat
    <3> QED
      BY <3>1, <3>2
  <2>8. ToDo'[10] \subseteq ToDo[10] /\ ToDo'[10] # ToDo[10]
    BY <2>7, ToDoParts, ToDoPartsNext
  <2> QED
    BY <1>5, <1>7, <2>2, <2>4, <2>5, <2>6, <2>8, DecreasesBy
<1>14. CASE TellSet(h)
  <2>1. /\ pc[h] = "tellSet" /\ pc'[h] = "entries"
        /\ UNCHANGED <<role, updates, at, toAsk, chanByLimit, entries>>
    BY <1>14 DEF TellSet, Goto, telegram, TypeOK
  <2>2. Members' = Members /\ Stale' \subseteq Stale
    BY <1>6, <2>1 DEF Known
  <2>3. /\ In({"unban"})' \subseteq In({"unban"}) /\ In({"ask"})' \subseteq In({"ask"})
        /\ In({"delete", "set"})' \subseteq In({"delete", "set"})
        /\ In({"tellSet"})' \subseteq In({"tellSet"}) /\ In({"tellSet"})' # In({"tellSet"})
    BY <1>3, <2>1, OwnParts
  <2>4. ToVisit' \subseteq ToVisit /\ ToAsk' = ToAsk /\ ToTreat' = ToTreat
    BY <1>3, <2>1 DEF ToVisit, ToAsk, ToTreat, Active
  <2>5. ToDo'[12] \subseteq ToDo[12] /\ ToDo'[12] # ToDo[12]
    BY <2>3, ToDoParts, ToDoPartsNext
  <2> QED
    BY <1>5, <1>7, <2>1, <2>2, <2>3, <2>4, <2>5, DecreasesBy
<1>15. ASSUME NEW c \in Channels, NEW r \in {"left", "kicked"}, SetRole(c, r), role[c] = "member"
       PROVE  Decreases
  <2>1. \A d \in Channels : role'[d] = "member" => role[d] = "member"
    BY <1>15 DEF SetRole, TypeOK
  <2>2. role'[c] # "member"
    BY <1>15 DEF SetRole, TypeOK
  <2>3. Members' \subseteq Members /\ Members' # Members
    BY <1>15, <2>1, <2>2 DEF Members
  <2>4. ToDo'[3] \subseteq ToDo[3] /\ ToDo'[3] # ToDo[3]
    BY <2>3, ToDoParts, ToDoPartsNext
  <2> QED
    BY <1>5, <2>4, DecreasesBy
<1>16. ASSUME NEW c \in Channels, NEW r \in {"left", "kicked"}, SetRole(c, r), role[c] # "member"
       PROVE  \A d \in Channels : role'[d] = "member" <=> role[d] = "member"
  BY <1>16 DEF SetRole, TypeOK
<1>17. CASE Ban(h)
  <2>1. PICK c \in entries[h] :
          entries' = [entries EXCEPT ![h] = @ \ {c}] /\ SetRole(c, "kicked") /\ Goto(h, "unban")
    BY <1>17 DEF Ban
  <2>2. c \in Channels /\ entries'[h] = entries[h] \ {c} /\ pc[h] = "entries" /\ pc'[h] = "unban"
    BY <1>17, <2>1 DEF Ban, Goto, TypeOK
  <2>3. CASE role[c] # "member"
    <3>1. \A d \in Channels : role'[d] = "member" <=> role[d] = "member"
      BY <1>16, <2>1, <2>2, <2>3
    <3>2. Members' = Members /\ Stale' \subseteq Stale
      BY <1>3, <2>2, <3>1, OwnParts DEF Known
    <3>3. <<h, c>> \in Stale /\ <<h, c>> \notin Stale'
      BY <2>2, <2>3 DEF Stale, Known
    <3>4. ToDo'[4] \subseteq ToDo[4] /\ ToDo'[4] # ToDo[4]
      BY <3>2, <3>3, ToDoParts, ToDoPartsNext
    <3> QED
      BY <1>5, <3>2, <3>4, DecreasesBy
  <2> QED
    BY <1>15, <2>1, <2>2, <2>3
<1>18. CASE Unban(h)
  <2>1. PICK c \in current[h] : SetRole(c, "left")
    BY <1>18 DEF Unban
  <2>2. /\ c \in Channels /\ pc[h] = "unban" /\ pc'[h] = "entries"
        /\ UNCHANGED <<chanByLimit, entries>>
    BY <1>18, CurrentType DEF Unban, Goto, TypeOK
  <2>3. CASE role[c] # "member"
    <3>1. \A d \in Channels : role'[d] = "member" <=> role[d] = "member"
      BY <1>16, <2>1, <2>2, <2>3
    <3>2. Members' = Members /\ Stale' \subseteq Stale
      BY <1>3, <2>2, <3>1, OwnParts DEF Known
    <3>3. In({"unban"})' \subseteq In({"unban"}) /\ In({"unban"})' # In({"unban"})
      BY <1>3, <2>2, OwnParts
    <3>4. ToDo'[5] \subseteq ToDo[5] /\ ToDo'[5] # ToDo[5]
      BY <3>3, ToDoParts, ToDoPartsNext
    <3> QED
      BY <1>5, <3>2, <3>4, DecreasesBy
  <2> QED
    BY <1>15, <2>1, <2>2, <2>3
<1>19. CASE TellReset(h) \/ EndOfLoop(h)
  BY <1>11, <1>19 DEF TellReset, EndOfLoop, telegram
<1> QED
  BY <1>2, <1>8, <1>9, <1>10, <1>12, <1>13, <1>14, <1>17, <1>18, <1>19 DEF Step

\* The updates caused by removing the user are handled without causing any more, however
\* the handlers overlap: every step makes what is left to do smaller, in the lexicographic
\* order of finite sets, which does not descend for ever.  So there is an end to the
\* steps, of which Settles says that they are taken (paid.go:101-121).
THEOREM CascadeEnds ==
    ASSUME IsFiniteSet(Handlers)
    PROVE  Spec => [](\A k \in 1..12 : IsFiniteSet(ToDo[k])) /\ [][Decreases]_vars
<1>1. TypeOK => \A k \in 1..12 : IsFiniteSet(ToDo[k])
  BY PaidAssumption, ToDoFinite
<1>2. TypeOK /\ Next => Decreases
  <2>1. ASSUME TypeOK, NEW c \in Channels, Join(c) \/ Leave(c) PROVE Decreases
    <3>1. changes' = changes + 1 /\ changes < MaxChanges /\ faults' = faults
      BY <2>1 DEF Join, Leave
    <3>2. changes \in Nat /\ MaxChanges \in Nat
      BY <2>1, PaidAssumption DEF TypeOK, PaidAssumption
    <3>3. MayChange' \subseteq MayChange
      BY <3>1, <3>2 DEF MayChange
    <3>4. changes + 1 \in MayChange /\ changes + 1 \notin MayChange'
      BY <3>1, <3>2 DEF MayChange
    <3>5. MayFail' = MayFail
      BY <3>1 DEF MayFail
    <3>6. ToDo'[2] \subseteq ToDo[2] /\ ToDo'[2] # ToDo[2]
      BY <3>3, <3>4, ToDoParts, ToDoPartsNext
    <3> QED
      BY <3>5, <3>6, DecreasesBy
  <2>2. ASSUME TypeOK, NEW h \in Handlers, Step(h) PROVE Decreases
    BY <2>2, PaidAssumption, StepDecreases
  <2> QED
    BY <2>1, <2>2 DEF Next
<1> QED
  BY <1>1, <1>2, TypeCorrect, PTL DEF Spec
=============================================================================
