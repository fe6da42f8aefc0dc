----------------------------- MODULE PaidLimits -----------------------------
(***************************************************************************)
(* Paid limits (service/paid.go): being a member of a paid channel raises  *)
(* a user's limit.  Every change of a membership makes Telegram send a     *)
(* chat_member update; its handler asks Telegram for the user's role in    *)
(* every paid channel, one by one, and then adjusts the limit in the usage *)
(* service and removes the user from all but the most generous channel.    *)
(*                                                                         *)
(* One user is modelled.  telebot runs every handler in a goroutine of its *)
(* own, so handlers for the same user overlap.  Telegram and the usage     *)
(* service are outside the repository.                                     *)
(***************************************************************************)
EXTENDS Integers, Sequences, FiniteSets

CONSTANTS
    Handlers,       \* identities of concurrent calls of handleChatMember
    Channels,       \* the paid channels
    Subjects,       \* the subjects in the order of the calls of ensureLimit
    LimitByChatId,  \* subject -> [channels which raise its limit -> the limit]
    Default,        \* the limit of who pays for nothing
    Faults,         \* the kinds of calls which may fail, or whose answer may be lost
    MaxFaults,      \* bound: how many calls fail
    MaxChanges      \* bound: how often the user joins or leaves

Subj == {Subjects[k] : k \in 1..Len(Subjects)}
LimitsOf(s) == LimitByChatId[s]
FaultKinds == {"ask", "limits", "ban", "unban"}

ASSUME PaidAssumption ==
    /\ IsFiniteSet(Channels)
    /\ Default \in Nat
    /\ Subjects \in Seq(Subj) \ {<<>>}
    /\ \A s \in Subj : /\ DOMAIN LimitsOf(s) \subseteq Channels
                       /\ LimitsOf(s) \in [DOMAIN LimitsOf(s) -> Nat]
                       /\ \A c \in DOMAIN LimitsOf(s) : LimitsOf(s)[c] > Default
    /\ Faults \subseteq FaultKinds
    /\ MaxFaults \in Nat
    /\ MaxChanges \in Nat

VARIABLES
    \* Telegram
    role,           \* the user's role in each channel
    updates,        \* chat_member updates no handler took yet
    \* the usage service
    limit,          \* the limit of each subject
    \* the handlers
    pc,             \* where a handler is
    at,             \* the index of its current subject
    toAsk,          \* channels whose membership memberChannels still asks for
    chanByLimit,    \* channels it found the user in, with distinct limits
    entries,        \* entries of chanByLimit the loop has not visited
    current,        \* the channel a started removal is about
    \* history
    told,           \* the last limit the user was told of each subject
    overlapped,     \* a handler started before another one ended
    changes,        \* how often the user joined or left
    faults          \* the kinds of calls which failed, each once at most

telegram == <<role, updates>>
local == <<pc, at, toAsk, chanByLimit, entries, current>>
history == <<told, overlapped, changes>>
vars == <<telegram, limit, local, history, faults>>

Init ==
    /\ role = [c \in Channels |-> "left"]
    /\ updates = 0
    /\ limit = [s \in Subj |-> Default]
    /\ pc = [h \in Handlers |-> "idle"]
    /\ at = [h \in Handlers |-> 1]
    /\ toAsk = [h \in Handlers |-> {}]
    /\ chanByLimit = [h \in Handlers |-> {}]
    /\ entries = [h \in Handlers |-> {}]
    /\ current = [h \in Handlers |-> {}]
    /\ told = [s \in Subj |-> Default]
    /\ overlapped = FALSE
    /\ changes = 0
    /\ faults = {}

Fault(kind) ==
    /\ kind \in Faults \ faults
    /\ Cardinality(faults) < MaxFaults
    /\ faults' = faults \cup {kind}

\* The role of the user in channel c changes: Telegram sends an update.
SetRole(c, r) ==
    /\ role' = [role EXCEPT ![c] = r]
    /\ updates' = IF r = role[c] THEN updates ELSE updates + 1

Join(c) ==
    /\ changes < MaxChanges
    /\ role[c] = "left"
    /\ SetRole(c, "member")
    /\ changes' = changes + 1
    /\ UNCHANGED <<limit, local, told, overlapped, faults>>

Leave(c) ==
    /\ changes < MaxChanges
    /\ role[c] = "member"
    /\ SetRole(c, "left")
    /\ changes' = changes + 1
    /\ UNCHANGED <<limit, local, told, overlapped, faults>>
-----------------------------------------------------------------------------
(* handleChatMember.                                                       *)

\* ensureLimit for the subject of index k, or the end of the handler.
Enter(h, k) ==
    IF k > Len(Subjects)
      THEN /\ pc' = [pc EXCEPT ![h] = "idle"]
           /\ at' = [at EXCEPT ![h] = 1]
           /\ toAsk' = [toAsk EXCEPT ![h] = {}]
           /\ chanByLimit' = [chanByLimit EXCEPT ![h] = {}]
      ELSE /\ pc' = [pc EXCEPT ![h] = "ask"]
           /\ at' = [at EXCEPT ![h] = k]
           /\ toAsk' = [toAsk EXCEPT ![h] = DOMAIN LimitsOf(Subjects[k])]
           /\ chanByLimit' = [chanByLimit EXCEPT ![h] = {}]

Goto(h, l) == pc' = [pc EXCEPT ![h] = l]

\* Mutant of Handle: a handler also runs without an update.
HandleAnyway(h) ==
    /\ pc[h] = "idle"
    /\ updates' = updates - 1
    /\ Enter(h, 1)
    /\ overlapped' = (overlapped \/ \E g \in Handlers : pc[g] # "idle")
    /\ UNCHANGED <<role, limit, entries, current, told, changes, faults>>

Handle(h) ==
    /\ pc[h] = "idle"
    /\ updates > 0
    /\ updates' = updates - 1
    /\ Enter(h, 1)
    /\ overlapped' = (overlapped \/ \E g \in Handlers : pc[g] # "idle")
    /\ UNCHANGED <<role, limit, entries, current, told, changes, faults>>

Subject(h) == Subjects[at[h]]
LimitAt(h, c) == LimitsOf(Subject(h))[c]

\* memberChannels asks in the order of a Go map, that is in any order.  A
\* channel replaces the one found before it with the same limit.
Ask(h) ==
    /\ pc[h] = "ask"
    /\ \E c \in toAsk[h] :
         /\ toAsk' = [toAsk EXCEPT ![h] = @ \ {c}]
         /\ chanByLimit' = [chanByLimit EXCEPT ![h] =
              IF role[c] = "member"
                THEN {d \in @ : LimitAt(h, d) # LimitAt(h, c)} \cup {c}
                ELSE @]
    /\ UNCHANGED <<telegram, limit, pc, at, entries, current, history, faults>>

\* When Telegram fails to answer, the role is read from a nil member: the
\* process dies with all its handlers and the updates it took from Telegram.
AskFails(h) ==
    /\ pc[h] = "ask"
    /\ toAsk[h] # {}
    /\ Fault("ask")
    /\ updates' \in 0..updates
    /\ pc' = [g \in Handlers |-> "idle"]
    /\ at' = [g \in Handlers |-> 1]
    /\ toAsk' = [g \in Handlers |-> {}]
    /\ chanByLimit' = [g \in Handlers |-> {}]
    /\ entries' = [g \in Handlers |-> {}]
    /\ current' = [g \in Handlers |-> {}]
    /\ UNCHANGED <<role, limit, told, overlapped, changes>>

\* Mutant of Decide: nothing is done for a user who is in no paid channel.
DecideLoop(h) ==
    /\ pc[h] = "ask"
    /\ toAsk[h] = {}
    /\ Goto(h, "entries")
    /\ entries' = [entries EXCEPT ![h] = chanByLimit[h]]
    /\ UNCHANGED <<telegram, limit, at, toAsk, chanByLimit, current, history, faults>>

\* len(chanByLimit) decides between the reset and the loop over its entries.
Decide(h) ==
    /\ pc[h] = "ask"
    /\ toAsk[h] = {}
    /\ Goto(h, IF chanByLimit[h] = {} THEN "delete" ELSE "entries")
    /\ entries' = [entries EXCEPT ![h] = chanByLimit[h]]
    /\ UNCHANGED <<telegram, limit, at, toAsk, chanByLimit, current, history, faults>>

\* A call which failed for the handler may have been carried out: then only its
\* answer was lost.
Delete(h) ==
    /\ pc[h] = "delete"
    /\ \/ /\ limit' = [limit EXCEPT ![Subject(h)] = Default]
          /\ Goto(h, "tellReset")
          /\ UNCHANGED <<at, toAsk, chanByLimit, faults>>
       \/ /\ Fault("limits")
          /\ limit' \in {limit, [limit EXCEPT ![Subject(h)] = Default]}
          /\ Enter(h, at[h] + 1)
    /\ UNCHANGED <<telegram, entries, current, history>>

\* "Limit has been reset to default: ..."
TellReset(h) ==
    /\ pc[h] = "tellReset"
    /\ told' = [told EXCEPT ![Subject(h)] = Default]
    /\ Enter(h, at[h] + 1)
    /\ UNCHANGED <<telegram, limit, entries, current, overlapped, changes, faults>>

\* Among the channels found, c has the greatest limit.
IsMax(h, c) == \A d \in chanByLimit[h] : LimitAt(h, d) <= LimitAt(h, c)

\* Mutant of Get: the comparison is the wrong way round.
GetLower(h) ==
    /\ pc[h] = "entries"
    /\ \E c \in entries[h] :
         /\ IsMax(h, c)
         /\ entries' = [entries EXCEPT ![h] = @ \ {c}]
         /\ current' = [current EXCEPT ![h] = {c}]
         /\ Goto(h, IF LimitAt(h, c) < limit[Subject(h)] THEN "set" ELSE "entries")
    /\ UNCHANGED <<telegram, limit, at, toAsk, chanByLimit, history, faults>>

\* Mutant of Get: the loop ends at the entry of the greatest limit.
GetBreak(h) ==
    /\ pc[h] = "entries"
    /\ \E c \in entries[h] :
         /\ IsMax(h, c)
         /\ entries' = [entries EXCEPT ![h] = {}]
         /\ current' = [current EXCEPT ![h] = {c}]
         /\ Goto(h, IF LimitAt(h, c) > limit[Subject(h)] THEN "set" ELSE "entries")
    /\ UNCHANGED <<telegram, limit, at, toAsk, chanByLimit, history, faults>>

\* Mutant of Get: the user is told of a limit which does not exceed the current one.
GetTellsAnyway(h) ==
    /\ pc[h] = "entries"
    /\ \E c \in entries[h] :
         /\ IsMax(h, c)
         /\ entries' = [entries EXCEPT ![h] = @ \ {c}]
         /\ current' = [current EXCEPT ![h] = {c}]
         /\ Goto(h, IF LimitAt(h, c) > limit[Subject(h)] THEN "set" ELSE "tellSet")
    /\ UNCHANGED <<telegram, limit, at, toAsk, chanByLimit, history, faults>>

\* The entry of the greatest limit: the limit is only ever raised.
Get(h) ==
    /\ pc[h] = "entries"
    /\ \E c \in entries[h] :
         /\ IsMax(h, c)
         /\ entries' = [entries EXCEPT ![h] = @ \ {c}]
         /\ current' = [current EXCEPT ![h] = {c}]
         /\ \/ /\ Goto(h, IF LimitAt(h, c) > limit[Subject(h)] THEN "set" ELSE "entries")
               /\ UNCHANGED faults
            \/ /\ Fault("limits")
               /\ UNCHANGED pc
    /\ UNCHANGED <<telegram, limit, at, toAsk, chanByLimit, history>>

Set(h) ==
    /\ pc[h] = "set"
    /\ \E c \in current[h] :
         LET raised == [limit EXCEPT ![Subject(h)] = LimitAt(h, c)]
         IN  \/ /\ limit' = raised
                /\ Goto(h, "tellSet")
                /\ UNCHANGED faults
             \/ /\ Fault("limits")
                /\ limit' \in {limit, raised}
                /\ Goto(h, "entries")
    /\ UNCHANGED <<telegram, at, toAsk, chanByLimit, entries, current, history>>

\* "Limit has been set to %d: ..."
TellSet(h) ==
    /\ pc[h] = "tellSet"
    /\ \E c \in current[h] : told' = [told EXCEPT ![Subject(h)] = LimitAt(h, c)]
    /\ Goto(h, "entries")
    /\ UNCHANGED <<telegram, limit, at, toAsk, chanByLimit, entries, current, overlapped,
                   changes, faults>>

\* Mutant of Ban: the ban is not lifted.
BanForGood(h) ==
    /\ pc[h] = "entries"
    /\ \E c \in entries[h] :
         /\ ~IsMax(h, c)
         /\ entries' = [entries EXCEPT ![h] = @ \ {c}]
         /\ current' = [current EXCEPT ![h] = {c}]
         /\ SetRole(c, "kicked")
    /\ UNCHANGED <<limit, pc, at, toAsk, chanByLimit, history, faults>>

\* Any other entry: the user is removed by a ban which is lifted at once, but not
\* when the answer to the ban is lost, whether Telegram banned the user or not.
Ban(h) ==
    /\ pc[h] = "entries"
    /\ \E c \in entries[h] :
         /\ ~IsMax(h, c)
         /\ entries' = [entries EXCEPT ![h] = @ \ {c}]
         /\ current' = [current EXCEPT ![h] = {c}]
         /\ \/ /\ SetRole(c, "kicked")
               /\ Goto(h, "unban")
               /\ UNCHANGED faults
            \/ /\ Fault("ban")
               /\ SetRole(c, "kicked") \/ UNCHANGED telegram
               /\ UNCHANGED pc
    /\ UNCHANGED <<limit, at, toAsk, chanByLimit, history>>

\* "You have been removed from the channel with limit of ..., because you are
\* a member of another channel with limit of ..."
Unban(h) ==
    /\ pc[h] = "unban"
    /\ \E c \in current[h] :
         \/ /\ SetRole(c, "left")
            /\ UNCHANGED faults
         \/ /\ Fault("unban")
            /\ SetRole(c, "left") \/ UNCHANGED telegram
    /\ Goto(h, "entries")
    /\ UNCHANGED <<limit, at, toAsk, chanByLimit, entries, current, told, overlapped,
                   changes>>

EndOfLoop(h) ==
    /\ pc[h] = "entries"
    /\ entries[h] = {}
    /\ Enter(h, at[h] + 1)
    /\ current' = [current EXCEPT ![h] = {}]
    /\ UNCHANGED <<telegram, limit, entries, history, faults>>
-----------------------------------------------------------------------------
Step(h) ==
    \/ Handle(h) \/ Ask(h) \/ AskFails(h) \/ Decide(h)
    \/ Delete(h) \/ TellReset(h)
    \/ Get(h) \/ Set(h) \/ TellSet(h)
    \/ Ban(h) \/ Unban(h) \/ EndOfLoop(h)

Next ==
    \/ \E c \in Channels : Join(c) \/ Leave(c)
    \/ \E h \in Handlers : Step(h)

Spec == Init /\ [][Next]_vars

\* Updates are delivered and handlers run to their end; the user is free.
FairSpec == Spec /\ \A h \in Handlers : WF_vars(Step(h))
-----------------------------------------------------------------------------
\* The variables have their types: no handler runs without an update, and none is
\* left at a subject which does not exist (paid.go:24-127).
TypeOK ==
    /\ role \in [Channels -> {"member", "left", "kicked"}]
    /\ updates \in Nat
    /\ limit \in [Subj -> Nat]
    /\ pc \in [Handlers -> {"idle", "ask", "delete", "tellReset", "entries", "set",
                            "tellSet", "unban"}]
    /\ at \in [Handlers -> 1..Len(Subjects)]
    /\ toAsk \in [Handlers -> SUBSET Channels]
    /\ chanByLimit \in [Handlers -> SUBSET Channels]
    /\ entries \in [Handlers -> SUBSET Channels]
    /\ current \in [Handlers -> {{}} \cup {{c} : c \in Channels}]
    /\ told \in [Subj -> Nat]
    /\ overlapped \in BOOLEAN
    /\ changes \in 0..MaxChanges
    /\ faults \subseteq Faults

\* All updates are handled.
Quiet == updates = 0 /\ \A h \in Handlers : pc[h] = "idle"

MemberOf(s) == {c \in DOMAIN LimitsOf(s) : role[c] = "member"}

\* All updates are handled, each by a handler which found no other one running,
\* and no call failed.
Undisturbed == Quiet /\ ~overlapped /\ faults = {}

\* A member of a paid channel ends up with at least the limit of that channel,
\* although the limit is only raised for the best of the channels the user was
\* found in one by one (paid.go:80-99) ...
PaidIsGranted ==
    Undisturbed => \A s \in Subj : \A c \in MemberOf(s) : limit[s] >= LimitsOf(s)[c]

\* ... who is in no paid channel ends up with the default limit, although it is
\* only reset by a handler which finds the user nowhere (paid.go:61-74) ...
UnpaidIsReset ==
    Undisturbed => \A s \in Subj : MemberOf(s) = {} => limit[s] = Default

\* ... and the last limit the user was told of is the one in force
\* (paid.go:66-72, 88-97).
ToldIsTrue == Undisturbed => \A s \in Subj : told[s] = limit[s]

\* Nobody stays in two channels of the same subject, even when handlers overlap
\* and calls of the usage service fail: whichever channel is joined last, a
\* handler that starts later finds both (paid.go:101-121).  A failed question to
\* Telegram ends the process and its updates, a failed ban is not repeated.
OneChannel ==
    Quiet /\ faults \cap {"ask", "ban"} = {} =>
        \A s \in Subj : Cardinality(MemberOf(s)) <= 1

\* The updates caused by removing the user are handled without causing any
\* more, and no removed user stays banned unless the answer to the ban was lost,
\* lifting it failed or the process ended before it was lifted (paid.go:102-109).
Settles ==
    <>[](/\ Quiet
         /\ \/ faults \cap {"ask", "ban", "unban"} # {}
            \/ \A c \in Channels : role[c] # "kicked")
=============================================================================
