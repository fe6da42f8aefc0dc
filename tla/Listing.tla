------------------------------ MODULE Listing -------------------------------
(***************************************************************************)
(* The lists of interests the user pages through                           *)
(* (service/subscriptions/list.go over Search of api/http/interests and    *)
(* InterestsByUrl of api/http/subscriptions): the user's own interests,    *)
(* all available ones by the number of followers, and those followed in    *)
(* the chat.  The button "Next Page >" carries the cursor in its callback  *)
(* data, which Telegram limits to 64 bytes: longer data is cut off.        *)
(*                                                                         *)
(* Interests come, go and change while the user is paging.  The services   *)
(* are outside the repository: they answer the queries as the bot expects  *)
(* them to, or with an error.  An error the bot tells the user changes     *)
(* nothing, the button stays; Search takes some for an answer.  The other  *)
(* buttons of a page are left to Subscriptions.                            *)
(***************************************************************************)
EXTENDS Integers, FiniteSets

CONSTANTS
    NumIds,         \* interests have the ids 1..NumIds, in the order of ids
    Own,            \* the interests of the user; the others are public
    Elsewhere,      \* interests followed in a chat whose id extends this one's
    Counts,         \* numbers of followers
    PageLimit,      \* how many interests a page has
    IdLength,       \* the length of an id in callback data
    MaxChanges      \* bound: how often interests change

Ids == 1..NumIds
Lists == {"own", "public", "following"}

CmdLimit == 64

\* The number of followers a list starts from, more than any interest has: it stands
\* for math.MaxInt64.
MaxFollowers == 99999999

ASSUME ListingAssumption ==
    /\ NumIds \in Nat \ {0}
    /\ Own \subseteq Ids
    /\ Elsewhere \subseteq Ids
    /\ Counts \subseteq 0..MaxFollowers
    /\ PageLimit \in Nat \ {0}
    /\ IdLength \in Nat
    /\ 20 + IdLength + 1 < CmdLimit     \* the callback data below has room for a digit
    /\ MaxChanges \in Nat

VARIABLES
    \* the services
    exists,         \* the interests there are
    followers,      \* their numbers of followers
    followed,       \* the interests followed in this chat
    \* the screen
    opened,         \* the list the user opened
    list,           \* the list the next page is of, "end" when there is no next page,
                    \* or "failed" when an error was shown as the last page
    cursor,         \* where the next page begins
    \* history
    shown,          \* interests shown since the list was opened
    steady,         \* interests of the list which have not changed since then
    repeated,       \* a steady interest was shown twice
    changes

services == <<exists, followers, followed>>
screen == <<opened, list, cursor>>
history == <<shown, steady, repeated>>
vars == <<services, screen, history, changes>>

Init ==
    /\ exists = Ids
    /\ followers \in [Ids -> Counts]
    /\ followed \in SUBSET Ids
    /\ opened = "own"
    /\ list = "end"
    /\ cursor = [id |-> 0, followers |-> 0]
    /\ shown = {}
    /\ steady = {}
    /\ repeated = FALSE
    /\ changes = 0
-----------------------------------------------------------------------------
(* The services.                                                           *)

\* What a query of a list is answered from.  The chat is looked up by a prefix
\* of its callback URLs, which is one of another chat's URLs too when the id of
\* that chat begins with the id of this one.
Listed(l) ==
    CASE l = "own" -> exists \cap Own
      [] l = "public" -> exists
      [] l = "following" -> followed \cup Elsewhere

\* Search sorts own interests by the id, public ones by followers and then the
\* id, descending; InterestsByUrl by the id.
Precedes(l, i, j) ==
    IF l = "public"
      THEN followers[i] > followers[j] \/ (followers[i] = followers[j] /\ i > j)
      ELSE i < j

Beyond(l, c, i) ==
    IF l = "public"
      THEN followers[i] < c.followers \/ (followers[i] = c.followers /\ i < c.id)
      ELSE i > c.id

\* Mutant of Page: the page begins with the interest of the cursor.
PageFromCursor(l, c) ==
    LET after == {i \in Listed(l) : Beyond(l, c, i) \/ i = c.id} IN
    {i \in after : Cardinality({j \in after : Precedes(l, j, i)}) < PageLimit}

\* The first PageLimit interests of the list after the cursor.
Page(l, c) ==
    LET after == {i \in Listed(l) : Beyond(l, c, i)} IN
    {i \in after : Cardinality({j \in after : Precedes(l, j, i)}) < PageLimit}

Change(i) ==
    /\ changes < MaxChanges
    /\ changes' = changes + 1
    /\ steady' = steady \ {i}
    /\ UNCHANGED <<screen, shown, repeated>>

CreateOrDelete(i) ==
    /\ Change(i)
    /\ exists' = IF i \in exists THEN exists \ {i} ELSE exists \cup {i}
    /\ UNCHANGED <<followers, followed>>

Count(i) ==
    /\ Change(i)
    /\ \E n \in Counts \ {followers[i]} : followers' = [followers EXCEPT ![i] = n]
    /\ UNCHANGED <<exists, followed>>

FollowOrStop(i) ==
    /\ Change(i)
    /\ followed' = IF i \in followed THEN followed \ {i} ELSE followed \cup {i}
    /\ UNCHANGED <<exists, followers>>
-----------------------------------------------------------------------------
(* list.go                                                                 *)

\* The powers of ten, written out for the proofs.
Power == <<10, 100, 1000, 10000, 100000, 1000000, 10000000, 100000000>>

\* The digits of n in decimal.
Digits(n) == CHOOSE d \in 1..8 : n < Power[d] /\ (d = 1 \/ n >= Power[d - 1])

\* What the data has left for the number of followers.
Room == CmdLimit - 20 - IdLength - 1

\* Mutant of NextPageData: the cursor is where the next page is thought to begin.
NextPageDataAfter(l, page) ==
    LET last == CHOOSE i \in page : \A j \in page \ {i} : Precedes(l, j, i) IN
    [list |-> l, cursor |-> [id |-> last + 1, followers |-> followers[last]]]

\* Mutant of NextPageData: " public" is not appended.
NextPageDataOwn(l, page) ==
    LET last == CHOOSE i \in page : \A j \in page \ {i} : Precedes(l, j, i) IN
    [list |-> IF l = "public" THEN "own" ELSE l,
     cursor |-> [id |-> last, followers |-> followers[last]]]

\* The data of the button "Next Page >" as PageNext and PageNextFollowing will
\* understand it: "subs_next sub_start <id> <followers>", for public interests
\* with " public" appended, or "following_next <id>".  What follows the id gets
\* cut off at CmdLimit: digits of the number of followers, or "public" with the
\* space before it, which is all PageNext looks for.
NextPageData(l, page) ==
    LET last == CHOOSE i \in page : \A j \in page \ {i} : Precedes(l, j, i)
        n == followers[last]
        cut == Digits(n) - Room
    IN IF l = "following"
         THEN [list |-> l, cursor |-> [id |-> last, followers |-> 0]]
         ELSE [list |-> IF l = "public" /\ cut < 0 THEN "public" ELSE "own",
               cursor |-> [id |-> last,
                           followers |-> IF cut <= 0 THEN n ELSE n \div Power[cut]]]

\* Mutant of ShowPage: every page gets the button of the next one.
ShowPageAlwaysNext(l, c) ==
    LET page == Page(l, c) IN
    /\ shown' = shown \cup page
    /\ repeated' = (repeated \/ page \cap shown \cap steady # {})
    /\ list' = l
    /\ cursor' = IF page = {} THEN c ELSE NextPageData(l, page).cursor

\* A page has the button of the next one when it is full.
ShowPage(l, c) ==
    LET page == Page(l, c) IN
    /\ shown' = shown \cup page
    /\ repeated' = (repeated \/ page \cap shown \cap steady # {})
    /\ IF Cardinality(page) = PageLimit
         THEN /\ list' = NextPageData(l, page).list
              /\ cursor' = NextPageData(l, page).cursor
         ELSE /\ list' = "end"
              /\ UNCHANGED cursor

\* Search does not look at the status: an error with a body of JSON decodes to no
\* interests, a last page like any other one.  InterestsByUrl does look.
ShowError(l) ==
    /\ l \in {"own", "public"}
    /\ list' = "failed"
    /\ UNCHANGED <<cursor, shown, repeated>>

Show(l, c) == ShowPage(l, c) \/ ShowError(l)

\* ListOnGroupStartHandlerFunc, ListPublicHandlerFunc and ListFollowing.
First(l) ==
    IF l = "public" THEN [id |-> NumIds + 1, followers |-> MaxFollowers]
                    ELSE [id |-> 0, followers |-> 0]

Open(l) ==
    /\ list = "end"
    /\ shown = {}
    /\ opened' = l
    /\ steady' = Listed(l)
    /\ Show(l, First(l))
    /\ UNCHANGED <<services, changes>>

\* PageNext and PageNextFollowing.
PageNext ==
    /\ list \in Lists
    /\ Show(list, cursor)
    /\ UNCHANGED <<services, opened, steady, changes>>

\* The user is done with the list.
Leave ==
    /\ shown' = {}
    /\ steady' = {}
    /\ list' = "end"
    /\ cursor' = [id |-> 0, followers |-> 0]
    /\ repeated' = FALSE
    /\ UNCHANGED <<services, opened, changes>>
-----------------------------------------------------------------------------
Next ==
    \/ \E l \in Lists : Open(l)
    \/ PageNext
    \/ Leave
    \/ \E i \in Ids : CreateOrDelete(i) \/ Count(i) \/ FollowOrStop(i)

Spec == Init /\ [][Next]_vars

\* A user who wants to see the whole list keeps pressing the button.
FairSpec == Spec /\ WF_vars(PageNext)
-----------------------------------------------------------------------------
\* The variables have their types: the cursor which comes back from the callback
\* data is an interest there was, or the start of a list (list.go:52-71).
TypeOK ==
    /\ exists \subseteq Ids
    /\ followers \in [Ids -> Counts]
    /\ followed \subseteq Ids
    /\ opened \in Lists
    /\ list \in Lists \cup {"end", "failed"}
    /\ cursor \in [id : 0..NumIds, followers : Nat]
    /\ shown \subseteq Ids
    /\ steady \subseteq Ids
    /\ repeated \in BOOLEAN
    /\ changes \in 0..MaxChanges

Seen == shown # {} /\ list = "end"

\* Who has paged to the end of a list has seen every interest which was there
\* all the time, whatever happened to the others meanwhile (unless the end was an
\* error of the service, which LastPageIsLast is about) ...
NothingSkipped == Seen => steady \subseteq shown

\* ... and has seen none of them twice: the cursor of list.go:143 neither repeats
\* nor skips.
NothingRepeated == ~repeated

\* Paging ends: a page is the last one sooner or later (list.go:142, 227), since
\* every cursor lies beyond the one before it.
PagingEnds == list \in Lists ~> list \notin Lists

\* A page without the button of a next one is the last one (list.go:142): what was
\* there all the time has been shown.  An error of the service shown as a page without
\* interests breaks it (interests/service.go:234-253).
LastPageIsLast == shown # {} /\ list \notin Lists => steady \subseteq shown

\* main.go describes /interests as "List all available interests".
AllAvailableListed == Seen /\ opened = "public" => steady \subseteq shown

\* list.go announces the "List of interests you subscribed to in this chat".
OnlyThisChat == Seen /\ opened = "following" => shown \cap steady \subseteq followed
=============================================================================
