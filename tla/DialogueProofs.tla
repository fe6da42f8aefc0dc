--------------------------- MODULE DialogueProofs ---------------------------
(***************************************************************************)
(* Proofs about Dialogue and Conditions for any interests, however deep    *)
(* their conditions are, for any texts of users, and with any number of    *)
(* items on the screen.                                                    *)
(***************************************************************************)
EXTENDS Dialogue, FiniteSetTheorems, WellFoundedInduction, SequenceTheorems, TLAPS

\* What the bot writes into its prompts and buttons.
Prompts ==
    {Item("prompt", words) :
        words \in {<<"sub_create">>, <<"msg_pub">>, <<"support">>, <<"sub_start">>}
                    \cup {<<"sub_start", id>> : id \in Ids}}
Buttons ==
    {Item("button", words) :
        words \in UNION {{<<"sub_start", id>>, <<"sub_stop", id>>,
                          <<"subs_next", "sub_start", id, "0">>,
                          <<"following_next", id>>} : id \in Ids}}

\* The user has got nothing else, and the ids are those of interests.
Written ==
    /\ Exists \subseteq Ids
    /\ followed \subseteq Ids
    /\ screen \subseteq Prompts \cup Buttons

\* Of an interest which becomes followed in a step, the user has named the id.
Named ==
    \A id \in followed' \ followed :
        /\ asked'.kind \in {"command", "prompt"}
        /\ Len(asked'.words) >= 2
        /\ asked'.words[2] = id

Understood == outcome \notin {"unknown", "arity"}
-----------------------------------------------------------------------------
(* What the handlers send and change.                                        *)

\* The parts of what the user has got.
LEMMA ItemFacts ==
    /\ \A words : Item("prompt", words).kind = "prompt" /\ Item("prompt", words).words = words
                  /\ Item("button", words).kind = "button" /\ Item("button", words).words = words
    /\ \A item \in Prompts :
          /\ item.kind = "prompt"
          /\ \/ item.words \in {<<"sub_create">>, <<"msg_pub">>, <<"support">>, <<"sub_start">>}
             \/ \E id \in Ids : item.words = <<"sub_start", id>>
    /\ \A item \in Buttons :
          /\ item.kind = "button"
          /\ \E id \in Ids :
                item.words \in {<<"sub_start", id>>, <<"sub_stop", id>>,
                                <<"subs_next", "sub_start", id, "0">>, <<"following_next", id>>}
BY DEF Item, Prompts, Buttons

\* A prompt for the interval has the id of an interest or none.
LEMMA StartPromptFacts ==
    ASSUME NEW id \in Ids \cup {""}
    PROVE  StartPrompt(id) \in Prompts
BY DEF StartPrompt, Prompts

LEMMA SendsFacts ==
    ASSUME Written, NEW items \in SUBSET (Prompts \cup Buttons), Sends(items)
    PROVE  Written' /\ followed' = followed /\ Understood'
BY DEF Sends, Ends, Written, Exists, Understood

LEMMA RefusesFacts ==
    ASSUME Written, NEW res, Refuses(res)
    PROVE  Written' /\ followed' = followed /\ outcome' = res
BY DEF Refuses, Ends, Written, Exists

LEMMA StartFacts ==
    ASSUME Written, NEW id \in Ids, Start(id)
    PROVE  Written' /\ followed' \subseteq followed \cup {id} /\ Understood'
BY DEF Start, Ends, Written, Exists, Understood

LEMMA StopFacts ==
    ASSUME Written, NEW id, Stop(id)
    PROVE  Written' /\ followed' \subseteq followed /\ Understood'
<1>1. CASE Refuses("failure")
  BY <1>1, RefusesFacts DEF Understood
<1>2. CASE ~Refuses("failure")
  BY <1>2 DEF Stop, Ends, Written, Exists, Understood
<1> QED
  BY <1>1, <1>2

LEMMA ListButtonsFacts ==
    ASSUME Written, ListButtons
    PROVE  Written' /\ followed' = followed /\ Understood'
<1> DEFINE row(id) == Item("button", IF id \in followed THEN <<"sub_stop", id>>
                                                        ELSE <<"sub_start", id>>)
<1>1. PICK page \in SUBSET Exists :
        \/ Sends({row(id) : id \in page})
        \/ \E id \in page :
             Sends({row(i) : i \in page}
                     \cup {Item("button", <<"subs_next", "sub_start", id, "0">>)})
  BY DEF ListButtons
<1>2. page \subseteq Ids
  BY DEF Written
<1>3. \A id \in Ids : row(id) \in Buttons
                      /\ Item("button", <<"subs_next", "sub_start", id, "0">>) \in Buttons
  BY DEF Buttons
<1>4. {row(id) : id \in page} \in SUBSET (Prompts \cup Buttons)
  BY <1>2, <1>3
<1>5. CASE Sends({row(id) : id \in page})
  BY <1>4, <1>5, SendsFacts
<1>6. ASSUME NEW id \in page,
             Sends({row(i) : i \in page}
                     \cup {Item("button", <<"subs_next", "sub_start", id, "0">>)})
      PROVE  Written' /\ followed' = followed /\ Understood'
  <2>1. {row(i) : i \in page} \cup {Item("button", <<"subs_next", "sub_start", id, "0">>)}
           \in SUBSET (Prompts \cup Buttons)
    BY <1>2, <1>3, <1>4
  <2> QED
    BY <1>6, <2>1, SendsFacts
<1> QED
  BY <1>1, <1>5, <1>6

LEMMA ListFollowingFacts ==
    ASSUME Written, ListFollowing
    PROVE  Written' /\ followed' = followed /\ Understood'
<1> DEFINE row(id) == Item("button", <<"sub_stop", id>>)
<1>1. PICK page \in SUBSET followed :
        \/ Sends({row(id) : id \in page})
        \/ \E id \in page :
             Sends({row(i) : i \in page} \cup {Item("button", <<"following_next", id>>)})
  BY DEF ListFollowing
<1>2. page \subseteq Ids
  BY DEF Written
<1>3. \A id \in Ids : row(id) \in Buttons /\ Item("button", <<"following_next", id>>) \in Buttons
  BY DEF Buttons
<1>4. {row(id) : id \in page} \in SUBSET (Prompts \cup Buttons)
  BY <1>2, <1>3
<1>5. CASE Sends({row(id) : id \in page})
  BY <1>4, <1>5, SendsFacts
<1>6. ASSUME NEW id \in page,
             Sends({row(i) : i \in page} \cup {Item("button", <<"following_next", id>>)})
      PROVE  Written' /\ followed' = followed /\ Understood'
  <2>1. {row(i) : i \in page} \cup {Item("button", <<"following_next", id>>)}
           \in SUBSET (Prompts \cup Buttons)
    BY <1>2, <1>3, <1>4
  <2> QED
    BY <1>6, <2>1, SendsFacts
<1> QED
  BY <1>1, <1>5, <1>6

\* Create stores an interest under a new id or none.
LEMMA CreateFacts ==
    ASSUME Exists \subseteq Ids, NEW interest, NEW id, NEW ok, Create(interest, id, ok)
    PROVE  Exists' \subseteq Ids
<1>1. ASSUME NEW new \in Ids, Stores(interest, new)
      PROVE  Exists' = Exists \cup {new}
  BY <1>1, Zenon DEF Stores, Exists
<1>2. CASE \E new \in Ids : Stores(interest, new)
  BY <1>1, <1>2
<1>3. CASE UNCHANGED stored
  BY <1>3 DEF Exists
<1> QED
  BY <1>2, <1>3 DEF Create

LEMMA CreateBasicReplyFacts ==
    ASSUME Written, NEW text, CreateBasicReply(text)
    PROVE  Written' /\ followed' = followed /\ Understood'
<1>1. CASE Refuses("fewWords") \/ Refuses("invalid")
  BY <1>1, RefusesFacts DEF Understood
<1>2. CASE ~(Refuses("fewWords") \/ Refuses("invalid"))
  <2>1. PICK id \in Ids \cup {""}, ok \in BOOLEAN :
          /\ Create(Described(text), id, ok)
          /\ Ends("ok", {StartPrompt(id)}) \/ Ends("failure", {})
    BY <1>2 DEF CreateBasicReply
  <2>2. followed' = followed
    BY <1>2 DEF CreateBasicReply
  <2>3. Exists' \subseteq Ids
    BY <2>1, CreateFacts DEF Written
  <2>4. screen' \subseteq screen \cup {StartPrompt(id)} /\ Understood'
    BY <2>1 DEF Ends, Understood
  <2> QED
    BY <2>2, <2>3, <2>4, StartPromptFacts DEF Written
<1> QED
  BY <1>1, <1>2
-----------------------------------------------------------------------------
(* Steps.                                                                    *)

\* With one argument StartHandler prompts for the interval, with three it follows
\* the interest the second one is the id of, if the third one is an interval.
LEMMA PromptsFacts ==
    ASSUME Written, NEW id \in Ids, StartHandler(<<id>>)
    PROVE  Written' /\ followed' = followed /\ Understood'
<1>1. Len(<<id>>) = 1 /\ <<id>>[1] = id
  OBVIOUS
<1>2. Sends({StartPrompt(id)})
  BY <1>1 DEF StartHandler
<1> QED
  BY <1>2, StartPromptFacts, SendsFacts

LEMMA FollowsFacts ==
    ASSUME Written, NEW args, Len(args) = 3, args[2] \in Ids, StartHandler(args)
    PROVE  Written' /\ followed' \subseteq followed \cup {args[2]} /\ Understood'
<1>1. IF args[3] \in Intervals THEN Start(args[2]) ELSE Refuses("interval")
  BY DEF StartHandler
<1>2. CASE Start(args[2])
  BY <1>2, StartFacts
<1>3. CASE Refuses("interval")
  BY <1>3, RefusesFacts DEF Understood
<1> QED
  BY <1>1, <1>2, <1>3

LEMMA ArityFacts ==
    ASSUME Written, NEW args, Len(args) \in {2, 4}, StartHandler(args)
    PROVE  Written' /\ followed' = followed /\ outcome' = "arity"
<1>1. Refuses("arity")
  BY DEF StartHandler
<1> QED
  BY <1>1, RefusesFacts

\* Words after words.
LEMMA Words ==
    ASSUME NEW a, NEW b, NEW c, NEW d
    PROVE  /\ Len(<<a>> \o <<c>>) = 2
           /\ Len(<<a, b>> \o << >>) = 2
           /\ Len(<<a, b>> \o <<c>>) = 3 /\ (<<a, b>> \o <<c>>)[2] = b
           /\ Len(<<a, b>> \o <<c, d>>) = 4
<1> DEFINE S == {a, b, c, d}
<1>1. << >> \in Seq(S) /\ <<a>> \in Seq(S) /\ <<c>> \in Seq(S) /\ <<a, b>> \in Seq(S)
      /\ <<c, d>> \in Seq(S)
  OBVIOUS
<1>2. Len(<<a>>) = 1 /\ Len(<<c>>) = 1 /\ Len(<<a, b>>) = 2 /\ Len(<<c, d>>) = 2
      /\ <<a, b>>[2] = b /\ Len(<< >>) = 0
  OBVIOUS
<1> HIDE DEF S
<1>3. \A s, t \in Seq(S) : /\ Len(s \o t) = Len(s) + Len(t)
                           /\ \A i \in 1..Len(s) + Len(t) :
                                (s \o t)[i] = IF i <= Len(s) THEN s[i] ELSE t[i - Len(s)]
  BY ConcatProperties
<1> QED
  BY <1>1, <1>2, <1>3

LEMMA CommandStep ==
    ASSUME Written, NEW name \in {"/start", "/interests", "/following", "/sub", "/pub", "/support"},
           Command(name)
    PROVE  Written' /\ Named /\ asked'.kind = "command"
<1>1. Item("prompt", <<"sub_create">>) \in Prompts /\ Item("prompt", <<"msg_pub">>) \in Prompts
      /\ Item("prompt", <<"support">>) \in Prompts
  BY DEF Prompts
<1>2. asked'.kind = "command"
  BY DEF Command
<1>3. \/ ListButtons \/ ListFollowing
      \/ \E items \in SUBSET (Prompts \cup Buttons) : Sends(items)
  BY <1>1 DEF Command
<1>4. Written' /\ followed' = followed
  BY <1>3, ListButtonsFacts, ListFollowingFacts, SendsFacts
<1> QED
  BY <1>2, <1>4 DEF Named

LEMMA CommandStartStep ==
    ASSUME Written, NEW id \in Ids, NEW more \in {<< >>, <<"1h">>, <<"1h", "word">>},
           CommandStart(id, more)
    PROVE  Written' /\ Named /\ asked'.kind = "command"
<1> DEFINE args == <<"/start", id>> \o more
<1>1. asked'.kind = "command" /\ asked'.words = args /\ StartHandler(args)
  BY DEF CommandStart
<1>2. CASE more = <<"1h">>
  <2>1. Len(args) = 3 /\ args[2] = id
    BY <1>2, Words
  <2> HIDE DEF args
  <2>2. Written' /\ followed' \subseteq followed \cup {id}
    BY <1>1, <2>1, FollowsFacts
  <2> QED
    BY <1>1, <2>1, <2>2 DEF Named
<1>3. CASE more \in {<< >>, <<"1h", "word">>}
  <2>1. Len(args) \in {2, 4}
    <3>1. CASE more = << >>
      BY <3>1, Words
    <3>2. CASE more = <<"1h", "word">>
      BY <3>2, Words
    <3> QED
      BY <1>3, <3>1, <3>2
  <2> HIDE DEF args
  <2>2. Written' /\ followed' = followed
    BY <1>1, <2>1, ArityFacts
  <2> QED
    BY <1>1, <2>2 DEF Named
<1> QED
  BY <1>2, <1>3

LEMMA TypeTextStep ==
    ASSUME Written, TypeText
    PROVE  Written' /\ Named /\ asked'.kind = "text"
<1>1. Refuses("unknown") /\ asked'.kind = "text"
  BY DEF TypeText
<1> QED
  BY <1>1, RefusesFacts DEF Named

\* Whatever button it is, the handler named first takes what comes after the name,
\* and follows nothing.
LEMMA PressStep ==
    ASSUME Written, NEW item \in screen, Press(item)
    PROVE  Written' /\ Named /\ Understood'
<1>1. item \in Buttons
  BY ItemFacts DEF Press, Written
<1>2. PICK id \in Ids :
        item.words \in {<<"sub_start", id>>, <<"sub_stop", id>>,
                        <<"subs_next", "sub_start", id, "0">>, <<"following_next", id>>}
  BY <1>1, ItemFacts
<1>3. Handle(item.words[1], Tail(item.words))
  BY DEF Press
<1>4. CASE item.words = <<"sub_start", id>>
  <2>1. Tail(item.words) = <<id>> /\ item.words[1] = "sub_start"
    BY <1>4
  <2>2. StartHandler(<<id>>)
    BY <1>3, <2>1 DEF Handle
  <2> QED
    BY <2>2, PromptsFacts DEF Named
<1>5. CASE item.words = <<"sub_stop", id>>
  <2>1. Stop(id)
    <3>1. Tail(item.words) = <<id>> /\ item.words[1] = "sub_stop" /\ <<id>>[1] = id
      BY <1>5
    <3> QED
      BY <1>3, <3>1 DEF Handle
  <2> QED
    BY <2>1, StopFacts DEF Named
<1>6. CASE item.words = <<"subs_next", "sub_start", id, "0">>
  <2>1. ListButtons
    <3>1. item.words[1] = "subs_next"
      BY <1>6
    <3> QED
      BY <1>3, <3>1 DEF Handle
  <2> QED
    BY <2>1, ListButtonsFacts DEF Named
<1>7. CASE item.words = <<"following_next", id>>
  <2>1. ListFollowing
    <3>1. item.words[1] = "following_next"
      BY <1>7
    <3> QED
      BY <1>3, <3>1 DEF Handle
  <2> QED
    BY <2>1, ListFollowingFacts DEF Named
<1> QED
  BY <1>2, <1>4, <1>5, <1>6, <1>7

\* A reply to the prompt for the interval follows the interest the prompt names.
LEMMA ReplyStep ==
    ASSUME Written, NEW item \in screen, NEW text, Reply(item, text)
    PROVE  Written' /\ Named /\ (asked'.words # <<"sub_start">> => Understood')
<1>1. item \in Prompts
  BY ItemFacts DEF Reply, Written
<1>2. asked'.kind = "prompt" /\ asked'.words = item.words
  BY DEF Reply
<1>3. CASE item.words = <<"sub_start">>
  <2> DEFINE args == item.words \o <<text>>
  <2>1. Len(args) = 2
    BY <1>3, Words
  <2>2. StartHandler(args)
    <3>1. item.words[1] = "sub_start"
      BY <1>3
    <3> QED
      BY <3>1 DEF Reply
  <2> HIDE DEF args
  <2>3. Written' /\ followed' = followed
    BY <2>1, <2>2, ArityFacts
  <2> QED
    BY <1>2, <1>3, <2>3 DEF Named
<1>4. ASSUME NEW id \in Ids, item.words = <<"sub_start", id>>
      PROVE  Written' /\ Named /\ Understood'
  <2> DEFINE args == item.words \o <<text>>
  <2>1. Len(args) = 3 /\ args[2] = id
    BY <1>4, Words
  <2>2. item.words[1] = "sub_start" /\ Len(item.words) = 2 /\ item.words[2] = id
    BY <1>4
  <2>3. StartHandler(args)
    BY <2>2 DEF Reply
  <2> HIDE DEF args
  <2>4. Written' /\ followed' \subseteq followed \cup {id} /\ Understood'
    BY <2>1, <2>3, FollowsFacts
  <2> QED
    BY <1>2, <2>2, <2>4 DEF Named
<1>5. CASE item.words = <<"sub_create">>
  <2>1. CreateBasicReply(text)
    <3>1. item.words[1] = "sub_create"
      BY <1>5
    <3> QED
      BY <3>1 DEF Reply
  <2> QED
    BY <2>1, CreateBasicReplyFacts DEF Named
<1>6. CASE item.words \in {<<"msg_pub">>, <<"support">>}
  <2>1. Sends({})
    <3>1. item.words[1] \in {"msg_pub", "support"}
      BY <1>6
    <3> QED
      BY <3>1 DEF Reply
  <2> QED
    BY <2>1, SendsFacts DEF Named
<1> QED
  BY <1>1, <1>3, <1>4, <1>5, <1>6, ItemFacts
-----------------------------------------------------------------------------
\* Whoever knows what the bot writes knows what it understands.
LEMMA NextWritten ==
    ASSUME Written, UnderstoodByItself, [Next]_vars
    PROVE  Written' /\ UnderstoodByItself' /\ [Named]_vars
<1>1. CASE Next
  <2>1. ASSUME NEW name \in {"/start", "/interests", "/following", "/sub", "/pub", "/support"},
               Command(name)
        PROVE  Written' /\ UnderstoodByItself' /\ Named
    BY <2>1, CommandStep DEF UnderstoodByItself
  <2>2. ASSUME NEW id \in Ids, NEW more \in {<< >>, <<"1h">>, <<"1h", "word">>},
               CommandStart(id, more)
        PROVE  Written' /\ UnderstoodByItself' /\ Named
    BY <2>2, CommandStartStep DEF UnderstoodByItself
  <2>3. CASE TypeText
    BY <2>3, TypeTextStep DEF UnderstoodByItself
  <2>4. ASSUME NEW item \in screen, Press(item)
        PROVE  Written' /\ UnderstoodByItself' /\ Named
    BY <2>4, PressStep DEF UnderstoodByItself, Understood
  <2>5. ASSUME NEW item \in screen, NEW text, Reply(item, text)
        PROVE  Written' /\ UnderstoodByItself' /\ Named
    BY <2>5, ReplyStep DEF UnderstoodByItself, Understood
  <2> QED
    BY <1>1, <2>1, <2>2, <2>3, <2>4, <2>5 DEF Next
<1>2. CASE UNCHANGED vars
  BY <1>2 DEF vars, Written, Exists, UnderstoodByItself
<1> QED
  BY <1>1, <1>2

LEMMA InitWritten == Init => Written /\ UnderstoodByItself
BY InterestsAssumption DEF Init, InterestsInit, Written, Exists, UnderstoodByItself

\* The bot understands its own prompts and buttons whenever they come back, and
\* whatever happened since: no press is unknown to callback.go, and no reply to
\* root.go, or of a wrong number of arguments to StartHandler.
THEOREM UnderstandsItself == Spec => []UnderstoodByItself
<1>1. Written /\ UnderstoodByItself /\ [Next]_vars => (Written /\ UnderstoodByItself)'
  BY NextWritten
<1> QED
  BY <1>1, InitWritten, PTL DEF Spec

\* A chat comes to follow an interest only when the user has named it, by a command
\* or by replying an interval to the prompt with its id (start.go:33-54): no other
\* reply, no button and no list has that effect.
THEOREM NamedByUser == Spec => FollowedWhenNamed
<1>1. Written /\ UnderstoodByItself /\ [Next]_vars => (Written /\ UnderstoodByItself)'
  BY NextWritten
<1>2. Written /\ UnderstoodByItself /\ [Next]_vars => [Named]_vars
  BY NextWritten
<1> QED
  BY <1>1, <1>2, InitWritten, PTL DEF Spec, FollowedWhenNamed, Named
-----------------------------------------------------------------------------
(* Trees.                                                                    *)

\* What the walk down a condition needs of it: it is finite, and there is a way from
\* the top to every place.
Tree(tree) ==
    /\ IsFiniteSet(DOMAIN tree)
    /\ << >> \in DOMAIN tree
    /\ \A place \in DOMAIN tree :
          /\ place \in Seq(Nat)
          /\ place # << >> => Parent(place) \in DOMAIN tree

\* The place of a group is shorter by one than those of its members.
LEMMA ParentIsShorter ==
    ASSUME NEW place \in Seq(Nat), place # << >>
    PROVE  Len(Parent(place)) \in Nat /\ Len(place) \in Nat
           /\ Len(Parent(place)) = Len(place) - 1
<1>1. Len(place) \in Nat \ {0}
  BY EmptySeq
<1>2. \A i \in 1..Len(place) - 1 : place[i] \in Nat
  BY <1>1, ElementOfSeq
<1>3. Len(SubSeq(place, 1, Len(place) - 1))
        = IF 1 <= Len(place) - 1 THEN Len(place) - 1 - 1 + 1 ELSE 0
  BY <1>1, <1>2, SubSeqProperties
<1> DEFINE n == Len(place)
           k == Len(SubSeq(place, 1, Len(place) - 1))
<1>4. n \in Nat \ {0} /\ k = IF 1 <= n - 1 THEN n - 1 - 1 + 1 ELSE 0
  BY <1>1, <1>3
<1> HIDE DEF n, k
<1>5. k \in Nat /\ n \in Nat /\ k = n - 1
  BY <1>4
<1> QED
  BY <1>5 DEF Parent, n, k

\* Natural numbers have a least one, and a finite set has an element with the
\* greatest number: a smallest set without one would still have none after an element
\* is taken out.
LEMMA LeastExists ==
    ASSUME NEW S \in SUBSET Nat, S # {}
    PROVE  \E n \in S : \A k \in S : ~(k < n)
<1>1. PICK n \in S : \A k \in S : ~(<<k, n>> \in OpToRel(<, Nat))
  BY NatLessThanWellFounded, WFMin
<1> QED
  BY <1>1 DEF OpToRel

LEMMA GreatestExists ==
    ASSUME NEW f, NEW S, S # {}, IsFiniteSet(S), \A x \in S : f[x] \in Nat
    PROVE  \E m \in S : \A d \in S : f[d] <= f[m]
<1> DEFINE HasMax(A) == \E m \in A : \A d \in A : f[d] <= f[m]
           Sizes == {n \in Nat : \E A \in SUBSET S : A # {} /\ Cardinality(A) = n /\ ~HasMax(A)}
<1>1. SUFFICES ASSUME ~HasMax(S) PROVE FALSE
  OBVIOUS
<1>2. Cardinality(S) \in Sizes
  BY <1>1, FS_CardinalityType
<1>3. PICK n \in Sizes : \A k \in Sizes : ~(k < n)
  BY <1>2, LeastExists
<1>4. PICK A \in SUBSET S : A # {} /\ Cardinality(A) = n /\ ~HasMax(A)
  BY <1>3
<1>5. PICK c \in A : TRUE
  BY <1>4
<1>6. IsFiniteSet(A) /\ IsFiniteSet(A \ {c}) /\ n \in Nat
  BY <1>4, FS_Subset
<1>7. Cardinality(A \ {c}) = n - 1 /\ n - 1 \in Nat /\ n - 1 < n
  <2>1. Cardinality(A \ {c}) = Cardinality(A) - 1 /\ Cardinality(A \ {c}) \in Nat
    BY <1>5, <1>6, FS_RemoveElement, FS_CardinalityType
  <2> QED
    BY <1>4, <1>6, <2>1
<1>8. ~(n - 1 \in Sizes)
  BY <1>3, <1>6, <1>7
<1>9. CASE A \ {c} = {}
  <2>1. A = {c} /\ f[c] <= f[c]
    BY <1>4, <1>5, <1>9
  <2> QED
    BY <1>4, <2>1
<1>10. CASE A \ {c} # {}
  <2>1. PICK m \in A \ {c} : \A d \in A \ {c} : f[d] <= f[m]
    BY <1>7, <1>8, <1>10
  <2>2. f[m] \in Nat /\ f[c] \in Nat /\ \A d \in A : f[d] \in Nat
    BY <1>4, <1>5, <2>1
  <2>3. CASE f[c] <= f[m]
    BY <1>4, <1>5, <2>1, <2>3
  <2>4. CASE f[m] < f[c]
    <3>1. \A d \in A : f[d] <= f[c]
      BY <2>1, <2>2, <2>4
    <3> QED
      BY <1>4, <1>5, <3>1
  <2> QED
    BY <2>2, <2>3, <2>4
<1> QED
  BY <1>9, <1>10

\* The walk down a condition finds what there is, at whatever depth.  That there is such
\* a function is seen from the places below each place.  That it misses no bad one is
\* seen from a shortest place it calls bad, which is below one it calls good, and that it
\* makes none up from a longest one, which has no members it calls bad.
LEMMA ThroughoutAll ==
    ASSUME NEW tree, Tree(tree), NEW good \in [DOMAIN tree -> BOOLEAN]
    PROVE  Throughout(tree, good) <=> \A place \in DOMAIN tree : good[place]
<1> DEFINE D == DOMAIN tree
           Walk(f) == f = [place \in D |-> good[place] /\ \A p \in Group(tree, place) : f[p]]
           all == CHOOSE f : Walk(f)
<1>1. \A place \in D : place \in Seq(Nat) /\ Len(place) \in Nat
  BY LenProperties DEF Tree
<1>2. \A place \in D : Group(tree, place) \subseteq D
  BY DEF Group
<1>3. \A place \in D : \A p \in Group(tree, place) : Len(p) = Len(place) + 1
  <2> TAKE place \in D
  <2> TAKE p \in Group(tree, place)
  <2>1. p \in D /\ p # << >> /\ Parent(p) = place
    BY DEF Group
  <2> QED
    BY <1>1, <2>1, ParentIsShorter
<1>4. \A p \in D : p # << >> => Parent(p) \in D /\ p \in Group(tree, Parent(p))
  BY DEF Tree, Group
<1>5. Walk(all)
  <2> DEFINE Closed(A) == \A place \in A : Group(tree, place) \subseteq A
             Below(place) == {q \in D : \A A \in SUBSET D : place \in A /\ Closed(A) => q \in A}
             f == [place \in D |-> \A q \in Below(place) : good[q]]
  <2>1. \A place \in D : place \in Below(place) /\ Below(place) \subseteq D
    OBVIOUS
  <2>2. \A place \in D : Closed(Below(place))
    BY <1>2
  <2>3. \A place \in D : \A p \in Group(tree, place) : Below(p) \subseteq Below(place)
    OBVIOUS
  <2>4. ASSUME NEW place \in D, NEW q \in Below(place), q # place
        PROVE  \E p \in Group(tree, place) : q \in Below(p)
    <3> DEFINE A == {place} \cup UNION {Below(p) : p \in Group(tree, place)}
    <3>1. A \in SUBSET D /\ place \in A
      OBVIOUS
    <3>2. \A p \in Group(tree, place) : p \in A
      BY <1>2, <2>1
    <3>3. Closed(A)
      <4> SUFFICES ASSUME NEW x \in A PROVE Group(tree, x) \subseteq A
        OBVIOUS
      <4>1. CASE x = place
        BY <3>2, <4>1
      <4>2. ASSUME NEW p \in Group(tree, place), x \in Below(p)
            PROVE  Group(tree, x) \subseteq A
        <5>1. p \in D
          BY <1>2
        <5>2. Group(tree, x) \subseteq Below(p)
          BY <2>2, <4>2, <5>1
        <5> QED
          BY <5>2
      <4> QED
        BY <4>1, <4>2
    <3> HIDE DEF Closed
    <3>4. q \in A
      BY <3>1, <3>3
    <3> QED
      BY <2>4, <3>4
  <2> HIDE DEF Below
  <2>5. ASSUME NEW place \in D
        PROVE  f[place] = (good[place] /\ \A p \in Group(tree, place) : f[p])
    BY <1>2, <2>1, <2>3, <2>4
  <2>6. Walk(f)
    BY <2>5
  <2> HIDE DEF f, Walk
  <2> QED
    BY <2>6
<1>6. \A place \in D : all[place] = (good[place] /\ \A p \in Group(tree, place) : all[p])
  <2> HIDE DEF all
  <2> QED
    BY <1>5
<1>7. Throughout(tree, good) = all[<< >>]
  BY DEF Throughout
<1> HIDE DEF all, Walk
<1>8. << >> \in D /\ IsFiniteSet(D)
  BY DEF Tree
<1>9. ASSUME all[<< >>], NEW place \in D, ~good[place]
      PROVE  FALSE
  <2> DEFINE Bad == {n \in Nat : \E p \in D : Len(p) = n /\ ~all[p]}
  <2>1. Len(place) \in Bad
    BY <1>1, <1>6, <1>9
  <2>2. PICK n \in Bad : \A k \in Bad : ~(k < n)
    BY <2>1, LeastExists
  <2>3. PICK p \in D : Len(p) = n /\ ~all[p]
    BY <2>2
  <2>4. p # << >>
    BY <1>9, <2>3
  <2>5. Parent(p) \in D /\ p \in Group(tree, Parent(p)) /\ Len(Parent(p)) < n
        /\ Len(Parent(p)) \in Nat
    BY <1>1, <1>4, <2>3, <2>4, ParentIsShorter
  <2>6. all[Parent(p)]
    BY <2>2, <2>5
  <2> QED
    BY <1>6, <2>3, <2>5, <2>6
<1>10. ASSUME \A place \in D : good[place], ~all[<< >>]
       PROVE  FALSE
  <2> DEFINE Bad == {p \in D : ~all[p]}
             length == [p \in D |-> Len(p)]
  <2>1. Bad # {} /\ IsFiniteSet(Bad) /\ \A p \in Bad : length[p] \in Nat
    BY <1>1, <1>8, <1>10, FS_Subset
  <2>2. PICK m \in Bad : \A p \in Bad : length[p] <= length[m]
    <3> HIDE DEF Bad, length
    <3> QED
      BY <2>1, GreatestExists
  <2>3. PICK p \in Group(tree, m) : ~all[p]
    BY <1>6, <1>10, <2>2
  <2>4. p \in Bad /\ Len(p) = Len(m) + 1 /\ Len(m) \in Nat
    BY <1>1, <1>2, <1>3, <2>3
  <2> QED
    BY <2>2, <2>4
<1> QED
  BY <1>7, <1>8, <1>9, <1>10
-----------------------------------------------------------------------------
(* Conditions: the conversions at one place, and at all of them.             *)

\* Both enums, by number and by name.
LEMMA OperationsComeBack ==
    \A op \in Operations :
        /\ NumOpString(DecodeNumOp(op)) = op
        /\ EncodeNumOp(DecodeNumOp(op)) = op
BY DEF Operations, NumOpString, DecodeNumOp, EncodeNumOp

LEMMA LogicsComeBack ==
    \A n \in 0..2 :
        /\ GroupLogic_value(GroupLogic_name(n)) = n
        /\ GroupLogicString(n) = GroupLogic_name(n)
<1>1. \A n, m \in 0..2 : GroupLogic_name(n) = GroupLogic_name(m) => n = m
  BY DEF GroupLogic_name
<1>2. \A n \in 0..2 : GroupLogic_value(GroupLogic_name(n)) = n
  BY <1>1 DEF GroupLogic_value
<1> QED
  BY <1>2 DEF GroupLogicString, GroupLogic_name

\* One node, there and back.
LEMMA NodeConversion ==
    ASSUME NEW m, WireNode(m)
    PROVE  /\ DecodeNode(m).ok \in BOOLEAN
           /\ DecodeNode(m).ok <=> m.field # "none"
           /\ DecodeNode(m).ok => /\ SameNode(DecodeNode(m).cond, m)
                                  /\ SameNode(DecodeNode(m).cond, EncodeNode(DecodeNode(m).cond))
<1>1. CASE m.field = "gc"
  <2>1. PICK n \in 0..2 : m.logic = GroupLogic_name(n)
    BY <1>1 DEF WireNode
  <2>2. DecodeNode(m) = Decoded(GroupCondition(m.not, n))
    BY <1>1, <2>1, LogicsComeBack DEF DecodeNode
  <2> DEFINE c == GroupCondition(m.not, n)
  <2>3. c.kind = "group" /\ c.not = m.not /\ c.logic = n
    BY DEF GroupCondition
  <2>4. DecodeNode(m).ok = TRUE /\ DecodeNode(m).cond = c
    BY <2>2 DEF Decoded
  <2> HIDE DEF c
  <2>5. EncodeNode(c) = Gc(m.not, m.logic)
    BY <2>1, <2>3 DEF EncodeNode
  <2>6. SameNode(c, m) /\ SameNode(c, Gc(m.not, m.logic))
    BY <1>1, <2>1, <2>3, LogicsComeBack DEF SameNode, Gc
  <2> QED
    BY <1>1, <2>4, <2>5, <2>6
<1>2. CASE m.field = "nc"
  <2>1. DecodeNode(m) = Decoded(NumberCondition(m.not, m.key, DecodeNumOp(m.op), m.val))
    BY <1>2 DEF DecodeNode
  <2>2. m.op \in Operations
    BY <1>2 DEF WireNode
  <2> QED
    BY <1>2, <2>1, <2>2, OperationsComeBack
    DEF Decoded, NumberCondition, SameNode, EncodeNode, Nc
<1>3. CASE m.field = "sc"
  BY <1>3 DEF DecodeNode, Decoded, SemanticCondition, SameNode, EncodeNode, Sc
<1>4. CASE m.field = "tc"
  BY <1>4 DEF DecodeNode, Decoded, TextCondition, SameNode, EncodeNode, Tc
<1>5. CASE m.field = "none"
  BY <1>5 DEF DecodeNode, Failed
<1> QED
  BY <1>1, <1>2, <1>3, <1>4, <1>5 DEF WireNode

\* Of any condition in JSON, decodeCondition returns the condition which selects the same
\* messages, or an error if a part of it, at whatever depth, is of a kind this version does
\* not know; and encodeCondition writes what was read with the same meaning
\* (interests/service.go:258-378).
THEOREM ConditionsComeBack ==
    ASSUME NEW w, Wire(w)
    PROVE  /\ DecodeCondition(w).ok <=> Known(w)
           /\ DecodeCondition(w).ok => /\ Same(DecodeCondition(w).cond, w)
                                       /\ Same(DecodeCondition(w).cond,
                                               EncodeCondition(DecodeCondition(w).cond))
<1> DEFINE good == [place \in DOMAIN w |-> DecodeNode(w[place]).ok]
           c == [place \in DOMAIN w |-> DecodeNode(w[place]).cond]
<1>1. \A place \in DOMAIN w : WireNode(w[place])
  BY DEF Wire
<1>2. good \in [DOMAIN w -> BOOLEAN]
  BY <1>1, NodeConversion
<1>3. Tree(w)
  BY DEF Tree, Wire
<1>4. Throughout(w, good) <=> \A place \in DOMAIN w : good[place]
  BY <1>2, <1>3, ThroughoutAll
<1>5. Throughout(w, good) <=> Known(w)
  BY <1>1, <1>4, NodeConversion DEF Known
<1>6. DecodeCondition(w) = IF Throughout(w, good) THEN Decoded(c) ELSE Failed
  BY DEF DecodeCondition
<1>7. CASE ~Throughout(w, good)
  BY <1>5, <1>6, <1>7 DEF Failed
<1>8. CASE Throughout(w, good)
  <2>1. DecodeCondition(w).ok = TRUE /\ DecodeCondition(w).cond = c
    BY <1>6, <1>8 DEF Decoded
  <2>2. DOMAIN c = DOMAIN w /\ DOMAIN EncodeCondition(c) = DOMAIN w
    BY DEF EncodeCondition
  <2>3. ASSUME NEW place \in DOMAIN w
        PROVE  SameNode(c[place], w[place]) /\ SameNode(c[place], EncodeCondition(c)[place])
    <3>1. DecodeNode(w[place]).ok
      BY <1>4, <1>8
    <3>2. EncodeCondition(c)[place] = EncodeNode(c[place])
      BY DEF EncodeCondition
    <3> QED
      BY <1>1, <3>1, <3>2, NodeConversion
  <2>4. Same(c, w) /\ Same(c, EncodeCondition(c))
    BY <2>2, <2>3 DEF Same
  <2> QED
    BY <1>5, <1>8, <2>1, <2>4
<1> QED
  BY <1>7, <1>8
-----------------------------------------------------------------------------
(* What is stored.                                                           *)

\* The condition of keywords, and what becomes of it.
LEMMA TextFacts ==
    ASSUME NEW n, NEW m, NEW words, n = TextCondition(FALSE, "", words, FALSE),
           m = Tc(FALSE, "", words, FALSE)
    PROVE  EncodeNode(n) = m /\ SameNode(n, m) /\ WireNode(m) /\ m.term = words
<1>1. n.kind = "text" /\ n.not = FALSE /\ n.key = "" /\ n.term = words /\ n.exact = FALSE
  BY DEF TextCondition
<1>2. m.field = "tc" /\ m.not = FALSE /\ m.key = "" /\ m.term = words /\ m.exact = FALSE
  BY DEF Tc
<1>3. EncodeNode(n) = m
  BY <1>1 DEF EncodeNode
<1>4. SameNode(n, m)
  BY <1>1, <1>2 DEF SameNode
<1> QED
  BY <1>2, <1>3, <1>4 DEF WireNode

LEMMA SingleFacts ==
    ASSUME NEW node, NEW tree, tree = Single(node)
    PROVE  DOMAIN tree = {<< >>} /\ tree[<< >>] = node /\ IsFiniteSet({<< >>})
           /\ << >> \in Seq(Nat)
<1>1. DOMAIN tree = {<< >>} /\ tree[<< >>] = node
  BY Zenon DEF Single
<1>2. IsFiniteSet({<< >>})
  BY FS_Singleton
<1>3. << >> \in Seq(Nat)
  OBVIOUS
<1> QED
  BY <1>1, <1>2, <1>3

LEMMA KeywordsFacts ==
    ASSUME NEW words \in Nat, NEW c, c = BuildTextCondition(words)
    PROVE  /\ ValidCondition(c) => words \in 3..256
           /\ EncodeCondition(c) = Single(Tc(FALSE, "", words, FALSE))
<1> DEFINE n == TextCondition(FALSE, "", words, FALSE)
           valid == [place \in DOMAIN c |-> ValidNode(c, place)]
<1>1. DOMAIN c = {<< >>} /\ c[<< >>] = n /\ IsFiniteSet({<< >>}) /\ << >> \in Seq(Nat)
  BY SingleFacts DEF BuildTextCondition
<1>2. Tree(c)
  BY <1>1 DEF Tree
<1>3. n.kind = "text" /\ n.term = words
  BY DEF TextCondition
<1> HIDE DEF n
<1>4. ValidNode(c, << >>) = ValidLength(words)
  BY <1>1, <1>3, Zenon DEF ValidNode
<1>5. valid \in [DOMAIN c -> BOOLEAN] /\ valid[<< >>] = ValidLength(words)
  BY <1>1, <1>4 DEF ValidLength
<1>6. ValidCondition(c) <=> ValidLength(words)
  <2> HIDE DEF valid
  <2>1. Throughout(c, valid) <=> \A place \in DOMAIN c : valid[place]
    BY <1>2, <1>5, ThroughoutAll
  <2>2. ValidCondition(c) <=> Throughout(c, valid)
    BY DEF ValidCondition, valid
  <2> QED
    BY <1>1, <1>5, <2>1, <2>2
<1>7. ValidLength(words) => words \in 3..256
  BY DEF ValidLength
<1>8. EncodeNode(c[<< >>]) = Tc(FALSE, "", words, FALSE)
  BY <1>1, TextFacts DEF n
<1>9. EncodeCondition(c) = Single(Tc(FALSE, "", words, FALSE))
  BY <1>1, <1>8, Zenon DEF EncodeCondition, Single
<1> QED
  BY <1>6, <1>7, <1>9

LEMMA SingleText ==
    ASSUME NEW words, NEW w, w = Single(Tc(FALSE, "", words, FALSE))
    PROVE  /\ Wire(w)
           /\ w[<< >>].term = words
           /\ Same(Single(TextCondition(FALSE, "", words, FALSE)), w)
<1> DEFINE c == Single(TextCondition(FALSE, "", words, FALSE))
<1>1. DOMAIN w = {<< >>} /\ w[<< >>] = Tc(FALSE, "", words, FALSE) /\ IsFiniteSet({<< >>})
      /\ << >> \in Seq(Nat)
  BY SingleFacts
<1>2. DOMAIN c = {<< >>} /\ c[<< >>] = TextCondition(FALSE, "", words, FALSE)
  BY SingleFacts
<1>3. WireNode(w[<< >>]) /\ w[<< >>].term = words /\ SameNode(c[<< >>], w[<< >>])
  <2> DEFINE n == c[<< >>]
             m == w[<< >>]
  <2>1. n = TextCondition(FALSE, "", words, FALSE) /\ m = Tc(FALSE, "", words, FALSE)
    BY <1>1, <1>2
  <2> HIDE DEF n, m
  <2>2. WireNode(m) /\ m.term = words /\ SameNode(n, m)
    BY <2>1, TextFacts
  <2> QED
    BY <2>2 DEF n, m
<1> HIDE DEF c
<1>4. Wire(w)
  BY <1>1, <1>3 DEF Wire
<1>5. Same(c, w)
  BY <1>1, <1>2, <1>3 DEF Same
<1> QED
  BY <1>3, <1>4, <1>5 DEF c

\* The service has conditions in JSON, and of the bot's no other than it makes.
Kept ==
    /\ \A id \in Exists : Wire(stored[id].cond)
    /\ \A id \in Exists \ Existing :
          /\ stored[id].description # ""
          /\ \E words \in 3..256 : stored[id].cond = Single(Tc(FALSE, "", words, FALSE))

\* A step which makes an interest makes the one a user has described.
Makes ==
    \E text \in DOMAIN SplitN, id \in Ids \ Exists :
        validateSubscriptionData(Described(text)) /\ Stores(Described(text), id)

\* No handler but CreateBasicReply makes interests.
LEMMA HandlersKeep ==
    /\ \A items : Sends(items) => UNCHANGED stored
    /\ \A res : Refuses(res) => UNCHANGED stored
    /\ \A id : Start(id) => UNCHANGED stored
    /\ \A id : Stop(id) => UNCHANGED stored
    /\ ListButtons => UNCHANGED stored
    /\ ListFollowing => UNCHANGED stored
    /\ \A args : StartHandler(args) => UNCHANGED stored
<1>1. /\ \A items : Sends(items) => UNCHANGED stored
      /\ \A res : Refuses(res) => UNCHANGED stored
      /\ \A id : Start(id) => UNCHANGED stored
  BY DEF Sends, Refuses, Start
<1>2. \A id : Stop(id) => UNCHANGED stored
  BY <1>1 DEF Stop
<1>3. ListButtons => UNCHANGED stored
  BY <1>1 DEF ListButtons
<1>4. ListFollowing => UNCHANGED stored
  BY <1>1 DEF ListFollowing
<1>5. ASSUME NEW args, StartHandler(args) PROVE UNCHANGED stored
  <2>1. \/ \E items : Sends(items)
        \/ \E id : Start(id)
        \/ \E res : Refuses(res)
    BY <1>5, Zenon DEF StartHandler
  <2> QED
    BY <1>1, <2>1
<1> QED
  BY <1>1, <1>2, <1>3, <1>4, <1>5

LEMMA CreateBasicReplyMakes ==
    ASSUME NEW text, CreateBasicReply(text)
    PROVE  UNCHANGED stored \/ Makes
<1>1. CASE Refuses("fewWords") \/ Refuses("invalid")
  BY <1>1, HandlersKeep
<1>2. CASE ~(Refuses("fewWords") \/ Refuses("invalid"))
  <2>1. text \in DOMAIN SplitN /\ validateSubscriptionData(Described(text))
    BY <1>2 DEF CreateBasicReply
  <2>2. PICK id \in Ids \cup {""}, ok \in BOOLEAN : Create(Described(text), id, ok)
    BY <1>2 DEF CreateBasicReply
  <2>3. UNCHANGED stored \/ \E new \in Ids \ Exists : Stores(Described(text), new)
    BY <2>2 DEF Create
  <2> QED
    BY <2>1, <2>3 DEF Makes
<1> QED
  BY <1>1, <1>2

LEMMA NextMakes ==
    ASSUME [Next]_vars
    PROVE  UNCHANGED stored \/ Makes
<1>1. ASSUME NEW name \in {"/start", "/interests", "/following", "/sub", "/pub", "/support"},
             Command(name)
      PROVE  UNCHANGED stored
  <2>1. ListButtons \/ ListFollowing \/ \E items : Sends(items)
    BY <1>1 DEF Command
  <2> QED
    BY <2>1, HandlersKeep
<1>2. ASSUME NEW id, NEW more, CommandStart(id, more)
      PROVE  UNCHANGED stored
  BY <1>2, HandlersKeep DEF CommandStart
<1>3. CASE TypeText
  BY <1>3, HandlersKeep DEF TypeText
<1>4. ASSUME NEW item, Press(item)
      PROVE  UNCHANGED stored
  <2> DEFINE args == Tail(item.words)
  <2>1. Handle(item.words[1], args)
    BY <1>4 DEF Press
  <2>2. \/ StartHandler(args) \/ Stop(args[1]) \/ ListButtons \/ ListFollowing
        \/ Refuses("unknown")
    BY <2>1, Zenon DEF Handle
  <2> QED
    BY <2>2, HandlersKeep
<1>5. ASSUME NEW item, NEW text, Reply(item, text)
      PROVE  UNCHANGED stored \/ Makes
  <2>1. \/ StartHandler(item.words \o <<text>>) \/ CreateBasicReply(text) \/ Sends({})
        \/ Refuses("unknown")
    BY <1>5, Zenon DEF Reply
  <2> QED
    BY <2>1, HandlersKeep, CreateBasicReplyMakes
<1>6. CASE UNCHANGED vars
  BY <1>6 DEF vars
<1> QED
  BY <1>1, <1>2, <1>3, <1>4, <1>5, <1>6 DEF Next

LEMMA InitKept == Init => Kept
<1> SUFFICES ASSUME Init PROVE Kept
  OBVIOUS
<1>1. Exists = Existing
  BY DEF Init, InterestsInit, Exists
<1>2. ASSUME NEW id \in Exists PROVE Wire(stored[id].cond)
  <2>1. PICK w \in Foreign : stored[id] = Interest("web", w)
    BY <1>1 DEF Init, InterestsInit
  <2> QED
    BY <2>1, InterestsAssumption DEF Interest
<1> QED
  BY <1>1, <1>2 DEF Kept

LEMMA NextKept == Kept /\ [Next]_vars => Kept'
<1> SUFFICES ASSUME Kept, [Next]_vars PROVE Kept'
  OBVIOUS
<1>1. CASE UNCHANGED stored
  BY <1>1 DEF Kept, Exists
<1>2. CASE Makes
  <2>1. PICK text \in DOMAIN SplitN, new \in Ids \ Exists :
          validateSubscriptionData(Described(text)) /\ Stores(Described(text), new)
    BY <1>2 DEF Makes
  <2> DEFINE words == SplitN[text].keywords
             made == stored'[new]
  <2>2. words \in Nat
    BY InterestsAssumption
  <2>3. /\ Described(text).description = SplitN[text].name
        /\ Described(text).cond = BuildTextCondition(words)
    BY DEF Described, Interest
  <2>4. Exists' = Exists \cup {new} /\ \A id \in Exists : stored'[id] = stored[id]
    BY <2>1, Zenon DEF Stores, Exists
  <2>5. made = Interest(Described(text).description, EncodeCondition(Described(text).cond))
    BY <2>1, Zenon DEF Stores
  <2>6. made.description # "" /\ words \in 3..256
        /\ made.cond = Single(Tc(FALSE, "", words, FALSE))
    <3> DEFINE interest == Described(text)
    <3>1. interest.description # "" /\ ValidCondition(interest.cond)
      BY <2>1 DEF validateSubscriptionData
    <3>2. made.description = interest.description /\ made.cond = EncodeCondition(interest.cond)
      BY <2>5 DEF Interest
    <3>3. interest.cond = BuildTextCondition(words)
      BY <2>3
    <3> HIDE DEF interest, made, words
    <3>4. /\ ValidCondition(interest.cond) => words \in 3..256
          /\ EncodeCondition(interest.cond) = Single(Tc(FALSE, "", words, FALSE))
      BY <2>2, <3>3, KeywordsFacts
    <3> QED
      BY <3>1, <3>2, <3>4
  <2>7. Wire(made.cond)
    BY <2>6, SingleText
  <2> HIDE DEF words, made
  <2>8. \A id \in Exists' : Wire(stored'[id].cond)
    BY <2>4, <2>7 DEF Kept, made
  <2>9. ASSUME NEW id \in Exists' \ Existing
        PROVE  /\ stored'[id].description # ""
               /\ \E k \in 3..256 : stored'[id].cond = Single(Tc(FALSE, "", k, FALSE))
    <3>1. CASE id = new
      BY <2>6, <3>1 DEF made
    <3>2. CASE id \in Exists
      BY <2>4, <2>9, <3>2 DEF Kept
    <3> QED
      BY <2>4, <3>1, <3>2
  <2> QED
    BY <2>8, <2>9 DEF Kept
<1> QED
  BY <1>1, <1>2, NextMakes

LEMMA KeptGives == Kept => ReadIsStored /\ MadeAsMeant
<1> SUFFICES ASSUME Kept PROVE ReadIsStored /\ MadeAsMeant
  OBVIOUS
<1>1. ReadIsStored
  BY ConditionsComeBack DEF Kept, ReadIsStored
<1>2. ASSUME NEW id \in Exists \ Existing
      PROVE  LET words == stored[id].cond[<< >>].term IN
             /\ words \in 3..256
             /\ Same(Single(TextCondition(FALSE, "", words, FALSE)), stored[id].cond)
  BY SingleText DEF Kept
<1> QED
  BY <1>1, <1>2 DEF Kept, MadeAsMeant

\* Whoever has made an interest, the bot reads its condition as it is stored, or gets the
\* error it must get (interests/service.go:258-378).
THEOREM ReadsWhatIsStored == Spec => []ReadIsStored
BY InitKept, NextKept, KeptGives, PTL DEF Spec

\* An interest the bot has made has a name, and selects the messages with any of keywords
\* which are neither too short nor too long, whether or not the bot has heard of its
\* creation (create.go:45-62, 109-152).
THEOREM MakesWhatIsMeant == Spec => []MadeAsMeant
BY InitKept, NextKept, KeptGives, PTL DEF Spec
=============================================================================
