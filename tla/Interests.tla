------------------------------ MODULE Interests ------------------------------
(***************************************************************************)
(* The interests service and the bot's client of it (api/http/interests):  *)
(* what Create and Read return for what the service answers and has        *)
(* stored, and the making of an interest out of a user's text              *)
(* (service/subscriptions/create.go).                                      *)
(***************************************************************************)
EXTENDS Conditions

CONSTANTS
    Ids,        \* ids of interests
    Existing,   \* the interests other clients have made
    Foreign,    \* the conditions they have, which need not be the bot's
    SplitN      \* the texts users reply which have a space: the name before the first
                \* one, and the length of the words after it

ASSUME InterestsAssumption ==
    /\ Existing \subseteq Ids
    /\ \A w \in Foreign : Wire(w)
    /\ \A text \in DOMAIN SplitN : SplitN[text].keywords \in Nat

VARIABLE stored     \* the service: the description and the condition by id

Exists == DOMAIN stored

Interest(description, cond) == [description |-> description, cond |-> cond]

InterestsInit == stored \in [Existing -> {Interest("web", c) : c \in Foreign}]
-----------------------------------------------------------------------------
\* The service stores what Create sends.
Stores(interest, id) ==
    stored' = [i \in Exists \cup {id} |->
                 IF i = id THEN Interest(interest.description, EncodeCondition(interest.cond))
                           ELSE stored[i]]

\* Create: the id and whether err is nil.  401, 400 and 429, what is no JSON and
\* a lost answer are errors, the last one maybe after the interest was stored.
\* With any other status, a JSON body counts as an interest without an id.
Create(interest, id, ok) ==
    \/ /\ ok
       /\ id \in Ids \ Exists
       /\ Stores(interest, id)
    \/ /\ ok
       /\ id = ""
       /\ UNCHANGED stored
    \/ /\ ~ok
       /\ id = ""
       /\ \/ UNCHANGED stored
          \/ \E lost \in Ids \ Exists : Stores(interest, lost)

\* Read: whether err is nil.  It is not if the interest is gone, is not the
\* user's, or has a condition which cannot be decoded, or if anything fails.
Read(id, ok) ==
    ok => id \in Exists /\ DecodeCondition(stored[id].cond).ok
-----------------------------------------------------------------------------
(* CreateBasicReplyHandlerFunc.                                            *)

\* The interest the text describes, and what validateSubscriptionData says of it.
Described(text) ==
    Interest(SplitN[text].name, BuildTextCondition(SplitN[text].keywords))
validateSubscriptionData(interest) ==
    interest.description # "" /\ ValidCondition(interest.cond)
-----------------------------------------------------------------------------
\* What the service has stored is what Read returns, whoever made it and however
\* deep its condition is, and what Create would send back, the error being left
\* to conditions with a part of an unknown kind (interests/service.go:258-378).
ReadIsStored ==
    \A id \in Exists :
        LET read == DecodeCondition(stored[id].cond) IN
        /\ read.ok <=> Known(stored[id].cond)
        /\ read.ok => /\ Same(read.cond, stored[id].cond)
                      /\ Same(read.cond, EncodeCondition(read.cond))

\* Whatever the user replies, and whether or not the answer reached the bot, an
\* interest the bot has made has a name and selects the messages with any of
\* its keywords, which are neither too short for the service nor too long
\* (create.go:45-62, 109-152).
MadeAsMeant ==
    \A id \in Exists \ Existing :
        /\ stored[id].description # ""
        /\ LET words == stored[id].cond[<< >>].term IN
           /\ words \in 3..256
           /\ Same(Single(TextCondition(FALSE, "", words, FALSE)), stored[id].cond)
=============================================================================
