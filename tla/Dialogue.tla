------------------------------ MODULE Dialogue ------------------------------
(***************************************************************************)
(* How the bot finds out what a user means (service/root.go, callback.go,  *)
(* the handlers main.go registers, and the requests of                     *)
(* service/subscriptions, service/messages and service/support).  Nothing  *)
(* of a dialogue is kept: the bot writes the name of a handler and its     *)
(* arguments into the text of a prompt or the data of a button, and splits *)
(* them at the spaces when the user replies to the prompt or presses the   *)
(* button, at any time later and any number of times.                      *)
(*                                                                         *)
(* A text is the sequence of its words.  Following and stopping an         *)
(* interest are single steps: Subscriptions has them in detail, and        *)
(* Listing has the pages of the lists.  Making and naming interests are    *)
(* calls of Interests.                                                     *)
(***************************************************************************)
EXTENDS Interests

CONSTANT
    MaxScreen       \* bound: with that many items the user types no more commands

ASSUME DialogueAssumption == MaxScreen \in Nat

\* What users reply: an interval, a negative one, one word, several words,
\* nothing (a photo has a caption and no text).
Texts == {"1h", "-1h", "word", ""} \cup DOMAIN SplitN

Intervals == {"1h"}

VARIABLES
    followed,       \* the interests followed in the chat
    screen,         \* the prompts and the buttons the user has got
    asked,          \* what the user did last: the words, and whether the reply
                    \* to them was an interval
    outcome         \* what came of it

vars == <<stored, followed, screen, asked, outcome>>

Item(kind, words) == [kind |-> kind, words |-> words]

Init ==
    /\ InterestsInit
    /\ followed = {}
    /\ screen = {}
    /\ asked = [kind |-> "nothing", words |-> << >>, interval |-> FALSE]
    /\ outcome = "ok"
-----------------------------------------------------------------------------
(* The handlers: what they send, what they change and the outcome.         *)

Ends(res, items) ==
    /\ outcome' = res
    /\ screen' = screen \cup items

Refuses(res) ==
    /\ Ends(res, {})
    /\ UNCHANGED <<stored, followed>>

\* Sending may fail, which is the outcome then.
Sends(items) ==
    /\ Ends("ok", items) \/ Ends("failure", {})
    /\ UNCHANGED <<stored, followed>>

\* Telegram trims the text of a message: a prompt for no id is a single word.
StartPrompt(id) ==
    Item("prompt", IF id = "" THEN <<"sub_start">> ELSE <<"sub_start", id>>)

\* Start replies whether or not it could subscribe: with the name of the
\* interest it follows now or, when that cannot be read, with its id.
Start(id) ==
    /\ \/ /\ followed' = followed \cup {id}
          /\ \E ok \in BOOLEAN : Read(id, ok) /\ Ends(IF ok THEN "named" ELSE "ok", {})
       \/ /\ UNCHANGED followed
          /\ Ends("ok", {})
    /\ UNCHANGED stored

\* An id asks for the interval; a command or the word of a prompt, an id and an
\* interval follow the interest.
StartHandler(args) ==
    CASE Len(args) = 1 -> Sends({StartPrompt(args[1])})
      [] Len(args) = 3 /\ args[3] \in Intervals -> Start(args[2])
      [] Len(args) = 3 /\ args[3] \notin Intervals -> Refuses("interval")
      [] OTHER -> Refuses("arity")

Stop(id) ==
    \/ /\ followed' = followed \ {id}
       /\ Ends("ok", {})
       /\ UNCHANGED stored
    \/ Refuses("failure")

\* The interests of a page are any of the existing ones.  Those which are
\* followed can be stopped, the others started.
ListButtons ==
    \E page \in SUBSET Exists :
        LET rows == {Item("button", IF id \in followed THEN <<"sub_stop", id>>
                                                       ELSE <<"sub_start", id>>) : id \in page}
        IN  \/ Sends(rows)
            \/ \E id \in page :
                 Sends(rows \cup {Item("button", <<"subs_next", "sub_start", id, "0">>)})

ListFollowing ==
    \E page \in SUBSET followed :
        LET rows == {Item("button", <<"sub_stop", id>>) : id \in page}
        IN  \/ Sends(rows)
            \/ \E id \in page : Sends(rows \cup {Item("button", <<"following_next", id>>)})

\* A name and keywords make an interest.  Its id is prompted for, none being
\* taken for an id too.
CreateBasicReply(text) ==
    \/ /\ text \notin DOMAIN SplitN
       /\ Refuses("fewWords")
    \/ /\ text \in DOMAIN SplitN
       /\ ~validateSubscriptionData(Described(text))
       /\ Refuses("invalid")
    \/ /\ text \in DOMAIN SplitN
       /\ validateSubscriptionData(Described(text))
       /\ \E id \in Ids \cup {""}, ok \in BOOLEAN :
            /\ Create(Described(text), id, ok)
            /\ \/ ok /\ Ends("ok", {StartPrompt(id)})
               \/ Ends("failure", {})
       /\ UNCHANGED followed
-----------------------------------------------------------------------------
(* What the user does.                                                     *)

Command(name) ==
    /\ Cardinality(screen) < MaxScreen
    /\ asked' = [kind |-> "command", words |-> <<name>>, interval |-> FALSE]
    /\ CASE name \in {"/start", "/interests"} -> ListButtons
         [] name = "/following" -> ListFollowing
         [] name = "/sub" -> Sends({Item("prompt", <<"sub_create">>)})
         [] name = "/pub" -> Sends({Item("prompt", <<"msg_pub">>)})
         [] name = "/support" -> Sends({Item("prompt", <<"support">>)})

\* "/start" typed with arguments: the command is the first one of them.
CommandStart(id, more) ==
    LET args == <<"/start", id>> \o more IN
    /\ asked' = [kind |-> "command", words |-> args, interval |-> FALSE]
    /\ StartHandler(args)

\* A text which is not a reply, or a reply to any other message of the bot.
TypeText ==
    /\ asked' = [kind |-> "text", words |-> <<"word">>, interval |-> FALSE]
    /\ Refuses("unknown")

\* Mutant of Handle: the button to start an interest follows it at once.
HandleAtOnce(cmd, args) ==
    CASE cmd = "sub_start" -> Start(args[1])
      [] cmd = "sub_stop" -> Stop(args[1])
      [] cmd = "subs_next" -> ListButtons
      [] cmd = "following_next" -> ListFollowing
      [] OTHER -> Refuses("unknown")

\* Callback hands the words over to the handler the first one names.
Handle(cmd, args) ==
    CASE cmd = "sub_start" -> StartHandler(args)
      [] cmd = "sub_stop" -> Stop(args[1])
      [] cmd = "subs_next" -> ListButtons
      [] cmd = "following_next" -> ListFollowing
      [] OTHER -> Refuses("unknown")

\* Mutant of Press: the name of the handler is left among the arguments.
PressWhole(item) ==
    /\ item.kind = "button"
    /\ asked' = [kind |-> item.kind, words |-> item.words, interval |-> FALSE]
    /\ Handle(item.words[1], item.words)

Press(item) ==
    /\ item.kind = "button"
    /\ asked' = [kind |-> item.kind, words |-> item.words, interval |-> FALSE]
    /\ Handle(item.words[1], Tail(item.words))

\* handleReply hands over all words of the prompt and the text as one argument.
Reply(item, text) ==
    /\ item.kind = "prompt"
    /\ asked' = [kind |-> item.kind, words |-> item.words, interval |-> text \in Intervals]
    /\ CASE item.words[1] = "sub_start" -> StartHandler(item.words \o <<text>>)
         [] item.words[1] = "sub_create" -> CreateBasicReply(text)
         [] item.words[1] = "msg_pub" -> Sends({})
         [] item.words[1] = "support" -> Sends({})
         [] OTHER -> Refuses("unknown")

Next ==
    \/ \E name \in {"/start", "/interests", "/following", "/sub", "/pub", "/support"} :
          Command(name)
    \/ \E id \in Ids, more \in {<< >>, <<"1h">>, <<"1h", "word">>} : CommandStart(id, more)
    \/ TypeText
    \/ \E item \in screen : Press(item)
    \/ \E item \in screen, text \in Texts : Reply(item, text)

Spec == Init /\ [][Next]_vars
-----------------------------------------------------------------------------
\* What the bot wrote into a prompt or a button, it understands when it comes
\* back, whenever that is and whatever has happened since: callback.go, root.go
\* and StartHandler never call the user's press or reply unknown or of a wrong
\* number of arguments.  (Not so for the prompt which has no id.)
UnderstoodByItself ==
    asked.kind \in {"prompt", "button"} /\ asked.words # <<"sub_start">>
        => outcome \notin {"unknown", "arity"}

\* An interest becomes followed in the chat only when the user has named it: with
\* the command, or by replying an interval to the prompt with its id, which is
\* what the exchange of button, prompt and reply is for (start.go:33-54).
FollowedWhenNamed ==
    [][\A id \in followed' \ followed :
          /\ asked'.kind \in {"command", "prompt"}
          /\ Len(asked'.words) >= 2
          /\ asked'.words[2] = id]_vars

\* start.go:59: "Reply a minimum notification interval to the command below": then
\* an interval replied to it has the right number of arguments.
IntervalIsTaken ==
    asked.kind = "prompt" /\ asked.words[1] = "sub_start" /\ asked.interval
        => outcome # "arity"

\* start.go:52: "expected 1-3 arguments": then two are not refused as a wrong number.
TwoArgumentsTaken ==
    asked.kind = "command" /\ Len(asked.words) = 2 => outcome # "arity"
=============================================================================
