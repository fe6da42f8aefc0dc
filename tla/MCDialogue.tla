----------------------------- MODULE MCDialogue -----------------------------
(***************************************************************************)
(* An instance of Dialogue for TLC.  Other clients of the service have     *)
(* made interests too, with conditions the bot never makes, some of them   *)
(* of kinds it does not know.                                              *)
(***************************************************************************)
EXTENDS Dialogue

\* A group with the given members.
Of(node, members) ==
    [place \in {<< >>} \cup UNION {{<<i>> \o p : p \in DOMAIN members[i]} : i \in DOMAIN members} |->
       IF place = << >> THEN node ELSE members[Head(place)][Tail(place)]]

\* Conditions of other clients: one with every kind, logic and operation there
\* is, and one which has a part of a new kind.
Numbers == [i \in 1..6 |-> Single(Nc(i = 3, "price", Operation_name(i - 1), i))]
Terms == <<Single(Tc(TRUE, "title", 300, TRUE)), Single(Sc(FALSE, "s1", "query"))>>
Mixed ==
    Of(Gc(FALSE, "Or"),
       <<Of(Gc(TRUE, "And"), Numbers), Of(Gc(FALSE, "Xor"), Terms), Of(Gc(FALSE, "And"), << >>)>>)
Newer == Of(Gc(FALSE, "And"), <<Single(Tc(FALSE, "", 5, FALSE)), Single(Unset(FALSE))>>)

ForeignConditions == {Mixed, Newer}

\* Keywords of the lengths next to both limits, and no name.
Replies ==
    [t \in {"name ab", "name abc", "name words", "name too many words", " words"} |->
       CASE t = "name ab" -> [name |-> "name", keywords |-> 2]
         [] t = "name abc" -> [name |-> "name", keywords |-> 3]
         [] t = "name words" -> [name |-> "name", keywords |-> 256]
         [] t = "name too many words" -> [name |-> "name", keywords |-> 257]
         [] t = " words" -> [name |-> "", keywords |-> 5]]
=============================================================================
