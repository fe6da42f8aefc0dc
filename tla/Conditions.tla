----------------------------- MODULE Conditions -----------------------------
(***************************************************************************)
(* The conditions of interests (model/interest/condition), what the bot    *)
(* accepts of them (service/subscriptions/create.go) and their conversion  *)
(* to the JSON of the interests service and back (api/http/interests).     *)
(*                                                                         *)
(* A condition is a tree: the node at each place, a place being the way to *)
(* it from the top, as the sequence of the positions in the groups.  In    *)
(* the program a node has the kind of its Go type and its operators are    *)
(* the numbers of iota; in the JSON it has the field which is set, none    *)
(* when it is one this version does not know, and operators are the names  *)
(* of api.proto.  A term is its length in bytes.                           *)
(***************************************************************************)
EXTENDS Integers, Sequences, FiniteSets

Parent(place) == SubSeq(place, 1, Len(place) - 1)

\* The places of the members of a group.
Group(tree, place) == {p \in DOMAIN tree : p # << >> /\ Parent(p) = place}

\* A condition which is no group.
Single(node) == [place \in {<< >>} |-> node]

\* What the program finds out on its way down a condition, through the members of
\* each group: whether the nodes are good at all the places it gets to.
Throughout(tree, good) ==
    LET all[place \in DOMAIN tree] ==
            good[place] /\ \A p \in Group(tree, place) : all[p]
    IN  all[<< >>]
-----------------------------------------------------------------------------
(* The program's side: model/interest/condition.                           *)

\* The String methods of GroupLogic and NumOp: the numbers count from 0.
GroupLogicString(logic) == <<"And", "Or", "Xor">>[logic + 1]
NumOpString(op) == <<"Undefined", "Gt", "Gte", "Eq", "Lte", "Lt">>[op + 1]

GroupLogicOr == 1

\* The constructors.  There is no id of a text or of a number.
GroupCondition(not, logic) == [kind |-> "group", not |-> not, logic |-> logic]
TextCondition(not, key, term, exact) ==
    [kind |-> "text", not |-> not, key |-> key, term |-> term, exact |-> exact]
SemanticCondition(not, id, query) ==
    [kind |-> "semantic", not |-> not, id |-> id, query |-> query]
NumberCondition(not, key, op, val) ==
    [kind |-> "number", not |-> not, key |-> key, op |-> op, val |-> val]

\* NewBuilder().AnyOfWords(words).BuildTextCondition()
BuildTextCondition(words) == Single(TextCondition(FALSE, "", words, FALSE))
-----------------------------------------------------------------------------
(* validateCondition.                                                      *)

limitGroupOrCondChildrenCount == 4

\* Mutant of ValidLength: both limits are off by one.
ValidLengthBelow(term) == 3 < term /\ term <= 257

ValidLength(term) == 3 <= term /\ term <= 256

ValidNode(c, place) ==
    CASE c[place].kind = "group" ->
           c[place].logic = GroupLogicOr
             => Cardinality(Group(c, place)) <= limitGroupOrCondChildrenCount
      [] c[place].kind = "text" -> ValidLength(c[place].term)
      [] OTHER -> TRUE
ValidCondition(c) == Throughout(c, [place \in DOMAIN c |-> ValidNode(c, place)])
-----------------------------------------------------------------------------
(* The service's side: api.proto.                                          *)

Operations == {"Undefined", "Gt", "Gte", "Eq", "Lte", "Lt"}

\* The enums of api.proto by their numbers, for the casts.
Operation_name(n) == <<"Undefined", "Gt", "Gte", "Eq", "Lte", "Lt">>[n + 1]
GroupLogic_name(n) == <<"And", "Or", "Xor">>[n + 1]
GroupLogic_value(name) == CHOOSE n \in 0..2 : GroupLogic_name(n) = name

Gc(not, logic) == [field |-> "gc", not |-> not, logic |-> logic]
Tc(not, key, term, exact) ==
    [field |-> "tc", not |-> not, key |-> key, term |-> term, exact |-> exact]
Sc(not, id, query) == [field |-> "sc", not |-> not, id |-> id, query |-> query]
Nc(not, key, op, val) == [field |-> "nc", not |-> not, key |-> key, op |-> op, val |-> val]
Unset(not) == [field |-> "none", not |-> not]

\* The conditions there can be in JSON: finite, only groups have members.
WireNode(node) ==
    /\ node.field \in {"gc", "tc", "sc", "nc", "none"}
    /\ node.field = "gc" => node.logic \in {GroupLogic_name(n) : n \in 0..2}
    /\ node.field = "nc" => node.op \in Operations
Wire(w) ==
    /\ IsFiniteSet(DOMAIN w)
    /\ << >> \in DOMAIN w
    /\ \A place \in DOMAIN w :
          /\ place \in Seq(Nat)
          /\ WireNode(w[place])
          /\ place # << >> => Parent(place) \in DOMAIN w /\ w[Parent(place)].field = "gc"
-----------------------------------------------------------------------------
\* NumOpGt..NumOpLt are 1..5; any other number is Undefined.
EncodeNumOp(op) == IF op \in 1..5 THEN NumOpString(op) ELSE "Undefined"

\* Mutant of DecodeNumOp: two of the cases are swapped.
DecodeNumOpSwapped(name) ==
    CASE name = "Gt" -> 1 [] name = "Gte" -> 2 [] name = "Eq" -> 3
      [] name = "Lte" -> 5 [] name = "Lt" -> 4 [] OTHER -> 0

DecodeNumOp(name) ==
    CASE name = "Gt" -> 1 [] name = "Gte" -> 2 [] name = "Eq" -> 3
      [] name = "Lte" -> 4 [] name = "Lt" -> 5 [] OTHER -> 0

\* encodeCondition.  The id of a semantic condition is not sent.
EncodeNode(node) ==
    CASE node.kind = "group" -> Gc(node.not, GroupLogic_name(node.logic))
      [] node.kind = "text" -> Tc(node.not, node.key, node.term, node.exact)
      [] node.kind = "semantic" -> Sc(node.not, "", node.query)
      [] node.kind = "number" -> Nc(node.not, node.key, EncodeNumOp(node.op), node.val)
EncodeCondition(c) == [place \in DOMAIN c |-> EncodeNode(c[place])]

Failed == [ok |-> FALSE]
Decoded(c) == [ok |-> TRUE, cond |-> c]

\* decodeCondition: the first member which cannot be decoded fails the group.
DecodeNode(node) ==
    CASE node.field = "gc" -> Decoded(GroupCondition(node.not, GroupLogic_value(node.logic)))
      [] node.field = "nc" ->
           Decoded(NumberCondition(node.not, node.key, DecodeNumOp(node.op), node.val))
      [] node.field = "sc" -> Decoded(SemanticCondition(node.not, node.id, node.query))
      [] node.field = "tc" -> Decoded(TextCondition(node.not, node.key, node.term, node.exact))
      [] OTHER -> Failed
DecodeCondition(w) ==
    IF Throughout(w, [place \in DOMAIN w |-> DecodeNode(w[place]).ok])
      THEN Decoded([place \in DOMAIN w |-> DecodeNode(w[place]).cond])
      ELSE Failed
-----------------------------------------------------------------------------
(* The reference: when a condition of the program and one of the service   *)
(* select the same messages.                                               *)

SameNode(n, m) ==
    /\ n.not = m.not
    /\ \/ /\ n.kind = "group" /\ m.field = "gc"
          /\ GroupLogicString(n.logic) = m.logic
       \/ /\ n.kind = "text" /\ m.field = "tc"
          /\ <<n.key, n.term, n.exact>> = <<m.key, m.term, m.exact>>
       \/ /\ n.kind = "semantic" /\ m.field = "sc"
          /\ n.query = m.query
       \/ /\ n.kind = "number" /\ m.field = "nc"
          /\ <<n.key, NumOpString(n.op), n.val>> = <<m.key, m.op, m.val>>
Same(c, w) ==
    /\ DOMAIN c = DOMAIN w
    /\ \A place \in DOMAIN c : SameNode(c[place], w[place])

\* Every part of the condition is of a kind this version knows.
Known(w) == \A place \in DOMAIN w : w[place].field # "none"
=============================================================================
