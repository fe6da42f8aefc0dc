----------------------------- MODULE Truncation -----------------------------
(***************************************************************************)
(* truncateStringUtf8 (service/messages/format.go) cuts a text to a number *)
(* of bytes without cutting through a UTF-8 character.  A byte is modelled *)
(* by whether a character starts with it or is continued by it; a text is  *)
(* trimmed already.  Bytes count from 1 here and from 0 in the code.       *)
(***************************************************************************)
EXTENDS Integers, Sequences

CONSTANTS
    LenMax,         \* the maximal length, in bytes
    Source          \* bound: texts have at most this many bytes

ASSUME TruncationAssumption ==
    /\ LenMax \in Nat
    /\ LenMax >= 7
    /\ Source \in Nat

Bytes == {"start", "cont"}
Dots == <<"start", "start", "start">>

\* A text of whole characters of at most four bytes each.
Utf8(s) ==
    /\ s \in Seq(Bytes)
    /\ s # <<>> => s[1] = "start"
    /\ \A k \in 1..(Len(s) - 3) :
           \E i \in 0..3 : s[k + i] = "start"

VARIABLES text, cut, done

textVars == <<text, cut, done>>

TruncationInit ==
    /\ text \in UNION {[1..n -> Bytes] : n \in 0..Source}
    /\ Utf8(text)
    /\ cut = <<>>
    /\ done = FALSE

\* Mutant of Truncate: the byte looked at is the last one kept.
TruncateLastKept(s) ==
    IF Len(s) <= LenMax
      THEN s
      ELSE LET starts == {i \in 1..(LenMax - 3) : s[i] = "start"}
               last == CHOOSE i \in starts : \A j \in starts : j <= i
           IN IF starts = {} THEN <<>> ELSE SubSeq(s, 1, last) \o Dots

\* Mutant of Truncate: the dots are not counted.
TruncateDotsExtra(s) ==
    IF Len(s) <= LenMax
      THEN s
      ELSE LET starts == {i \in 1..LenMax : s[i + 1] = "start"}
               last == CHOOSE i \in starts : \A j \in starts : j <= i
           IN IF starts = {} THEN <<>> ELSE SubSeq(s, 1, last) \o Dots

\* The loop from LenMax - 3 down ends at the first i such that a character
\* starts after the first i bytes.
Truncate(s) ==
    IF Len(s) <= LenMax
      THEN s
      ELSE LET starts == {i \in 1..(LenMax - 3) : s[i + 1] = "start"}
               last == CHOOSE i \in starts : \A j \in starts : j <= i
           IN IF starts = {} THEN <<>> ELSE SubSeq(s, 1, last) \o Dots

truncateStringUtf8 ==
    /\ ~done
    /\ cut' = Truncate(text)
    /\ done' = TRUE
    /\ UNCHANGED text

TruncationSpec == TruncationInit /\ [][truncateStringUtf8]_textVars
-----------------------------------------------------------------------------
\* s is the first i bytes of t and dots, and the rest of t is whole characters.
CutAt(s, t, i) ==
    /\ s = SubSeq(t, 1, i) \o Dots
    /\ t[i + 1] = "start"

\* The result is never longer than the limit, in bytes.
WithinLimit == Len(cut) <= LenMax

\* A short text is left alone.  A long one is cut between two characters, and
\* at most three bytes earlier than it had to be.
CutBetweenCharacters ==
    done =>
        IF Len(text) <= LenMax
          THEN cut = text
          ELSE \E i \in (LenMax - 6)..(LenMax - 3) : CutAt(cut, text, i)
=============================================================================
