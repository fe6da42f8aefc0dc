-------------------------- MODULE ConversionProofs --------------------------
(***************************************************************************)
(* Proofs about the conversion of messages: about Messages, for messages   *)
(* of any length and a footer of any length, and about Truncation, for     *)
(* every text of whole characters and every limit.                         *)
(***************************************************************************)
EXTENDS Messages, Truncation, SequenceTheorems, TLAPS

\* A footer which leaves room for what is kept of a text of another source.  The
\* plain modes cut the address of the origin (format.go:176-184); the rest of the
\* footer are two fixed addresses and two ids.
FooterFits == PlainFooter + Cut + 8 * 64 <= TextMax

\* The event is the one made of the message, or comes from another source.  What is
\* posted was converted from it in one of the modes, and what is skipped was refused
\* in the raw mode, unless the call failed.
Inv ==
    /\ pc \in {"new", "posted", "skipped", "stopped"} \cup Modes
    /\ pc = "new" => msg = NoMessage
    /\ msg # NoMessage => msg \in TelegramMessages /\ evt = ToCloudEvent(msg)
    /\ pc # "new" => evt \in ForeignEvents \/ evt = ToCloudEvent(msg)
    /\ pc = "posted" => \E mode \in Modes : out = Convert(evt, mode)
    /\ pc = "skipped" /\ ~failed => Refused(Convert(evt, "raw"), "raw")
-----------------------------------------------------------------------------
(* What the conversions keep.                                                *)

\* A size has natural numbers, and is of no text if the first one is zero.
LEMMA SizeFacts ==
    ASSUME NEW s \in Sizes \cup {NoText}
    PROVE  s.length \in Nat /\ s.extra \in Nat /\ (s.length > 0 \/ s = NoText)
<1>1. CASE s = NoText
  BY <1>1 DEF NoText
<1>2. CASE s \in Sizes
  <2>0. Lengths \subseteq Nat /\ Extras \subseteq Nat
    <3>1. \A n \in 0..TextMax : n \in Nat
      BY DEF TextMax
    <3> QED
      BY <3>1, MessagesAssumption
  <2>1. s.length \in Nat /\ s.extra \in Nat /\ s.extra <= 4 * s.length
        /\ s = [length |-> s.length, extra |-> s.extra]
    BY <1>2, <2>0 DEF Sizes
  <2>2. s.length = 0 => s.extra = 0
    BY <2>1
  <2> QED
    BY <2>1, <2>2 DEF NoText
<1> QED
  BY <1>1, <1>2

\* The text of a message is shown in every mode, as a text or as a caption.
LEMMA TextIsConverted ==
    ASSUME NEW m \in TelegramMessages, m.text # NoText, NEW mode
    PROVE  "text" \in DOMAIN Convert(ToCloudEvent(m), mode).parts
<1> DEFINE e == ToCloudEvent(m)
<1>1. "text" \in DOMAIN e.fields /\ e.size["text"] = m.text
  BY DEF ToCloudEvent, TextOf, Parts
<1>2. m.text.length > 0
  BY SizeFacts DEF TelegramMessages
<1>3. PartOf("text") = "text"
  BY DEF PartOf, HeadFields
<1> HIDE DEF e
<1>4. ASSUME NEW attrs PROVE "text" \in DOMAIN Body(e, mode, attrs)
  BY <1>1, <1>2, <1>3 DEF Body
<1>5. Convert(e, mode).parts = Body(e, mode, ~Attached(e, mode))
  BY DEF Convert
<1> QED
  BY <1>4, <1>5 DEF e

\* A message is converted to a message of its own kind, or to a text.
LEMMA KindIsConverted ==
    ASSUME NEW m \in TelegramMessages, NEW mode
    PROVE  Convert(ToCloudEvent(m), mode).kind \in {"text", m.kind}
BY DEF Convert, Attached, ToCloudEvent, FileOf, FileKinds

\* No mode counts more characters than there are with all entities in full.
LEMMA UncutFits ==
    ASSUME NEW e, \A p \in Parts : e.size[p] \in Sizes \cup {NoText}, NEW mode, NEW shown
    PROVE  /\ Uncut(e, mode, shown) \in Nat
           /\ Uncut(e, mode, shown) + Tags(e) + PlainFooter <= RawLength(e)
<1> DEFINE full(p) == e.size[p].length + e.size[p].extra
<1>1. ASSUME NEW p \in Parts
      PROVE  /\ Count(e, mode, shown, p) \in Nat /\ full(p) \in Nat
             /\ Count(e, mode, shown, p) <= full(p)
  <2>1. e.size[p].length \in Nat /\ e.size[p].extra \in Nat
    BY SizeFacts
  <2> QED
    BY <2>1 DEF Count
<1>2. "head" \in Parts /\ "text" \in Parts /\ "name" \in Parts
  BY DEF Parts
<1>3. Tags(e) \in Nat /\ PlainFooter \in Nat
  BY MessagesAssumption DEF Tags
<1>4. RawLength(e) = full("head") + full("text") + full("name") + Tags(e) + PlainFooter
  BY DEF RawLength
<1>5. Uncut(e, mode, shown) =
        Count(e, mode, shown, "head") + Count(e, mode, shown, "text") + Count(e, mode, shown, "name")
  BY DEF Uncut
<1> HIDE DEF full
<1> QED
  BY <1>1, <1>2, <1>3, <1>4, <1>5

\* In the raw mode a message is refused for the length of its text only, and only if
\* it is not cut.
LEMMA RawIsRefusedForLength ==
    ASSUME FooterFits, NEW e, \A p \in Parts : e.size[p] \in Sizes \cup {NoText},
           e.tg \in BOOLEAN, Refused(Convert(e, "raw"), "raw")
    PROVE  e.tg /\ RawLength(e) > TextMax
<1> DEFINE shown == Body(e, "raw", TRUE)
           content == IF e.tg THEN Uncut(e, "raw", shown) ELSE Cut
<1>1. Convert(e, "raw").kind = "text" /\ Convert(e, "raw").length = content + Tags(e) + PlainFooter
  BY DEF Convert, Attached, Footer
<1>2. content + Tags(e) + PlainFooter > TextMax
  BY <1>1 DEF Refused
<1>3. Tags(e) \in Nat /\ Tags(e) <= 8 * 64 /\ PlainFooter \in Nat /\ RawLength(e) \in Int
  <2>1. \A p \in Parts : e.size[p].length \in Nat /\ e.size[p].extra \in Nat
    BY SizeFacts
  <2> QED
    BY <2>1, MessagesAssumption DEF Tags, RawLength, Parts
<1>4. e.tg
  <2>1. ASSUME ~e.tg PROVE FALSE
    <3>1. content = Cut
      BY <2>1
    <3>2. Cut + Tags(e) + PlainFooter > TextMax
      BY <1>2, <3>1
    <3> QED
      BY <1>3, <3>2 DEF FooterFits, Cut, TextMax
  <2> QED
    BY <2>1
<1>5. /\ Uncut(e, "raw", shown) \in Nat
      /\ Uncut(e, "raw", shown) + Tags(e) + PlainFooter <= RawLength(e)
  BY UncutFits
<1> HIDE DEF shown
<1> QED
  BY <1>2, <1>3, <1>4, <1>5 DEF TextMax
-----------------------------------------------------------------------------
LEMMA InitInv == Init => Inv
BY DEF Init, Inv

LEMMA PublishInv == Inv /\ Publish => Inv'
<1> SUFFICES ASSUME Publish PROVE Inv'
  OBVIOUS
<1>1. PICK m \in TelegramMessages : msg' = m /\ evt' = ToCloudEvent(m)
  BY DEF Publish
<1> QED
  BY <1>1 DEF Publish, Inv, Modes

LEMMA ReceiveInv == Inv /\ Receive => Inv'
BY DEF Receive, Inv, Modes

LEMMA SendInv == Inv /\ Send => Inv'
<1> SUFFICES ASSUME Inv, Send PROVE Inv'
  OBVIOUS
<1>1. pc \in Modes /\ pc # "new" /\ out' = Convert(evt, pc) /\ msg' = msg /\ evt' = evt
  BY DEF Send, Modes
<1>2. pc' \in {"plain", "raw", "posted", "skipped", "stopped"} /\ (pc' = "skipped" => pc = "raw")
  BY <1>1 DEF Send, FallBack, Modes
<1>3. CASE pc' = "posted"
  BY <1>1, <1>3 DEF Inv
<1>4. CASE pc' # "posted"
  <2>1. pc' = "skipped" /\ ~failed' => MayRefuse(Convert(evt, pc), pc)
    BY <1>1, <1>4 DEF Send
  <2>2. pc = "raw" => Convert(evt, pc).kind = "text"
    BY DEF Convert, Attached
  <2>3. pc' = "skipped" /\ ~failed' => Refused(Convert(evt, "raw"), "raw")
    BY <1>2, <2>1, <2>2 DEF MayRefuse
  <2> QED
    BY <1>1, <1>2, <1>4, <2>3 DEF Inv, Modes
<1> QED
  BY <1>3, <1>4

\* The invariant holds in every instance.
LEMMA Invariance == Spec => []Inv
<1>1. Inv /\ [Next]_vars => Inv'
  <2>1. Inv /\ UNCHANGED vars => Inv'
    BY DEF Inv, vars
  <2> QED
    BY <2>1, PublishInv, ReceiveInv, SendInv DEF Next
<1> QED
  BY <1>1, InitInv, PTL DEF Spec

\* The text of a Telegram message comes back, whichever of the three modes gets
\* through (publish.go:74-186, format.go:35-101).
THEOREM TextComesBack == Spec => []TextSurvives
<1>1. Inv => TextSurvives
  <2> SUFFICES ASSUME Inv, pc = "posted", msg.text # NoText
               PROVE  "text" \in DOMAIN out.parts
    BY DEF TextSurvives
  <2>1. msg # NoMessage
    BY DEF NoMessage
  <2>2. PICK mode \in Modes : out = Convert(ToCloudEvent(msg), mode)
    BY <2>1 DEF Inv
  <2> QED
    BY <2>1, <2>2, TextIsConverted DEF Inv
<1> QED
  BY <1>1, Invariance, PTL

\* A file comes back as a file of the same kind or as a text, a text as a text
\* (publish.go:74-186, format.go:35-83).
THEOREM KindComesBack == Spec => []SameKind
<1>1. Inv => SameKind
  BY KindIsConverted DEF Inv, SameKind
<1> QED
  BY <1>1, Invariance, PTL

\* An event whose calls do not fail for reasons of their own is skipped for the
\* length of its text only, entities included, and only if it has the id of a
\* Telegram message: the raw mode is refused for nothing else, and what comes from
\* any other source is cut (handler.go:181-231, format.go:35-83).
THEOREM OnlyLengthIsSkipped ==
    ASSUME FooterFits
    PROVE  Spec => []SkippedForLength
<1>1. Inv => SkippedForLength
  <2> SUFFICES ASSUME Inv, pc = "skipped", ~failed
               PROVE  evt.tg /\ RawLength(evt) > TextMax
    BY DEF SkippedForLength
  <2>1. Refused(Convert(evt, "raw"), "raw")
    BY DEF Inv
  <2>2. evt.tg \in BOOLEAN /\ \A p \in Parts : evt.size[p] \in Sizes \cup {NoText}
    <3>1. CASE evt \in ForeignEvents
      BY <3>1 DEF ForeignEvents
    <3>2. CASE evt = ToCloudEvent(msg)
      <4>1. msg.text \in Sizes \cup {NoText}
        BY DEF Inv, TelegramMessages, NoMessage
      <4> QED
        BY <3>2, <4>1 DEF ToCloudEvent
    <3> QED
      BY <3>1, <3>2 DEF Inv
  <2> QED
    BY <2>1, <2>2, RawIsRefusedForLength
<1> QED
  BY <1>1, Invariance, PTL
-----------------------------------------------------------------------------
(* Where a text is cut.                                                      *)

USE TruncationAssumption

\* The bytes i after which a text may be cut.
Starts(s) == {i \in 1..(LenMax - 3) : s[i + 1] = "start"}

\* Of four bytes in a row one starts a character, so the loop ends within its
\* first four steps: there is a greatest place to cut.
LEMMA GreatestStart ==
    ASSUME NEW s, Utf8(s), Len(s) > LenMax
    PROVE  \E i \in (LenMax - 6)..(LenMax - 3) :
              i \in Starts(s) /\ \A j \in Starts(s) : j <= i
<1> DEFINE m == LenMax - 3
<1>1. Len(s) \in Nat /\ m \in Nat /\ m >= 4 /\ m - 2 \in 1..(Len(s) - 3)
  BY DEF Utf8, TruncationAssumption
<1>2. PICK k \in 0..3 : s[(m - 2) + k] = "start"
  BY <1>1 DEF Utf8
<1>3. (m - 3) + k \in 1..m /\ ((m - 3) + k) + 1 = (m - 2) + k
  BY <1>1
<1>4. (m - 3) + k \in Starts(s)
  BY <1>2, <1>3 DEF Starts
<1>5. \/ m \in Starts(s)
      \/ m \notin Starts(s) /\ m - 1 \in Starts(s)
      \/ m \notin Starts(s) /\ m - 1 \notin Starts(s) /\ m - 2 \in Starts(s)
      \/ /\ m \notin Starts(s) /\ m - 1 \notin Starts(s) /\ m - 2 \notin Starts(s)
         /\ m - 3 \in Starts(s)
  <2>1. k = 0 \/ k = 1 \/ k = 2 \/ k = 3
    OBVIOUS
  <2>2. (m - 3) + 0 = m - 3 /\ (m - 3) + 1 = m - 2 /\ (m - 3) + 2 = m - 1 /\ (m - 3) + 3 = m
    BY <1>1
  <2> QED
    BY <1>4, <2>1, <2>2
<1>6. \A j \in Starts(s) : j \in Int /\ j <= m
  BY <1>1 DEF Starts
<1> QED
  BY <1>1, <1>5, <1>6 DEF TruncationAssumption

\* A text longer than the limit is cut after the greatest of those bytes.
LEMMA TruncateCuts ==
    ASSUME NEW s, Utf8(s), Len(s) > LenMax
    PROVE  \E i \in (LenMax - 6)..(LenMax - 3) : CutAt(Truncate(s), s, i)
<1> DEFINE last == CHOOSE i \in Starts(s) : \A j \in Starts(s) : j <= i
<1>1. PICK i \in (LenMax - 6)..(LenMax - 3) :
          i \in Starts(s) /\ \A j \in Starts(s) : j <= i
  BY GreatestStart
<1>2. last \in Starts(s) /\ \A j \in Starts(s) : j <= last
  BY <1>1
<1>3. last = i
  <2> HIDE DEF last
  <2>1. last \in Int /\ i \in Int
    BY <1>2 DEF Starts, TruncationAssumption
  <2>2. last <= i /\ i <= last
    BY <1>1, <1>2
  <2> QED
    BY <2>1, <2>2
<1>4. ~(Len(s) <= LenMax)
  BY DEF Utf8, TruncationAssumption
<1>5. Truncate(s) = SubSeq(s, 1, last) \o Dots
  BY <1>1, <1>4 DEF Truncate, Starts
<1> QED
  BY <1>1, <1>3, <1>5 DEF CutAt, Starts

\* What is cut so fits into the limit.
LEMMA CutFits ==
    ASSUME NEW s, Utf8(s), Len(s) > LenMax,
           NEW t, NEW i \in (LenMax - 6)..(LenMax - 3), CutAt(t, s, i)
    PROVE  Len(t) <= LenMax
<1>1. i \in 1..Len(s) /\ i \in Nat
  BY DEF Utf8, TruncationAssumption
<1>2. SubSeq(s, 1, i) \in Seq(Bytes) /\ Len(SubSeq(s, 1, i)) = i
  BY <1>1 DEF Utf8
<1>3. Dots \in Seq(Bytes) /\ Len(Dots) = 3
  BY DEF Dots, Bytes
<1>4. t = SubSeq(s, 1, i) \o Dots
  BY DEF CutAt
<1>5. Len(SubSeq(s, 1, i) \o Dots) = Len(SubSeq(s, 1, i)) + Len(Dots)
  BY <1>2, <1>3, ConcatProperties
<1>6. Len(t) = i + 3
  BY <1>2, <1>3, <1>4, <1>5
<1> QED
  BY <1>6 DEF TruncationAssumption

\* The text stays what it was, and the result is what Truncate makes of it.
TruncationInv ==
    /\ Utf8(text)
    /\ cut = IF done THEN Truncate(text) ELSE <<>>
    /\ done \in BOOLEAN

\* TruncationInv holds in every reachable state.
LEMMA TruncationInvariance == TruncationSpec => []TruncationInv
<1>1. TruncationInit => TruncationInv
  BY DEF TruncationInit, TruncationInv
<1>2. TruncationInv /\ [truncateStringUtf8]_textVars => TruncationInv'
  <2> SUFFICES ASSUME TruncationInv, [truncateStringUtf8]_textVars PROVE TruncationInv'
    OBVIOUS
  <2>1. text' = text /\ Utf8(text)'
    BY DEF TruncationInv, truncateStringUtf8, textVars, Utf8
  <2>2. CASE truncateStringUtf8
    <3>1. Truncate(text)' = Truncate(text)
      BY <2>1 DEF Truncate
    <3> QED
      BY <2>1, <2>2, <3>1 DEF TruncationInv, truncateStringUtf8
  <2>3. CASE UNCHANGED textVars
    <3>1. Truncate(text)' = Truncate(text)
      BY <2>1 DEF Truncate
    <3> QED
      BY <2>1, <2>3, <3>1 DEF TruncationInv, textVars
  <2> QED
    BY <2>2, <2>3
<1> QED
  BY <1>1, <1>2, PTL DEF TruncationSpec

\* truncateStringUtf8 cuts between two characters, at most three bytes earlier
\* than it had to.
THEOREM CutsBetweenCharacters == TruncationSpec => []CutBetweenCharacters
<1>1. TruncationInv => CutBetweenCharacters
  <2> SUFFICES ASSUME TruncationInv, done PROVE IF Len(text) <= LenMax
          THEN cut = text
          ELSE \E i \in (LenMax - 6)..(LenMax - 3) : CutAt(cut, text, i)
    BY DEF CutBetweenCharacters
  <2>1. cut = Truncate(text)
    BY DEF TruncationInv
  <2>2. CASE Len(text) <= LenMax
    BY <2>1, <2>2 DEF Truncate
  <2>3. CASE ~(Len(text) <= LenMax)
    <3>1. Len(text) > LenMax
      BY <2>3 DEF TruncationInv, Utf8, TruncationAssumption
    <3> QED
      BY <2>1, <2>3, <3>1, TruncateCuts DEF TruncationInv
  <2> QED
    BY <2>2, <2>3
<1> QED
  BY <1>1, TruncationInvariance, PTL

\* The result of truncateStringUtf8 is never longer than its limit.
THEOREM StaysWithinLimit == TruncationSpec => []WithinLimit
<1>1. TruncationInv => WithinLimit
  <2> SUFFICES ASSUME TruncationInv PROVE Len(cut) <= LenMax
    BY DEF WithinLimit
  <2>1. CASE ~done
    BY <2>1 DEF TruncationInv, TruncationAssumption
  <2>2. CASE done /\ Len(text) <= LenMax
    BY <2>2 DEF TruncationInv, Truncate
  <2>3. CASE done /\ ~(Len(text) <= LenMax)
    <3>1. Len(text) > LenMax
      BY <2>3 DEF TruncationInv, Utf8, TruncationAssumption
    <3>2. cut = Truncate(text) /\ Utf8(text)
      BY <2>3 DEF TruncationInv
    <3> QED
      BY <3>1, <3>2, TruncateCuts, CutFits
  <2> QED
    BY <2>1, <2>2, <2>3 DEF TruncationInv
<1> QED
  BY <1>1, TruncationInvariance, PTL
=============================================================================
