------------------------------ MODULE Messages ------------------------------
(***************************************************************************)
(* What becomes of a message on its way through Awakari: toCloudEvent      *)
(* (service/messages/publish.go) turns a Telegram message into an event,   *)
(* Convert (service/messages/format.go) turns an event, published by the   *)
(* bot or by any other source, into a Telegram message, and deliver        *)
(* (service/chats/handler.go) tries it in the HTML, the plain and the raw  *)
(* mode until Telegram takes it, or else skips the event or stops.  What   *)
(* follows a stop is in the module Delivery.                               *)
(*                                                                         *)
(* A text is modelled by its size and by the markup it has: none, tags     *)
(* Telegram knows ("allowed"), or others ("banned").  The size is the      *)
(* number of characters besides tags, and how many characters more there   *)
(* are to a text which is not parsed as HTML: cleaning a text writes five  *)
(* characters as entities of four or five characters, and a space for a    *)
(* tag.  How a text is cut to its maximal length is in Truncation.         *)
(***************************************************************************)
EXTENDS Integers

CONSTANTS
    Lengths,        \* numbers of characters of texts
    Extras,         \* numbers of characters more outside of the HTML mode
    FieldSets,      \* the sets of fields events of other sources have
    PlainFooter     \* the length of the footer outside of the HTML mode

FileKinds == {"audio", "document", "photo", "video"}
Kinds == FileKinds \cup {"text", "location", "other"}
Modes == {"html", "plain", "raw"}
Markup == {"none", "allowed", "banned"}

\* Attributes which Convert shows, and the text data.
HeadFields == {"headline", "title", "description", "summary"}
Fields == HeadFields \cup {"text", "name", "categories"}

\* What Telegram takes: https://core.telegram.org/bots/api.
TextMax == 4096
CaptionMax == 1024

ASSUME MessagesAssumption ==
    /\ Lengths \subseteq 0..TextMax
    /\ Extras \subseteq Nat
    /\ FieldSets \subseteq SUBSET Fields
    /\ PlainFooter \in Nat

VARIABLES
    pc,             \* "new", the mode to try next, "posted", "skipped" or "stopped"
    msg,            \* the message the event was published from, if it was
    evt,            \* the event
    out,            \* the last message converted
    failed          \* the last call failed for another reason than the message

vars == <<pc, msg, evt, out, failed>>

Sizes == {s \in [length : Lengths, extra : Extras] : s.extra <= 4 * s.length}
NoText == [length |-> 0, extra |-> 0]

\* The parts of an event which have a size.
Parts == {"head", "text", "name"}
PartOf(f) == IF f \in HeadFields THEN "head" ELSE f

NoFields == [f \in {} |-> "none"]
NoMessage == [kind |-> "none", text |-> NoText, markup |-> "none"]

\* A location has no text, and a text message is not empty.  The user may type
\* what looks like markup, and nothing else.
TelegramMessages ==
    {m \in [kind : Kinds, text : Sizes, markup : Markup] :
        /\ m.kind = "location" => m.text = NoText /\ m.markup = "none"
        /\ m.kind = "text" => m.text # NoText \/ m.markup # "none"}

\* What other sources publish: any fields of any size, the summary possibly the
\* same as another one, files of kinds the bot does not know, and the id of a
\* Telegram message, as the source of Telegram channels does (format_test.go:108).
ForeignEvents ==
    {e \in [tg : BOOLEAN,
            file : FileKinds \cup {"none", "unknown"},
            size : [Parts -> Sizes \cup {NoText}],
            repeats : BOOLEAN,
            fields : UNION {[S -> Markup] : S \in FieldSets}] :
        /\ e.repeats => "summary" \in DOMAIN e.fields
        /\ \A p \in Parts : e.size[p] # NoText => \E f \in DOMAIN e.fields : PartOf(f) = p}

Init ==
    /\ pc = "new"
    /\ msg = NoMessage
    /\ evt = [tg |-> FALSE, file |-> "none", size |-> [p \in Parts |-> NoText],
              repeats |-> FALSE, fields |-> NoFields]
    /\ out = [mode |-> "html", kind |-> "text", parts |-> NoFields, length |-> 0]
    /\ failed = FALSE
-----------------------------------------------------------------------------
(* publish.go                                                              *)

\* Mutant of FileOf: a video is taken for a document.
FileOfNoVideo(m) ==
    IF m.kind = "video" THEN "document" ELSE IF m.kind \in FileKinds THEN m.kind ELSE "none"

\* A file is referred to by its kind and id.
FileOf(m) == IF m.kind \in FileKinds THEN m.kind ELSE "none"

\* Mutant of TextOf: the caption is left out.
TextOfTextOnly(m) ==
    IF m.kind = "text" THEN [f \in {"text"} |-> m.markup] ELSE NoFields

\* The text or else the caption becomes the data.
TextOf(m) ==
    IF m.text # NoText \/ m.markup # "none" THEN [f \in {"text"} |-> m.markup] ELSE NoFields

\* A location becomes attributes nothing shows, any other content is left out.
ToCloudEvent(m) ==
    [tg |-> TRUE, file |-> FileOf(m),
     size |-> [p \in Parts |-> IF p = "text" THEN m.text ELSE NoText],
     repeats |-> FALSE, fields |-> TextOf(m)]
-----------------------------------------------------------------------------
(* format.go                                                               *)

\* HtmlPolicy keeps allowed markup and drops the rest, htmlStripTags drops all.
Sanitize(markup) == IF markup = "banned" THEN "none" ELSE markup
Clean(mode, markup) == IF mode = "html" THEN Sanitize(markup) ELSE "none"

\* The headline and the title are bold in the HTML mode.  In every mode it is
\* HtmlPolicy which cleans the header as a whole.
Header(e, mode) ==
    [f \in DOMAIN e.fields \cap (HeadFields \ IF e.repeats THEN {"summary"} ELSE {}) |->
        CASE f = "summary" -> Clean(mode, e.fields[f])
          [] f = "description" -> Sanitize(e.fields[f])
          [] OTHER -> IF mode = "html" THEN "allowed" ELSE Sanitize(e.fields[f])]

\* The header and the text, or the name when cleaning has left nothing of both,
\* and the tags; the name and the tags are not cleaned.
Body(e, mode, attrs) ==
    LET header == IF attrs THEN Header(e, mode) ELSE NoFields
        cleaned == [f \in DOMAIN header \cup (DOMAIN e.fields \cap {"text"}) |->
                       IF f = "text" THEN Clean(mode, e.fields[f]) ELSE header[f]]
        main == {f \in DOMAIN cleaned : cleaned[f] # "none" \/ e.size[PartOf(f)].length > 0}
        name == IF main = {} THEN {"name"} ELSE {}
    IN [f \in main \cup (DOMAIN e.fields \cap (name \cup {"categories"})) |->
            IF f \in main THEN cleaned[f] ELSE e.fields[f]]

\* How many characters Telegram counts of a part.
Count(e, mode, shown, p) ==
    IF \E f \in DOMAIN shown : PartOf(f) = p
      THEN e.size[p].length + IF mode = "html" THEN 0 ELSE e.size[p].extra
      ELSE 0

Uncut(e, mode, shown) ==
    Count(e, mode, shown, "head") + Count(e, mode, shown, "text") + Count(e, mode, shown, "name")

\* Texts which are not Telegram's are cut to 300 bytes, and end the line.
Cut == 300 + 1

\* Categories stand for eight tags of 63 bytes, which come after the cut.
Tags(e) == IF "categories" \in DOMAIN e.fields THEN 8 * 64 ELSE 0

\* The links of the footer do not count in the HTML mode, "\nOrigin | Interest |
\* Match" does.
Footer(mode) == IF mode = "html" THEN 26 ELSE PlainFooter

\* Mutant of Attached: the raw mode keeps the attachment.
AttachedInRaw(e, mode) == e.file # "none"

Attached(e, mode) == e.file # "none" /\ mode # "raw"

\* A message with an attachment has the text as its caption; there is no message
\* if the kind of the file is unknown.  A text which has the id of a Telegram
\* message is never cut.
Convert(e, mode) ==
    LET shown == Body(e, mode, ~Attached(e, mode))
        uncut == Attached(e, mode) \/ e.tg
    IN [mode |-> mode,
        kind |-> IF Attached(e, mode) THEN e.file ELSE "text",
        parts |-> shown,
        length |-> (IF uncut THEN Uncut(e, mode, shown) ELSE Cut) + Tags(e) + Footer(mode)]
-----------------------------------------------------------------------------
Publish ==
    /\ pc = "new"
    /\ \E m \in TelegramMessages : msg' = m /\ evt' = ToCloudEvent(m)
    /\ pc' = "html"
    /\ UNCHANGED <<out, failed>>

Receive ==
    /\ pc = "new"
    /\ evt' \in ForeignEvents
    /\ pc' = "html"
    /\ UNCHANGED <<msg, out, failed>>

\* Telegram refuses what is too long and markup it does not know, which it looks
\* for in the HTML mode only.  telebot refuses what is no message.
Refused(m, mode) ==
    \/ m.length > IF m.kind = "text" THEN TextMax ELSE CaptionMax
    \/ mode = "html" /\ \E f \in DOMAIN m.parts : m.parts[f] = "banned"
    \/ m.kind = "unknown"

\* Telegram may also refuse a file, and markup which is not well-formed: a text
\* which was cut in the middle of it, an address with a quote.
MayRefuse(m, mode) == m.kind # "text" \/ mode = "html" \/ Refused(m, mode)

\* Any error but two makes deliver try the next mode, and skip the event after the
\* last one.
FallBack ==
    pc' = CASE pc = "html" -> "plain" [] pc = "plain" -> "raw" [] pc = "raw" -> "skipped"

\* One call: Telegram takes the message, refuses it, or the call fails for a reason
\* of its own.  Deliver stops at a flood, and at 403 in the HTML mode.
Send ==
    /\ pc \in Modes
    /\ out' = Convert(evt, pc)
    /\ \/ ~Refused(out', pc) /\ pc' = "posted" /\ failed' = FALSE
       \/ MayRefuse(out', pc) /\ FallBack /\ failed' = FALSE
       \/ FallBack /\ failed' = TRUE
       \/ pc' = "stopped" /\ failed' = TRUE
    /\ UNCHANGED <<msg, evt>>

Next == Publish \/ Receive \/ Send

Spec == Init /\ [][Next]_vars
-----------------------------------------------------------------------------
\* The text of a Telegram message comes back, with or without its attachment,
\* by whichever of the three modes gets through (publish.go:89-97,
\* format.go:35-101).  What is nothing but markup is no text.
TextSurvives ==
    pc = "posted" /\ msg.text # NoText => "text" \in DOMAIN out.parts

\* A file comes back as a file of the same kind, or the message as a text; a
\* text never comes back as anything else (publish.go:99-173, format.go:36-82).
SameKind ==
    pc = "posted" /\ msg # NoMessage => out.kind \in {"text", msg.kind}

\* What an uncut event takes in the raw mode at most: entities count in full there.
RawLength(e) ==
    LET full(p) == e.size[p].length + e.size[p].extra
    IN full("head") + full("text") + full("name") + Tags(e) + PlainFooter

\* Unless a call fails for a reason of its own, an event is skipped only for the
\* length of its text, entities included, and only if it has the id of a Telegram
\* message, whatever files and markup Telegram refuses: the raw mode depends on
\* neither (handler.go:181-230, format.go:35-83).
SkippedForLength ==
    pc = "skipped" /\ ~failed => evt.tg /\ RawLength(evt) > TextMax

\* format.go says of the plain mode: "no html markup", and of the raw one "no
\* html and no attachments".
PlainHasNoHtml ==
    pc = "posted" /\ out.mode # "html" =>
        \A f \in DOMAIN out.parts : out.parts[f] = "none"

\* format.go says: "no need to truncate for telegram when message is from
\* telegram": no message from Telegram is skipped for its length.
TelegramNeedsNoCut == pc = "skipped" /\ ~failed => ~evt.tg
=============================================================================
