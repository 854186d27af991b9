------------------------------- MODULE PlainText -------------------------------
(***************************************************************************)
(* What vedur-mcp makes of a text of Veðurstofa Íslands before it is part  *)
(* of an answer: an HTML fragment becomes bounded plain text.  A fragment  *)
(* is a sequence of characters; a tag's name, the two dashes of a comment  *)
(* and a character reference count as one each.  The only step of this     *)
(* module is that a fragment has another piece.                            *)
(***************************************************************************)
EXTENDS Naturals, Sequences, SequencesExt

CONSTANTS
    Piece,     \* what fragments are put together from
    Hidden,    \* controls, bidirectional overrides and zero-width marks
    Skipped,   \* the names of elements whose content is no text
    Block,     \* the names of tags that end a line
    Cell,      \* the names of tags that are a blank
    Decoded,   \* the character of each reference
    MaxChars,  \* the bound of the text
    MaxPieces  \* bound of the model

TextAssumption ==
    /\ \A piece \in Piece : piece \in Seq(STRING)
    /\ MaxChars \in Nat /\ MaxPieces \in Nat
    /\ Skipped \cap Block = {} /\ Cell \cap (Skipped \cup Block) = {}

VARIABLES
    html,   \* the fragment
    pieces  \* of how many pieces it is

-----------------------------------------------------------------------------
\* Where the characters of needle first occur in s, or 0.
Find(s, needle) ==
    LET at == {i \in 1..Len(s) : IsPrefix(needle, SubSeq(s, i, Len(s)))}
    IN IF at = {} THEN 0 ELSE CHOOSE i \in at : \A j \in at : i <= j

\* What follows the first needle in s, if there is one.
Past(s, needle) ==
    LET at == Find(s, needle)
    IN IF at = 0 THEN <<>> ELSE SubSeq(s, at + Len(needle), Len(s))

\* decode_entities: a reference is the character that it names.
DecodeEntities(s) == [i \in DOMAIN s |-> IF s[i] \in DOMAIN Decoded THEN Decoded[s[i]] ELSE s[i]]

\* The name of a tag, and whether it closes (tag_name).
TagName(tag) ==
    LET open == SelectSeq(tag, LAMBDA x : x # "/")
    IN IF open = <<>> THEN "" ELSE open[1]

Closing(tag) == tag # <<>> /\ tag[1] = "/"

\* What follows the end tag of an element (past_closing).
PastClosing(s, name) == Past(Past(s, <<"<", "/", name>>), <<">">>)

RECURSIVE StripTags(_)

\* Tags are removed, block tags end a line; comments and skipped elements are dropped.
StripTags(s) ==
    LET open == Find(s, <<"<">>)
        rest == SubSeq(s, open, Len(s))
        close == Find(rest, <<">">>)
        tag == SubSeq(rest, 2, close - 1)
        name == TagName(tag)
        after == SubSeq(rest, close + 1, Len(rest))
    IN IF open = 0 THEN DecodeEntities(s)
       ELSE DecodeEntities(SubSeq(s, 1, open - 1)) \o
            CASE IsPrefix(<<"<", "!", "--">>, rest) -> StripTags(Past(rest, <<"--", ">">>))
              [] OTHER ->
                 IF close = 0 THEN <<>>
                 ELSE IF ~Closing(tag) /\ name \in Skipped /\ tag[Len(tag)] # "/"
                      THEN StripTags(PastClosing(after, name))
                 ELSE IF name \in Block THEN <<"\n">> \o StripTags(after)
                 ELSE IF name \in Cell THEN <<" ">> \o StripTags(after)
                 ELSE StripTags(after)

Harmless(x) == CASE x = "<" -> "left" [] x = ">" -> "right" [] OTHER -> x

\* The openers of a Markdown link and of an image.
Opens(x, y) == (x = "]" /\ y = "(") \/ (x = "!" /\ y = "[")

\* A character after the text so far: none of two blanks, a blank inside an opener.
Joined(text, x) ==
    IF x \in {" ", "\n"} /\ (text = <<>> \/ Last(text) \in {" ", "\n"})
    THEN IF text # <<>> /\ x = "\n" THEN Front(text) \o <<x>> ELSE text
    ELSE IF text # <<>> /\ Opens(Last(text), x) THEN text \o <<" ", x>>
    ELSE Append(text, x)

Trimmed(text) == IF text # <<>> /\ Last(text) \in {" ", "\n"} THEN Front(text) ELSE text

\* Mutant: what is hidden goes last, and may have kept an opener apart.
Neutralise_HiddenLast(s) ==
    SelectSeq(Trimmed(FoldLeft(LAMBDA text, x : Joined(text, Harmless(x)), <<>>, s)),
              LAMBDA x : x \notin Hidden)

\* neutralise: nothing hidden, no angle bracket, no opener; blanks and empty lines collapse.
Neutralise(s) ==
    LET seen == SelectSeq(s, LAMBDA x : x \notin Hidden)
    IN Trimmed(FoldLeft(LAMBDA text, x : Joined(text, Harmless(x)), <<>>, seen))

\* At most MaxChars characters; a text that is cut says so.
Bound(text) ==
    IF Len(text) <= MaxChars THEN text
    ELSE Append(Trimmed(SubSeq(text, 1, MaxChars)), "more")

\* plain_text
PlainText(s) == Bound(Neutralise(StripTags(s)))

\* clean: a short text is one line.
Clean(s) == LET text == PlainText(s) IN [i \in DOMAIN text |-> IF text[i] = "\n" THEN " " ELSE text[i]]

-----------------------------------------------------------------------------
Init == html = <<>> /\ pieces = 0

Extend ==
    /\ pieces < MaxPieces
    /\ \E piece \in Piece : html' = html \o piece
    /\ pieces' = pieces + 1

Spec == Init /\ [][Extend]_<<html, pieces>>

-----------------------------------------------------------------------------
\* Whatever a text holds, nothing of what is shown of it is markup: no angle
\* bracket, nothing hidden, no opener of a Markdown link or image (neither one
\* that was written with a reference or around something hidden), within its
\* bound; and a text without tags keeps its words in their order.
NothingRenders ==
    \A text \in {PlainText(html), Clean(html)} :
      /\ \A i \in 1..Len(text) : text[i] \notin {"<", ">"} \cup Hidden
      /\ \A i \in 1..Len(text) - 1 : ~Opens(text[i], text[i + 1])
      /\ Len(text) <= MaxChars + 1
      /\ LET words(s) == SelectSeq(s, LAMBDA x : x = "word")
         IN Find(html, <<"<">>) = 0 => IsPrefix(words(text), words(html))
              /\ (words(text) = words(html) \/ Last(text) = "more")
=============================================================================
