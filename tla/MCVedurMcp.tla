------------------------------ MODULE MCVedurMcp ------------------------------
(* Small instances of the two modules of vedur-mcp, of which a behaviour runs *)
(* one:                                                                       *)
(*  - VedurMcp: two calls, a weather warning that is over soon, one that is   *)
(*    not, and a geophysical one, a cache with room for one response, and     *)
(*    one change of one address;                                              *)
(*  - PlainText: fragments of up to four pieces, with all that markup needs.  *)
EXTENDS VedurMcp, TLC

CONSTANTS c1, c2, met, brief, geo

VARIABLES part, html, pieces

Text == INSTANCE PlainText WITH
    Piece <- {<<"<">>, <<">">>, <<"<", "script", ">">>, <<"<", "/", "script", ">">>, <<"<", "br", ">">>,
              <<"<", "td", ">">>, <<"<", "!", "--">>, <<"--", ">">>, <<"]">>, <<"(">>, <<"!">>, <<"[">>,
              <<"&lt;">>, <<"&lsqb;">>, <<"hidden">>, <<"word">>},
    Hidden <- {"hidden"}, Skipped <- {"script"}, Block <- {"br"}, Cell <- {"td"},
    Decoded <- [x \in {"&lt;", "&lsqb;"} |-> IF x = "&lt;" THEN "<" ELSE "["],
    MaxChars <- 3, MaxPieces <- 4

ASSUME TextAssumption == Text!TextAssumption

\* Nothing that is shown of a text renders as markup (text::clean, text::plain_text).
NothingRenders == Text!NothingRenders

MCInit == part \in {"calls", "text"} /\ Init /\ Text!Init

MCNext ==
    \/ part = "calls" /\ Next /\ UNCHANGED <<part, html, pieces>>
    \/ part = "text" /\ Text!Extend /\ UNCHANGED <<part, vars>>

MCSpec == MCInit /\ [][MCNext]_<<part, vars, html, pieces>>

Warnings == {met, brief, geo}

Ends == [w \in Warnings |-> IF w = met THEN 3 ELSE 1]

Areas == {Warnings, {geo}}

\* All, one of which is malformed; none that can be read; and no list.
Answers ==
    {[w \in Warnings |-> "readable"], [w \in Warnings |-> IF w = met THEN "malformed" ELSE "readable"],
     [w \in Warnings |-> IF w = met THEN "malformed" ELSE "absent"], Garbage}

Symmetry == Permutations(Call)
===============================================================================
