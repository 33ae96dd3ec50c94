---------------------------- MODULE MCExtraction ----------------------------
(* The PDFs and the typed lines that TLC checks Extraction on. *)
EXTENDS Extraction

MCTypedLines ==
    [kind : {"blank"}, n : {0}] \cup [kind : {"page"}, n : {0, 1, 2}]
        \cup [kind : {"heading"}, n : {3, 5}] \cup [kind : {"body"}, n : {2, 3, 5, 7}]

Body == [prefix |-> "AMVWYI", family |-> "Avenir", style |-> "Book"]
Oblique == [prefix |-> "", family |-> "Avenir", style |-> "BookOblique"]
Display == [prefix |-> "", family |-> "Exo", style |-> ""]
IconFont == [prefix |-> "BIJDRT", family |-> "Icons", style |-> ""]

MCSubsetTags == {"AMVWYI", "BIJDRT"}

Segment(text, left, bottom, font) ==
    [text |-> text, left |-> left, bottom |-> bottom, height |-> 10, font |-> font]

Lower(n) == [i \in 1..n |-> "lower"]
Upper(n) == [i \in 1..n |-> "upper"]

\* In the order listed: body text; a run on the same baseline that is all caption bleed;
\* body text, and a title to its left that share a line; a title with a stray
\* symbol, and icons after it that make the line garbled; and a blank run.
MCSegments ==
    {Segment(Lower(2), 20, 90, Body),
     Segment(<<"break">> \o Lower(4), 40, 86, Oblique),
     Segment(<<"space">> \o Lower(3), 30, 60, Body),
     Segment(Upper(3), 0, 60, Display),
     Segment(Upper(4) \o <<"symbol">>, 0, 30, Display),
     Segment(<<"icon", "icon">>, 60, 30, IconFont),
     Segment(<<"space", "space">>, 20, 75, Body)}
=============================================================================
