------------------------- MODULE DocumentStructure -------------------------
(***************************************************************************)
(* structure: the segments pdfium reads from the pages of a PDF become the *)
(* lines of a document.  Pure heuristics, so this module has no variables. *)
(*                                                                         *)
(* A character is the class the heuristics see in it.  Coordinates are     *)
(* whole points.  Where the code takes the maximum of a HashMap, whose     *)
(* order is random, an operator returns the set of possible answers.       *)
(***************************************************************************)
EXTENDS Integers, Sequences, SequencesExt

CONSTANTS
    MaxHeadingChars,   \* MAX_HEADING_CHARS
    SubsetTags         \* the font name prefixes of six uppercase letters

ASSUME StructureAssumption == MaxHeadingChars \in Nat /\ "" \notin SubsetTags

MinHeadingLetters == 3

White == {"space", "break"}
Letters == {"upper", "lower", "caseless"}

\* What is_plausible_text_char accepts: letters, digits, and its list of marks.
Plausible == Letters \cup {"digit", "mark"}

\* is_icon_glyph is "icon"; "symbol" is any other character of no plausible class.
Chars == White \cup Plausible \cup {"icon", "symbol", "control"}

LineKinds == {"heading", "body", "icons"}

\* A font name is an optional prefix ended by "+", a family, and a style after "-".
RawSegment ==
    [text : Seq(Chars), left : Int, bottom : Int, height : Nat,
     font : [prefix : STRING, family : STRING, style : STRING]]

Count(text, classes) == Len(SelectSeq(text, LAMBDA c : c \in classes))

RawText(group) == FlattenSeq([i \in DOMAIN group |-> group[i].text])

\* The members of the finite set K in the linear order R.
InOrder(K, R) ==
    [k \in 1..Cardinality(K) |-> CHOOSE i \in K : Cardinality({j \in K : <<j, i>> \in R}) = k]

\* What a filter keeps of s: its elements at the positions K.
Selection(s, K) ==
    LET order == InOrder(K, {r \in K \X K : r[1] <= r[2]})
    IN  [k \in DOMAIN order |-> s[order[k]]]

-----------------------------------------------------------------------------
(* Reading a page: pdfium's blank segments are passed over. *)

ReadPage(page) ==
    Selection(page, {i \in DOMAIN page : Count(page[i].text, Chars \ White) > 0})

ReadPages(pages) == [p \in DOMAIN pages |-> ReadPage(pages[p])]

-----------------------------------------------------------------------------
(* Font families. *)

NoFamily == <<"">>

\* A prefix that is no subset tag stays part of the family; the style never does.
FontFamily(font) ==
    IF font.prefix \in SubsetTags \cup {""} THEN <<font.family>> ELSE <<font.prefix, font.family>>

Families(segments) == {FontFamily(segments[i].font) : i \in DOMAIN segments} \ {NoFamily}

CharsInFamily(segments, family) ==
    Count(RawText(SelectSeq(segments, LAMBDA s : FontFamily(s.font) = family)), Chars \ {"icon"})

\* The families that cover the most non-icon characters: one, unless there is a tie.
DominantFamilies(segments) ==
    {f \in Families(segments) :
        \A g \in Families(segments) : CharsInFamily(segments, g) <= CharsInFamily(segments, f)}

BodyFamilies(pages) ==
    LET families == DominantFamilies(FlattenSeq(pages))
    IN  IF families = {} THEN {NoFamily} ELSE families

-----------------------------------------------------------------------------
(* Lines of a page. *)

\* More than LINE_BASELINE_TOLERANCE, 0.6 of the taller one's height.
Apart(prev, curr) ==
    /\ 10 * (curr.bottom - prev.bottom) \notin -6 * prev.height..6 * prev.height
    /\ 10 * (curr.bottom - prev.bottom) \notin -6 * curr.height..6 * curr.height

\* The loop's lines and start after each segment of the page.
LineScan(page) ==
    LET scan[i \in 0..Len(page)] ==
            IF i <= 1
            THEN [lines |-> <<>>, start |-> 1]
            ELSE IF Apart(page[i - 1], page[i])
            THEN [lines |-> Append(scan[i - 1].lines, SubSeq(page, scan[i - 1].start, i - 1)),
                  start |-> i]
            ELSE scan[i - 1]
    IN  scan

\* Variant: the run that reaches the end of the page is not closed.
GroupIntoLinesDropsLast(page) == LineScan(page)[Len(page)].lines

\* Cuts the page where the baseline leaves that of the segment before.
GroupIntoLines(page) ==
    LET end == LineScan(page)[Len(page)]
    IN  IF end.start <= Len(page)
        THEN Append(end.lines, SubSeq(page, end.start, Len(page)))
        ELSE end.lines

\* Drops what pdfium appends to a segment after a line break.
CleanSegmentText(text) ==
    LET breaks == {i \in DOMAIN text : text[i] = "break"}
    IN  IF breaks = {} THEN text ELSE SubSeq(text, 1, Min(breaks) - 1)

\* Keeps a white character only if it is the first between two that are not.
NormalizeWhitespace(text) ==
    LET Black(i) == text[i] \notin White
        keep == {i \in DOMAIN text :
                    \/ Black(i)
                    \/ i > 1 /\ Black(i - 1) /\ \E k \in i + 1..Len(text) : Black(k)}
    IN  Selection([i \in DOMAIN text |-> IF Black(i) THEN text[i] ELSE "space"], keep)

\* Joins a line's segments from left to right; the sort is stable.
AssembleText(group) ==
    LET inPlace == {r \in (DOMAIN group) \X (DOMAIN group) :
                       \/ group[r[1]].left < group[r[2]].left
                       \/ group[r[1]].left = group[r[2]].left /\ r[1] <= r[2]}
        order == InOrder(DOMAIN group, inPlace)
    IN  NormalizeWhitespace(
            FlattenSeq([k \in DOMAIN order |-> CleanSegmentText(group[order[k]].text)]))

-----------------------------------------------------------------------------
(* What a line is. *)

\* HEADING_UPPERCASE_RATIO, 0.8 of the cased letters.
IsMostlyUppercase(text) ==
    /\ Count(text, {"upper", "lower"}) > 0
    /\ 10 * Count(text, {"upper"}) >= 8 * Count(text, {"upper", "lower"})

LooksLikeTitle(text) ==
    /\ Count(text, Letters) >= MinHeadingLetters
    /\ Len(text) <= MaxHeadingChars
    /\ IsMostlyUppercase(text)

\* ICON_CHAR_RATIO, 0.6 of the characters that are not white.
MostlyIcons(text) ==
    LET content == Count(text, Chars \ White)
    IN  content > 0 /\ 10 * Count(text, {"icon"}) >= 6 * content

\* The kinds a line may be given.  It is judged by all the text of its segments,
\* what CleanSegmentText drops included.
Classify(group, bodyFamily) ==
    LET text == RawText(group)
        Distinct == \E f \in DominantFamilies(group) : f # bodyFamily
        Alike == bodyFamily \in DominantFamilies(group) \/ DominantFamilies(group) = {}
    IN  IF MostlyIcons(text)
        THEN {"icons"}
        ELSE {kind \in {"heading", "body"} :
                 IF kind = "heading" THEN Distinct /\ LooksLikeTitle(text)
                                     ELSE Alike \/ ~LooksLikeTitle(text)}

\* A control character, or more than GARBLE_SYMBOL_RATIO, 0.3, implausible ones.
IsGarbled(text) ==
    \/ Count(text, {"control"}) > 0
    \/ 10 * Count(text, Chars \ (Plausible \cup White)) > 3 * Count(text, Chars \ White)

\* Variant: only lines taken for body text are checked.
GarbleCheckedBodyOnly(kind) == kind = "body"

GarbleChecked(kind) == kind # "icons"

-----------------------------------------------------------------------------
(* The document. *)

\* The visual lines of all pages, numbered from 1.
VisualLines(pages) ==
    FlattenSeq([p \in DOMAIN pages |->
        LET groups == GroupIntoLines(pages[p])
        IN  [g \in DOMAIN groups |->
                [page |-> p, group |-> groups[g], text |-> AssembleText(groups[g])]]])

\* Variant: a line whose text is all dropped is kept as an empty one.
HasTextAlways(line) == TRUE

HasText(line) == line.text # <<>>

\* What structure returns if these are the kinds given to the lines found.
Outcome(found, kinds) ==
    LET kept == {i \in DOMAIN found : ~(GarbleChecked(kinds[i]) /\ IsGarbled(found[i].text))}
        lines == [i \in DOMAIN found |->
                     [page |-> found[i].page, kind |-> kinds[i], text |-> found[i].text]]
    IN  [lines |-> Selection(lines, kept),
         report |-> [kept |-> Cardinality(kept),
                     dropped_garbled |-> Len(found) - Cardinality(kept)]]

\* What structure may return.
Structure(pages) ==
    LET lines == VisualLines(pages)
        found == Selection(lines, {i \in DOMAIN lines : HasText(lines[i])})
        Kinds(body) == {kinds \in [DOMAIN found -> LineKinds] :
                           \A i \in DOMAIN found : kinds[i] \in Classify(found[i].group, body)}
    IN  {Outcome(found, kinds) : kinds \in UNION {Kinds(body) : body \in BodyFamilies(pages)}}
=============================================================================
