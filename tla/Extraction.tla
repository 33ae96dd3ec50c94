----------------------------- MODULE Extraction -----------------------------
(***************************************************************************)
(* A rulebook from the segments of its PDF to the chunks of its            *)
(* transcript: structure decides what the document is, and Chunking says   *)
(* what becomes of the document.                                           *)
(***************************************************************************)
EXTENDS Chunking, DocumentStructure

CONSTANTS
    Segments,                  \* the segments a page may hold
    MaxPdfPages, MaxSegments   \* bounds: pages of a PDF, segments in all of them

ASSUME ExtractionAssumption ==
    /\ Segments \subseteq RawSegment
    /\ MaxPdfPages \in Nat
    /\ MaxSegments \in Nat

VARIABLES
    pages,    \* what pdfium emits, page by page
    report    \* ExtractedDocument.report

extractionVars == <<vars, pages, report>>

\* No two segments of a page are in one place.
Pdfs ==
    {ps \in [1..MaxPdfPages -> UNION {[1..k -> Segments] : k \in 0..MaxSegments}] :
        /\ Len(FlattenSeq(ps)) <= MaxSegments
        /\ \A p \in DOMAIN ps : IsInjective(ps[p])}

\* A line as to_markdown sees it: it writes icon lines like body lines.
AsDocLine(line) ==
    [page |-> line.page, n |-> Len(line.text),
     kind |-> IF line.kind = "heading" THEN "heading" ELSE "body"]

ExtractionInit ==
    /\ pages \in Pdfs
    /\ \E document \in Structure(ReadPages(pages)) :
          /\ doc = [i \in DOMAIN document.lines |-> AsDocLine(document.lines[i])]
          /\ report = document.report
    /\ rendered = 0
    /\ transcript = <<>>
    /\ edits = 0
    /\ pos = 0
    /\ page = 1
    /\ builder = NewBuilder
    /\ finished = FALSE

ExtractionNext == Next /\ UNCHANGED <<pages, report>>

ExtractionSpec == ExtractionInit /\ [][ExtractionNext]_extractionVars

-----------------------------------------------------------------------------
(* Properties. *)

\* structure only makes documents that Chunking starts from: pages counted from 1
\* and in order, and never a line without text, which would vanish in the
\* transcript.
ImplementsChunking == Spec

\* A tie between font families, which the code leaves to the random order of a
\* HashMap, can only turn headings into body lines or back: the text that is kept,
\* its pages and the report are the same in every extraction of the PDF.
TiesOnlyMoveHeadings ==
    rendered = 0 =>
        \A one, other \in Structure(ReadPages(pages)) :
            /\ one.report = other.report
            /\ Len(one.lines) = Len(other.lines)
            /\ \A i \in DOMAIN one.lines :
                  /\ one.lines[i].page = other.lines[i].page
                  /\ one.lines[i].text = other.lines[i].text
                  /\ one.lines[i].kind = "icons" <=> other.lines[i].kind = "icons"

\* The segments that begin a visual line: the first of a page, and each that is off
\* the baseline of the one before.
LineStarts(segments) ==
    {i \in DOMAIN segments : i = 1 \/ Apart(segments[i - 1], segments[i])}

\* The line that begins at segment i holds text: a character before a line break.
Readable(segments, i) ==
    \E k \in i..Len(segments) :
        /\ \A j \in i + 1..k : j \notin LineStarts(segments)
        /\ \E c \in DOMAIN segments[k].text :
              /\ segments[k].text[c] \notin White
              /\ \A b \in 1..c : segments[k].text[b] # "break"

\* Nothing a PDF says is lost unseen: every visual line with text on one of its
\* pages is counted as garbled, or is a heading of the transcript, or is in exactly
\* one of the chunks of a transcript nobody edited.
PdfAccountedFor ==
    finished /\ edits = 0 =>
        LET read == ReadPages(pages)
            texts == UNION {{<<p, i>> : i \in {s \in LineStarts(read[p]) : Readable(read[p], s)}} :
                               p \in DOMAIN read}
            headings == {i \in DOMAIN transcript : transcript[i].kind = "heading"}
            chunked == UNION {{<<c, i>> : i \in DOMAIN Chunks[c].lines} : c \in DOMAIN Chunks}
        IN  Cardinality(texts) =
                report.dropped_garbled + Cardinality(headings) + Cardinality(chunked)
=============================================================================
