------------------------------ MODULE Chunking ------------------------------
(***************************************************************************)
(* What becomes of a document's lines between extraction and retrieval:    *)
(* to_markdown renders them as a transcript, a reviewer may edit it, and   *)
(* split scans it line by line into the chunks that are stored.            *)
(*                                                                         *)
(* A line is what it is used as and one number: the page of a marker, the  *)
(* title of a heading (0 is the empty one), the length of a body line.     *)
(* The content of a chunk is the positions of its lines in the transcript  *)
(* and its length in characters.                                           *)
(***************************************************************************)
EXTENDS Naturals, Sequences, SequencesExt

CONSTANTS
    MaxChunkChars,
    TypedLines,   \* the lines a reviewer may type
    MaxEdits      \* bound: edits of a review

\* The numbers that lines can carry: a marker may name any page, titles and lines
\* have characters.
Pages == Nat
Headings == Nat \ {0}
Lengths == Nat \ {0}

Line ==
    [kind : {"blank"}, n : {0}] \cup [kind : {"page"}, n : Pages]
        \cup [kind : {"heading"}, n : Headings] \cup [kind : {"body"}, n : Lengths]

ASSUME ChunkingAssumption == MaxChunkChars \in Nat /\ TypedLines \subseteq Line

VARIABLES
    doc,          \* ExtractedDocument.lines
    rendered,     \* how many of them to_markdown has rendered
    transcript,   \* the lines of the transcript
    edits,        \* how often the reviewer has changed it
    pos,          \* how many of its lines split has read
    page,         \* the page split believes to be on
    builder,      \* its Builder
    finished      \* it has returned

vars == <<doc, rendered, transcript, edits, pos, page, builder, finished>>

\* Page numbers of a document count from 1.  Icon lines are rendered as body.
DocLine ==
    [page : Pages \ {0}, kind : {"heading"}, n : Headings]
        \cup [page : Pages \ {0}, kind : {"body"}, n : Lengths]

\* structure goes through the pages in order.
Documents == {d \in Seq(DocLine) : \A i, j \in DOMAIN d : i < j => d[i].page <= d[j].page}

Chunk == [heading : Headings \cup {0}, page : Pages, lines : Seq(Nat \ {0}), size : Nat]

Builder ==
    [chunks : Seq(Chunk), heading : Headings \cup {0}, page : Pages,
     lines : Seq(Nat \ {0}), size : Nat]

TypeOK ==
    /\ doc \in Seq(DocLine)
    /\ rendered \in 0..Len(doc)
    /\ transcript \in Seq(Line)
    /\ edits \in Nat
    /\ pos \in 0..Len(transcript)
    /\ page \in Pages
    /\ builder \in Builder
    /\ finished \in BOOLEAN

-----------------------------------------------------------------------------
(* Builder. *)

NewBuilder == [chunks |-> <<>>, heading |-> 0, page |-> 0, lines |-> <<>>, size |-> 0]

\* Closes the open chunk, if any.
Flush(b) ==
    IF b.lines = <<>>
    THEN b
    ELSE [b EXCEPT !.chunks = Append(@, [heading |-> b.heading, page |-> b.page,
                                         lines |-> b.lines, size |-> b.size]),
                   !.lines = <<>>,
                   !.size = 0]

\* Variant: the new heading is set before the open chunk is closed.
StartSectionBeforeFlush(b, heading) == Flush([b EXCEPT !.heading = heading])

StartSection(b, heading) == [Flush(b) EXCEPT !.heading = heading]

\* The line number k, of n characters on page p, begins a chunk.
OpenChunk(b, k, n, p) == [b EXCEPT !.page = p, !.lines = <<k>>, !.size = n]

ExtendChunk(b, k, n) == [b EXCEPT !.lines = Append(@, k), !.size = @ + 1 + n]

\* Variant: the joining newline is not counted.
PushLineNewlineFree(b, k, n, p) ==
    IF b.lines = <<>> \/ b.size + n > MaxChunkChars
    THEN OpenChunk(Flush(b), k, n, p)
    ELSE ExtendChunk(b, k, n)

\* Variant: a chunk may not fill the budget exactly.
PushLineBelowBudget(b, k, n, p) ==
    IF b.lines = <<>> \/ b.size + 1 + n >= MaxChunkChars
    THEN OpenChunk(Flush(b), k, n, p)
    ELSE ExtendChunk(b, k, n)

\* Variant: the line that would not fit only closes the chunk.
PushLineDropsOverflow(b, k, n, p) ==
    IF b.lines = <<>>
    THEN OpenChunk(b, k, n, p)
    ELSE IF b.size + 1 + n > MaxChunkChars THEN Flush(b) ELSE ExtendChunk(b, k, n)

\* Appends a line, in a new chunk if the open one has no room for it and for
\* the newline that joins it.
PushLine(b, k, n, p) ==
    IF b.lines = <<>> \/ b.size + 1 + n > MaxChunkChars
    THEN OpenChunk(Flush(b), k, n, p)
    ELSE ExtendChunk(b, k, n)

-----------------------------------------------------------------------------
Init ==
    /\ doc \in Documents
    /\ rendered = 0
    /\ transcript = <<>>
    /\ edits = 0
    /\ pos = 0
    /\ page = 1
    /\ builder = NewBuilder
    /\ finished = FALSE

Blank == [kind |-> "blank", n |-> 0]

\* The marker of a page that differs from the one before.
Marker(i) ==
    IF i > 1 /\ doc[i].page = doc[i - 1].page
    THEN <<>>
    ELSE <<Blank, [kind |-> "page", n |-> doc[i].page]>>

\* Variant: a heading is rendered without its title.
TextWithoutTitle(i) ==
    IF doc[i].kind = "heading"
    THEN <<Blank, [kind |-> "heading", n |-> 0], Blank>>
    ELSE <<[kind |-> doc[i].kind, n |-> doc[i].n]>>

\* A heading is set off by blank lines; icon lines are written like body lines.
Text(i) ==
    LET line == [kind |-> doc[i].kind, n |-> doc[i].n]
    IN  IF line.kind = "heading" THEN <<Blank, line, Blank>> ELSE <<line>>

\* Variant: a page is announced after its first line.
RenderMarkerLast ==
    /\ rendered < Len(doc)
    /\ transcript' = transcript \o Text(rendered + 1) \o Marker(rendered + 1)
    /\ rendered' = rendered + 1
    /\ UNCHANGED <<doc, edits, pos, page, builder, finished>>

\* One turn of to_markdown's loop.
RenderLine ==
    /\ rendered < Len(doc)
    /\ transcript' = transcript \o Marker(rendered + 1) \o Text(rendered + 1)
    /\ rendered' = rendered + 1
    /\ UNCHANGED <<doc, edits, pos, page, builder, finished>>

\* The reviewer inserts a line, replaces one or removes one, whatever it is.
Edit ==
    /\ rendered = Len(doc) /\ pos = 0 /\ ~finished
    /\ edits < MaxEdits
    /\ edits' = edits + 1
    /\ \/ \E i \in 1..Len(transcript) + 1, line \in TypedLines :
              transcript' = InsertAt(transcript, i, line)
       \/ \E i \in 1..Len(transcript), line \in TypedLines :
              transcript' = ReplaceAt(transcript, i, line)
       \/ \E i \in 1..Len(transcript) : transcript' = RemoveAt(transcript, i)
    /\ UNCHANGED <<doc, rendered, pos, page, builder, finished>>

\* One turn of split's loop.
ScanLine ==
    LET k == pos + 1
        line == transcript[k]
    IN  /\ rendered = Len(doc)
        /\ pos < Len(transcript)
        /\ pos' = k
        /\ \/ line.kind = "blank" /\ UNCHANGED <<page, builder>>
           \/ line.kind = "page" /\ page' = line.n /\ UNCHANGED builder
           \/ /\ line.kind = "heading"
              /\ builder' = StartSection(builder, line.n)
              /\ UNCHANGED page
           \/ /\ line.kind = "body"
              /\ builder' = PushLine(builder, k, line.n, page)
              /\ UNCHANGED page
        /\ UNCHANGED <<doc, rendered, transcript, edits, finished>>

Finish ==
    /\ rendered = Len(doc) /\ pos = Len(transcript) /\ ~finished
    /\ builder' = Flush(builder)
    /\ finished' = TRUE
    /\ UNCHANGED <<doc, rendered, transcript, edits, pos, page>>

Next == RenderLine \/ Edit \/ ScanLine \/ Finish

Spec == Init /\ [][Next]_vars

-----------------------------------------------------------------------------
(* Properties.  They speak of the chunks made so far, the open one included. *)

Chunks == Flush(builder).chunks

\* The positions of the body lines of a document or a transcript.
BodyLines(lines) == {k \in DOMAIN lines : lines[k].kind = "body"}

\* The characters on these lines of the transcript.
Sum(lines) ==
    LET sum[i \in 0..Len(lines)] == IF i = 0 THEN 0 ELSE sum[i - 1] + transcript[lines[i]].n
    IN  sum[Len(lines)]

\* Every body line read is in exactly one chunk, in the order of the transcript,
\* and a chunk is as long as its lines and the newlines that join them.
NothingLost ==
    /\ UNION {Range(Chunks[c].lines) : c \in DOMAIN Chunks} = BodyLines(transcript) \cap 1..pos
    /\ \A c, d \in DOMAIN Chunks :
          \A i \in DOMAIN Chunks[c].lines, j \in DOMAIN Chunks[d].lines :
              c < d \/ (c = d /\ i < j) => Chunks[c].lines[i] < Chunks[d].lines[j]
    /\ \A c \in DOMAIN Chunks :
          Chunks[c].size + 1 = Sum(Chunks[c].lines) + Len(Chunks[c].lines)

\* A chunk is never empty, and only a line that exceeds the budget by itself makes
\* a chunk that does.
WithinBudget ==
    \A c \in DOMAIN Chunks :
        /\ Len(Chunks[c].lines) >= 1
        /\ Chunks[c].size <= MaxChunkChars \/ Len(Chunks[c].lines) = 1

\* The last of the lines of this kind before line k carries n; there is none if n
\* is the default.
InForce(lines, kind, k, n, default) ==
    \/ n = default /\ \A i \in 1..k - 1 : lines[i].kind # kind
    \/ \E i \in 1..k - 1 :
          /\ lines[i].kind = kind /\ lines[i].n = n
          /\ \A j \in i + 1..k - 1 : lines[j].kind # kind

NoHeading(lines, first, last) == \A k \in first..last : lines[k].kind # "heading"

\* Two chunks in a row that no heading separates could not have been one: the
\* first line of the second did not fit.
SplitOnlyWhenFull ==
    \A c \in 1..Len(Chunks) - 1 :
        LET next == Chunks[c + 1].lines[1]
        IN  NoHeading(transcript, Chunks[c].lines[1], next) =>
                Chunks[c].size + 1 + transcript[next].n > MaxChunkChars

\* A chunk cites the page its first line is on and the heading its lines stand
\* under, and it never crosses a section boundary, however the transcript was
\* edited.
CitesItsStart ==
    \A c \in DOMAIN Chunks :
        LET lines == Chunks[c].lines
        IN  /\ InForce(transcript, "page", lines[1], Chunks[c].page, 1)
            /\ InForce(transcript, "heading", lines[1], Chunks[c].heading, 0)
            /\ NoHeading(transcript, lines[1], lines[Len(lines)])

\* Of a transcript nobody edited, the chunks cite the pages of the document and
\* the headings their first lines stand under there: what to_markdown writes, split
\* reads.  The body lines of the two correspond in one way, in order.
CitesTheDocument ==
    edits = 0 /\ finished =>
        \E origin \in Bijection(BodyLines(transcript), BodyLines(doc)) :
            /\ \A k, m \in BodyLines(transcript) : k < m => origin[k] < origin[m]
            /\ \A c \in DOMAIN Chunks :
                  LET line == origin[Chunks[c].lines[1]]
                  IN  /\ Chunks[c].page = doc[line].page
                      /\ InForce(doc, "heading", line, Chunks[c].heading, 0)
=============================================================================
