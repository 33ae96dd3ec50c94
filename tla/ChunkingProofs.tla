--------------------------- MODULE ChunkingProofs ---------------------------
(***************************************************************************)
(* Proofs about Chunking, for any budget, any document and any edits.      *)
(* The argument is about Chunks, the closed chunks and the open one: a     *)
(* heading and the end of the transcript leave it as it is, a body line    *)
(* extends its last element or appends one.  That nothing is lost follows  *)
(* from what each turn adds to Chunks; that a chunk cites the document,    *)
(* from where to_markdown puts the lines of the document.                  *)
(***************************************************************************)
EXTENDS Chunking, WellFoundedInduction, TLAPS
-----------------------------------------------------------------------------
(* Induction and recursion over positions. *)

\* Induction over the naturals, for sets of them.
LEMMA PositionInduction ==
    ASSUME NEW S \in SUBSET Nat, 0 \in S, \A n \in S : n + 1 \in S
    PROVE  S = Nat
<1> SUFFICES ASSUME S # Nat PROVE FALSE
  OBVIOUS
<1> DEFINE T == Nat \ S
           R == OpToRel(<, Nat)
<1>1. T \subseteq Nat /\ T # {}
  OBVIOUS
<1>2. IsWellFoundedOn(R, Nat)
  BY NatLessThanWellFounded
<1> HIDE DEF T, R
<1>3. PICK x \in T : \A y \in T : ~(<<y, x>> \in R)
  BY <1>1, <1>2, WFMin
<1>4. x \in Nat /\ x # 0 /\ x - 1 \in Nat
  BY <1>1, <1>3 DEF T
<1>5. <<x - 1, x>> \in R
  BY <1>4 DEF R, OpToRel
<1> QED BY <1>3, <1>4, <1>5 DEF T

\* f is what this recursion over the first n positions computes.
Solves(f, n, v, step) == f[0] = v /\ \A i \in 1..n : f[i] = step[i][f[i - 1]]

\* A recursion over positions has a solution, whatever its step.
LEMMA Recursion ==
    ASSUME NEW V, NEW v \in V, NEW step \in [Nat -> [V -> V]], NEW n \in Nat
    PROVE  \E f \in [0..n -> V] : Solves(f, n, v, step)
<1> DEFINE S == {k \in Nat : \E f \in [0..k -> V] : Solves(f, k, v, step)}
<1>1. 0 \in S
  <2> DEFINE f == [i \in 0..0 |-> v]
  <2>1. f \in [0..0 -> V] /\ f[0] = v /\ \A i \in 1..0 : FALSE
    OBVIOUS
  <2> QED BY <2>1 DEF Solves
<1>2. ASSUME NEW k \in S
      PROVE  k + 1 \in S
  <2>1. PICK f \in [0..k -> V] : Solves(f, k, v, step)
    OBVIOUS
  <2> DEFINE h == [i \in 0..k + 1 |-> IF i <= k THEN f[i] ELSE step[k + 1][f[k]]]
  <2>2. k + 1 \in Nat /\ k \in 0..k /\ f[k] \in V /\ step[k + 1][f[k]] \in V
    OBVIOUS
  <2>3. h \in [0..k + 1 -> V]
    BY <2>2
  <2>4. (\A i \in 0..k : h[i] = f[i]) /\ h[k + 1] = step[k + 1][f[k]]
    OBVIOUS
  <2> HIDE DEF h
  <2>5. ASSUME NEW i \in 1..k + 1
        PROVE  h[i] = step[i][h[i - 1]]
    <3>1. i - 1 \in 0..k /\ (i \in 1..k \/ i = k + 1)
      OBVIOUS
    <3> QED BY <2>1, <2>2, <2>4, <3>1 DEF Solves
  <2>6. h[0] = v
    BY <2>1, <2>4 DEF Solves
  <2> QED BY <2>2, <2>3, <2>5, <2>6 DEF Solves
<1>3. S = Nat
  <2>1. S \in SUBSET Nat
    OBVIOUS
  <2> HIDE DEF S
  <2> QED BY <1>1, <1>2, <2>1, PositionInduction
<1> QED BY <1>3
-----------------------------------------------------------------------------
(* The length of a chunk's lines. *)

\* Sum, as the running total that computes it.
LEMMA SumDef ==
    ASSUME NEW lines \in Seq(Nat), \A i \in 1..Len(lines) : transcript[lines[i]].n \in Nat
    PROVE  \E sum \in [0..Len(lines) -> Nat] :
              /\ sum[0] = 0
              /\ \A i \in 1..Len(lines) : sum[i] = sum[i - 1] + transcript[lines[i]].n
              /\ Sum(lines) = sum[Len(lines)]
<1> DEFINE n == Len(lines)
           Number(i) == IF i \in 1..n THEN transcript[lines[i]].n ELSE 0
           step == [i \in Nat |-> [s \in Nat |-> s + Number(i)]]
           Is(f) == f = [i \in 0..n |-> IF i = 0 THEN 0 ELSE f[i - 1] + transcript[lines[i]].n]
           sum == CHOOSE f : Is(f)
<1>0. n \in Nat /\ \A i \in 1..n : transcript[lines[i]].n \in Nat
  OBVIOUS
<1>1. step \in [Nat -> [Nat -> Nat]]
  <2>1. \A i \in Nat : Number(i) \in Nat
    BY <1>0
  <2> HIDE DEF Number
  <2> DEFINE Adds(i) == [s \in Nat |-> s + Number(i)]
  <2>2. \A i \in Nat : Adds(i) \in [Nat -> Nat]
    BY <2>1
  <2>3. step = [i \in Nat |-> Adds(i)]
    OBVIOUS
  <2> HIDE DEF step, Adds
  <2> QED BY <2>2, <2>3
<1>2. PICK f \in [0..n -> Nat] : Solves(f, n, 0, step)
  <2> HIDE DEF step, n
  <2>1. 0 \in Nat
    OBVIOUS
  <2> QED BY <1>0, <1>1, <2>1, Recursion
<1>3. ASSUME NEW i \in 1..n PROVE step[i][f[i - 1]] = f[i - 1] + transcript[lines[i]].n
  <2>1. i \in Nat /\ i - 1 \in 0..n /\ f[i - 1] \in Nat /\ Number(i) = transcript[lines[i]].n
    BY <1>0
  <2> HIDE DEF Number
  <2> QED BY <2>1
<1>4. Is(f)
  <2> HIDE DEF step
  <2>1. \A i \in 0..n : f[i] = IF i = 0 THEN 0 ELSE f[i - 1] + transcript[lines[i]].n
    BY <1>0, <1>2, <1>3 DEF Solves
  <2> QED BY <2>1
<1>5. Is(sum)
  <2> HIDE DEF Is
  <2> QED BY <1>4
<1>6. Sum(lines) = sum[n]
  BY DEF Sum
<1> HIDE DEF sum
<1>7. sum[0] = 0 /\ \A i \in 1..n : sum[i] = sum[i - 1] + transcript[lines[i]].n
  BY <1>0, <1>5
<1>8. sum \in [0..n -> Nat]
  <2> DEFINE S == {i \in Nat : i <= n => sum[i] \in Nat}
  <2>1. 0 \in S
    BY <1>7
  <2>2. ASSUME NEW i \in S PROVE i + 1 \in S
    <3>1. SUFFICES ASSUME i + 1 <= n PROVE sum[i + 1] \in Nat
      OBVIOUS
    <3>2. i + 1 \in 1..n /\ (i + 1) - 1 = i /\ sum[i] \in Nat
      BY <1>0, <3>1
    <3>3. sum[i + 1] = sum[i] + transcript[lines[i + 1]].n
      BY <1>7, <3>2
    <3> HIDE DEF n, Number
    <3> QED BY <1>0, <3>2, <3>3
  <2>3. S = Nat
    <3>1. S \in SUBSET Nat
      OBVIOUS
    <3> HIDE DEF S
    <3> QED BY <2>1, <2>2, <3>1, PositionInduction
  <2>4. \A i \in 0..n : sum[i] \in Nat
    BY <1>0, <2>3
  <2> QED BY <1>5, <2>4
<1> QED BY <1>6, <1>7, <1>8

\* Adding a line adds its length.
LEMMA SumAppend ==
    ASSUME NEW lines \in Seq(Nat), NEW k \in Nat,
           \A i \in 1..Len(lines) : transcript[lines[i]].n \in Nat,
           transcript[k].n \in Nat
    PROVE  /\ Sum(lines) \in Nat
           /\ Sum(Append(lines, k)) = Sum(lines) + transcript[k].n
<1> DEFINE more == Append(lines, k)
           n == Len(lines)
<1>1. /\ n \in Nat /\ more \in Seq(Nat) /\ Len(more) = n + 1
      /\ \A i \in 1..n : more[i] = lines[i]
      /\ more[n + 1] = k
  OBVIOUS
<1> HIDE DEF more
<1>2. ASSUME NEW i \in 1..Len(more) PROVE transcript[more[i]].n \in Nat
  <2>1. i \in 1..n \/ i = n + 1
    BY <1>1
  <2> QED BY <1>1, <2>1
<1>3. PICK sum \in [0..n -> Nat] :
          /\ sum[0] = 0
          /\ \A i \in 1..n : sum[i] = sum[i - 1] + transcript[lines[i]].n
          /\ Sum(lines) = sum[n]
  BY SumDef
<1>4. PICK total \in [0..n + 1 -> Nat] :
          /\ total[0] = 0
          /\ \A i \in 1..n + 1 : total[i] = total[i - 1] + transcript[more[i]].n
          /\ Sum(more) = total[n + 1]
  BY <1>1, <1>2, SumDef
<1> DEFINE S == {i \in Nat : i <= n => total[i] = sum[i]}
<1>5. 0 \in S
  BY <1>3, <1>4
<1>6. ASSUME NEW i \in S PROVE i + 1 \in S
  <2>1. SUFFICES ASSUME i + 1 <= n PROVE total[i + 1] = sum[i + 1]
    OBVIOUS
  <2>2. i + 1 \in 1..n /\ i + 1 \in 1..n + 1 /\ (i + 1) - 1 = i /\ total[i] = sum[i]
    BY <1>1, <2>1
  <2> QED BY <1>1, <1>3, <1>4, <2>2
<1>7. S = Nat
  <2>1. S \in SUBSET Nat
    OBVIOUS
  <2> HIDE DEF S
  <2> QED BY <1>5, <1>6, <2>1, PositionInduction
<1>8. total[n] = sum[n] /\ n + 1 \in 1..n + 1 /\ (n + 1) - 1 = n
  BY <1>1, <1>7
<1>9. total[n + 1] = total[n] + transcript[more[n + 1]].n
  BY <1>4, <1>8
<1>10. Sum(more) = sum[n] + transcript[k].n /\ sum[n] \in Nat
  <2>1. n \in 0..n
    BY <1>1
  <2> HIDE DEF n
  <2> QED BY <1>1, <1>4, <1>8, <1>9, <2>1
<1> QED BY <1>3, <1>10 DEF more
\* A chunk of one line.
LEMMA SumOne ==
    ASSUME NEW k \in Nat, transcript[k].n \in Nat
    PROVE  Sum(<<k>>) = transcript[k].n
<1>1. PICK sum \in [0..1 -> Nat] :
          /\ sum[0] = 0
          /\ \A i \in 1..1 : sum[i] = sum[i - 1] + transcript[<<k>>[i]].n
          /\ Sum(<<k>>) = sum[1]
  <2>1. <<k>> \in Seq(Nat) /\ Len(<<k>>) = 1 /\ \A i \in 1..1 : transcript[<<k>>[i]].n \in Nat
    OBVIOUS
  <2> QED BY <2>1, SumDef
<1>2. 1 \in 1..1 /\ <<k>>[1] = k /\ sum[1] = sum[1 - 1] + transcript[<<k>>[1]].n
  BY <1>1
<1> QED BY <1>1, <1>2
-----------------------------------------------------------------------------
(* The operations of Builder. *)

OpenRecord(b) ==
    [heading |-> b.heading, page |-> b.page, lines |-> b.lines, size |-> b.size]

\* Flush appends the open chunk, if there is one, and leaves none open.
LEMMA FlushType ==
    ASSUME NEW b \in Builder
    PROVE  /\ Flush(b) \in Builder
           /\ Flush(b).lines = <<>>
           /\ Flush(b).heading = b.heading
           /\ Flush(b).chunks = IF b.lines = <<>> THEN b.chunks
                                ELSE Append(b.chunks, OpenRecord(b))
<1>1. CASE b.lines = <<>>
  BY <1>1 DEF Flush, Builder
<1>2. CASE b.lines # <<>>
  <2> DEFINE r == OpenRecord(b)
             chunks == Append(b.chunks, r)
  <2>1. /\ b.chunks \in Seq(Chunk) /\ b.heading \in Headings \cup {0}
        /\ b.page \in Pages
        /\ b.lines \in Seq(Nat \ {0}) /\ b.size \in Nat
    BY DEF Builder
  <2>2. r \in Chunk
    BY <1>2, <2>1 DEF OpenRecord, Chunk
  <2>3. chunks \in Seq(Chunk)
    <3> HIDE DEF r
    <3> QED BY <2>1, <2>2
  <2>4. Flush(b) = [b EXCEPT !.chunks = chunks, !.lines = <<>>, !.size = 0]
    BY <1>2 DEF Flush, OpenRecord
  <2>5. <<>> \in Seq(Nat \ {0})
    OBVIOUS
  <2> HIDE DEF r, chunks
  <2>6. Flush(b) = [chunks |-> chunks, heading |-> b.heading, page |-> b.page,
                    lines |-> <<>>, size |-> 0]
    BY <2>4 DEF Builder
  <2>7. Flush(b) \in Builder
    BY <2>1, <2>3, <2>5, <2>6 DEF Builder
  <2> QED BY <1>2, <2>6, <2>7 DEF r, chunks
<1> QED BY <1>1, <1>2

\* A new section changes no chunk.
LEMMA SectionKeepsChunks ==
    ASSUME NEW b \in Builder,
           NEW h \in Headings
    PROVE  /\ StartSection(b, h) \in Builder
           /\ StartSection(b, h).heading = h
           /\ StartSection(b, h).lines = <<>>
           /\ StartSection(b, h).chunks = Flush(b).chunks
           /\ Flush(StartSection(b, h)).chunks = Flush(b).chunks
<1>1. Flush(b) \in Builder /\ Flush(b).lines = <<>>
  BY FlushType
<1> HIDE DEF Flush
<1>2. StartSection(b, h) = [Flush(b) EXCEPT !.heading = h]
  BY DEF StartSection
<1>3. /\ StartSection(b, h) \in Builder
      /\ StartSection(b, h).heading = h
      /\ StartSection(b, h).lines = <<>>
      /\ StartSection(b, h).chunks = Flush(b).chunks
  BY <1>1, <1>2 DEF Builder
<1>4. Flush(StartSection(b, h)) = StartSection(b, h)
  BY <1>3 DEF Flush
<1> QED BY <1>3, <1>4

\* A body line begins a chunk, or extends the open one within the budget.
LEMMA LinePushed ==
    ASSUME NEW b \in Builder,
           NEW k \in Nat \ {0}, NEW n \in Lengths, NEW p \in Pages
    PROVE  LET c == PushLine(b, k, n, p)
           IN  /\ c \in Builder
               /\ c.heading = b.heading
               /\ c.lines # <<>>
               /\ c.page \in Pages
               /\ \/ /\ b.lines = <<>> \/ b.size + 1 + n > MaxChunkChars
                     /\ c.lines = <<k>> /\ c.size = n /\ c.page = p
                     /\ c.chunks = Flush(b).chunks
                  \/ /\ b.lines # <<>> /\ b.size + 1 + n <= MaxChunkChars
                     /\ c.lines = Append(b.lines, k) /\ c.size = b.size + 1 + n
                     /\ c.page = b.page
                     /\ c.chunks = b.chunks
<1> DEFINE c == PushLine(b, k, n, p)
<1>0. n \in Nat /\ MaxChunkChars \in Nat /\ b.size \in Nat
  <2>1. n \in Nat
    BY DEF Lengths
  <2>2. b.size \in Nat
    BY DEF Builder
  <2> QED BY <2>1, <2>2, ChunkingAssumption
<1>1. CASE b.lines = <<>> \/ b.size + 1 + n > MaxChunkChars
  <2>1. Flush(b) \in Builder /\ Flush(b).heading = b.heading
    BY FlushType
  <2>2. c = [Flush(b) EXCEPT !.page = p, !.lines = <<k>>, !.size = n]
    BY <1>1 DEF PushLine, OpenChunk
  <2>3. <<k>> \in Seq(Nat \ {0}) /\ <<k>> # <<>>
    OBVIOUS
  <2> HIDE DEF c
  <2>4. c \in Builder /\ c.heading = b.heading /\ c.lines = <<k>> /\ c.size = n
        /\ c.page = p /\ c.chunks = Flush(b).chunks
    BY <1>0, <2>1, <2>2, <2>3 DEF Builder
  <2> QED BY <1>1, <2>3, <2>4 DEF c
<1>2. CASE ~(b.lines = <<>> \/ b.size + 1 + n > MaxChunkChars)
  <2>1. c = [b EXCEPT !.lines = Append(@, k), !.size = @ + 1 + n]
    BY <1>2 DEF PushLine, ExtendChunk
  <2> DEFINE lines == Append(b.lines, k)
             size == b.size + 1 + n
  <2>0. b.lines \in Seq(Nat \ {0})
    BY DEF Builder
  <2>6. lines \in Seq(Nat \ {0}) /\ lines # <<>>
    BY <2>0
  <2>7. size \in Nat
    BY <1>0
  <2>2. lines \in Seq(Nat \ {0}) /\ lines # <<>> /\ size \in Nat
    BY <2>6, <2>7
  <2>4. c = [b EXCEPT !.lines = lines, !.size = size]
    BY <2>1
  <2> HIDE DEF c, lines, size
  <2>5. c = [chunks |-> b.chunks, heading |-> b.heading, page |-> b.page,
             lines |-> lines, size |-> size]
    BY <2>4 DEF Builder
  <2>3. c \in Builder /\ c.heading = b.heading /\ c.lines = lines /\ c.size = size
        /\ c.page = b.page /\ c.chunks = b.chunks
    BY <2>2, <2>5 DEF Builder
  <2>8. b.lines # <<>> /\ b.size + 1 + n <= MaxChunkChars
    BY <1>0, <1>2
  <2>9. b.page \in Pages
    BY DEF Builder
  <2> QED BY <2>2, <2>3, <2>8, <2>9 DEF c, lines, size
<1> QED BY <1>1, <1>2
-----------------------------------------------------------------------------
(* The inductive invariant. *)

\* What is true of a chunk, the open one included, when the first k of these
\* lines have been read.
ChunkOK(c, lines, k) ==
    /\ Len(c.lines) >= 1
    /\ c.lines[1] \in 1..k
    /\ c.lines[Len(c.lines)] \in c.lines[1]..k
    /\ c.size <= MaxChunkChars \/ Len(c.lines) = 1
    /\ InForce(lines, "page", c.lines[1], c.page, 1)
    /\ InForce(lines, "heading", c.lines[1], c.heading, 0)
    /\ NoHeading(lines, c.lines[1], c.lines[Len(c.lines)])

\* The first line of chunk d did not fit into the chunk c before it.
Separate(c, d, lines) ==
    NoHeading(lines, c.lines[1], d.lines[1]) =>
        c.size + 1 + lines[d.lines[1]].n > MaxChunkChars

ChunksOK ==
    /\ \A c \in DOMAIN Chunks : ChunkOK(Chunks[c], transcript, pos)
    /\ \A c \in 1..Len(Chunks) - 1 : Separate(Chunks[c], Chunks[c + 1], transcript)

\* Nothing is read before the transcript is complete or after split returned.
Phases ==
    /\ rendered < Len(doc) => pos = 0
    /\ pos = 0 => builder = NewBuilder /\ page = 1
    /\ finished => rendered = Len(doc) /\ pos = Len(transcript)

\* What split remembers of the lines read, and why no chunk is open.
Context ==
    /\ InForce(transcript, "page", pos + 1, page, 1)
    /\ InForce(transcript, "heading", pos + 1, builder.heading, 0)
    /\ builder.lines # <<>> =>
          /\ builder.page \in Pages
          /\ NoHeading(transcript, builder.lines[1], pos)
    /\ builder.lines = <<>> /\ builder.chunks # <<>> /\ ~finished =>
          ~NoHeading(transcript, builder.chunks[Len(builder.chunks)].lines[1], pos)

IInv == TypeOK /\ Phases /\ Context /\ ChunksOK

\* A line of another kind changes nothing about what is in force ...
LEMMA StaysInForce ==
    ASSUME NEW lines, NEW kind, NEW k \in Nat \ {0}, NEW n, NEW default,
           InForce(lines, kind, k, n, default),
           lines[k].kind # kind
    PROVE  InForce(lines, kind, k + 1, n, default)
<1>1. (k + 1) - 1 = k /\ \A i \in 1..k : i \in 1..k - 1 \/ i = k
  OBVIOUS
<1>2. \A i \in 1..k - 1 : i \in 1..k /\ \A j \in i + 1..k : j \in i + 1..k - 1 \/ j = k
  OBVIOUS
<1> QED BY <1>1, <1>2 DEF InForce

\* ... and a line of the kind replaces it.
LEMMA ComesIntoForce ==
    ASSUME NEW lines, NEW kind, NEW k \in Nat \ {0}, NEW n, NEW default,
           lines[k] = [kind |-> kind, n |-> n]
    PROVE  InForce(lines, kind, k + 1, n, default)
<1>1. (k + 1) - 1 = k /\ k \in 1..k /\ \A j \in k + 1..k : FALSE
  OBVIOUS
<1> QED BY <1>1 DEF InForce

\* Reading on changes nothing about the chunks there are.
LEMMA ChunkStaysOK ==
    ASSUME NEW c, NEW lines, NEW k \in Nat, ChunkOK(c, lines, k)
    PROVE  ChunkOK(c, lines, k + 1)
<1>1. c.lines[1] \in 1..k + 1 /\ c.lines[Len(c.lines)] \in c.lines[1]..k + 1
  BY DEF ChunkOK
<1> QED BY <1>1 DEF ChunkOK
-----------------------------------------------------------------------------
(* The transcript is a sequence of lines, rendered or edited. *)

LEMMA DocumentType == ASSUME NEW d \in Documents PROVE d \in Seq(DocLine)
BY DEF Documents

LEMMA RenderType ==
    ASSUME TypeOK, RenderLine
    PROVE  transcript' \in Seq(Line)
<1> DEFINE i == rendered + 1
<1>1. doc[i] \in DocLine
  BY DEF TypeOK, RenderLine
<1>2. Blank \in Line /\ [kind |-> "page", n |-> doc[i].page] \in Line
      /\ [kind |-> doc[i].kind, n |-> doc[i].n] \in Line
  BY <1>1 DEF Blank, Line, DocLine
<1>3. Marker(i) \in Seq(Line)
  BY <1>2 DEF Marker
<1>4. Text(i) \in Seq(Line)
  BY <1>2 DEF Text
<1> HIDE DEF i
<1>5. transcript' = (transcript \o Marker(i)) \o Text(i)
  BY DEF RenderLine, i
<1>6. transcript \o Marker(i) \in Seq(Line)
  BY <1>3 DEF TypeOK
<1> QED BY <1>4, <1>5, <1>6

LEMMA EditType ==
    ASSUME TypeOK, Edit
    PROVE  transcript' \in Seq(Line)
<1>0. transcript \in Seq(Line)
  BY DEF TypeOK
<1>1. \A i \in 1..Len(transcript) + 1 :
         /\ SubSeq(transcript, 1, i - 1) \in Seq(Line)
         /\ SubSeq(transcript, i, Len(transcript)) \in Seq(Line)
  BY <1>0
<1>2. ASSUME NEW i \in 1..Len(transcript) + 1, NEW line \in Line
      PROVE  InsertAt(transcript, i, line) \in Seq(Line)
  BY <1>1, <1>2 DEF InsertAt
<1>3. ASSUME NEW i \in 1..Len(transcript), NEW line \in Line
      PROVE  ReplaceAt(transcript, i, line) \in Seq(Line)
  BY <1>0, <1>3 DEF ReplaceAt
<1>4. ASSUME NEW i \in 1..Len(transcript)
      PROVE  RemoveAt(transcript, i) \in Seq(Line)
  <2>1. SubSeq(transcript, 1, i - 1) \in Seq(Line)
        /\ SubSeq(transcript, i + 1, Len(transcript)) \in Seq(Line)
    BY <1>0, <1>1, i + 1 \in 1..Len(transcript) + 1
  <2> QED BY <2>1 DEF RemoveAt
<1>5. TypedLines \subseteq Line
  BY ChunkingAssumption
<1> QED BY <1>2, <1>3, <1>4, <1>5 DEF Edit

\* Before anything is read the invariant says little.
LEMMA NewBuilderType ==
    NewBuilder \in Builder /\ Flush(NewBuilder).chunks = <<>>
BY DEF NewBuilder, Builder, Flush, Pages

LEMMA NothingInForce ==
    ASSUME NEW lines, NEW kind, NEW n
    PROVE  InForce(lines, kind, 0 + 1, n, n)
BY DEF InForce

LEMMA InitIInv == Init => IInv
<1> SUFFICES ASSUME Init PROVE IInv
  OBVIOUS
<1>1. TypeOK
  <2>1. doc \in Seq(DocLine)
    BY DocumentType DEF Init
  <2>2. transcript = <<>> /\ transcript \in Seq(Line) /\ Len(transcript) = 0
    BY DEF Init
  <2>3. rendered \in 0..Len(doc) /\ pos \in 0..Len(transcript)
    BY <2>1, <2>2 DEF Init
  <2>4. page \in Pages
    BY DEF Init, Pages
  <2> QED BY <2>1, <2>2, <2>3, <2>4, NewBuilderType DEF Init, TypeOK
<1>2. Phases
  BY DEF Init, Phases
<1>3. Context
  <2>1. pos = 0 /\ page = 1 /\ builder.heading = 0 /\ builder.lines = <<>> /\ builder.chunks = <<>>
    BY DEF Init, NewBuilder
  <2> QED BY <2>1, NothingInForce DEF Context
<1>4. ChunksOK
  BY NewBuilderType DEF Init, ChunksOK, Chunks
<1> QED BY <1>1, <1>2, <1>3, <1>4 DEF IInv
-----------------------------------------------------------------------------
(* Each action preserves it. *)

\* As long as split has read nothing the transcript may be anything.
LEMMA NothingRead ==
    ASSUME IInv, TypeOK', Phases', pos' = 0
    PROVE  IInv'
<1>1. builder' = NewBuilder /\ page' = 1 /\ pos' = 0
  BY DEF Phases
<1>2. Context'
  <2>1. builder'.heading = 0 /\ builder'.lines = <<>> /\ builder'.chunks = <<>>
    BY <1>1 DEF NewBuilder
  <2> QED BY <1>1, <2>1, NothingInForce DEF Context
<1>3. ChunksOK'
  BY <1>1, NewBuilderType DEF ChunksOK, Chunks
<1> QED BY <1>2, <1>3 DEF IInv

LEMMA RenderLineIInv == IInv /\ RenderLine => IInv'
<1> SUFFICES ASSUME IInv, RenderLine PROVE IInv'
  OBVIOUS
<1>0. pos = 0 /\ ~finished /\ rendered' \in 0..Len(doc)
  BY DEF IInv, TypeOK, Phases, RenderLine
<1>1. TypeOK'
  <2>1. transcript' \in Seq(Line)
    BY RenderType DEF IInv
  <2> QED BY <1>0, <2>1 DEF IInv, TypeOK, RenderLine
<1>2. Phases' /\ pos' = 0
  BY <1>0 DEF IInv, Phases, RenderLine
<1> QED BY <1>1, <1>2, NothingRead

LEMMA EditIInv == IInv /\ Edit => IInv'
<1> SUFFICES ASSUME IInv, Edit PROVE IInv'
  OBVIOUS
<1>0. pos = 0 /\ ~finished /\ edits' = edits + 1
      /\ UNCHANGED <<doc, rendered, pos, page, builder, finished>>
  BY DEF Edit
<1>1. TypeOK'
  <2>1. transcript' \in Seq(Line)
    BY EditType DEF IInv
  <2>2. pos' \in 0..Len(transcript')
    BY <1>0, <2>1
  <2> QED BY <1>0, <2>1, <2>2 DEF IInv, TypeOK
<1>2. Phases' /\ pos' = 0
  BY <1>0 DEF IInv, Phases
<1> QED BY <1>1, <1>2, NothingRead

\* What the open chunk and the heading mean for the flushed builder.
LEMMA BuilderFlushed ==
    ASSUME IInv
    PROVE  /\ builder \in Builder
           /\ builder.lines # <<>> => builder.page \in Pages
           /\ Chunks \in Seq(Chunk)
           /\ Chunks = IF builder.lines = <<>> THEN builder.chunks
                       ELSE Append(builder.chunks, OpenRecord(builder))
<1>1. builder \in Builder /\ (builder.lines # <<>> => builder.page \in Pages)
  BY DEF IInv, TypeOK, Context
<1>2. Flush(builder) \in Builder
  BY <1>1, FlushType
<1>3. Chunks \in Seq(Chunk)
  BY <1>2 DEF Chunks, Builder
<1> QED BY <1>1, <1>3, FlushType DEF Chunks

LEMMA Appended ==
    ASSUME NEW s \in Seq(Chunk), NEW c
    PROVE  /\ Len(Append(s, c)) = Len(s) + 1
           /\ DOMAIN Append(s, c) = 1..Len(s) + 1
           /\ \A i \in 1..Len(s) : Append(s, c)[i] = s[i]
           /\ Append(s, c)[Len(s) + 1] = c
OBVIOUS

\* Chunks are the closed chunks and then the open one.
LEMMA ClosedAndOpen ==
    ASSUME IInv
    PROVE  LET n == Len(builder.chunks)
           IN  /\ n \in Nat /\ builder.chunks \in Seq(Chunk)
               /\ \A i \in 1..n : i \in DOMAIN Chunks /\ Chunks[i] = builder.chunks[i]
               /\ builder.lines = <<>> => Len(Chunks) = n
               /\ builder.lines # <<>> =>
                     Len(Chunks) = n + 1 /\ Chunks[n + 1] = OpenRecord(builder)
<1>1. builder.chunks \in Seq(Chunk)
  BY BuilderFlushed DEF Builder
<1>2. CASE builder.lines = <<>>
  BY <1>1, <1>2, BuilderFlushed
<1>3. CASE builder.lines # <<>>
  <2> DEFINE r == OpenRecord(builder)
  <2>1. Chunks = Append(builder.chunks, r)
    BY <1>3, BuilderFlushed
  <2> HIDE DEF r
  <2>2. /\ Len(Chunks) = Len(builder.chunks) + 1 /\ DOMAIN Chunks = 1..Len(builder.chunks) + 1
        /\ \A i \in 1..Len(builder.chunks) : Chunks[i] = builder.chunks[i]
        /\ Chunks[Len(builder.chunks) + 1] = r
    BY <1>1, <2>1, Appended
  <2>3. \A i \in 1..Len(builder.chunks) : i \in 1..Len(builder.chunks) + 1
    BY <1>1
  <2> QED BY <1>1, <1>3, <2>2, <2>3 DEF r
<1> QED BY <1>2, <1>3

\* Reading a line that leaves the chunks as they are keeps them as they should be.
LEMMA SameChunks ==
    ASSUME IInv, transcript' = transcript, pos' \in {pos, pos + 1}, Chunks' = Chunks
    PROVE  ChunksOK'
<1>1. pos \in Nat
  BY DEF IInv, TypeOK
<1>2. \A c \in DOMAIN Chunks : ChunkOK(Chunks[c], transcript, pos')
  BY <1>1, ChunkStaysOK DEF IInv, ChunksOK
<1> QED BY <1>2 DEF IInv, ChunksOK

LEMMA FinishIInv == IInv /\ Finish => IInv'
<1> SUFFICES ASSUME IInv, Finish PROVE IInv'
  OBVIOUS
<1> USE BuilderFlushed
<1>0. /\ builder' = Flush(builder) /\ builder' \in Builder
      /\ builder'.lines = <<>> /\ builder'.heading = builder.heading
  BY FlushType DEF Finish
<1>1. TypeOK'
  BY <1>0 DEF IInv, TypeOK, Finish
<1>2. Phases'
  BY NewBuilderType DEF IInv, Phases, Finish, NewBuilder, Flush
<1>3. Context'
  BY <1>0 DEF IInv, Context, Finish
<1>4. ChunksOK'
  <2>1. Chunks' = Chunks
    BY <1>0 DEF Chunks, Flush
  <2> QED BY <2>1, SameChunks DEF Finish
<1> QED BY <1>1, <1>2, <1>3, <1>4 DEF IInv
-----------------------------------------------------------------------------
(* ScanLine, by the kind of the line. *)

\* What every turn of split's loop has in common.
LEMMA Scanned ==
    ASSUME IInv, ScanLine
    PROVE  /\ pos \in Nat /\ pos' = pos + 1 /\ pos' \in 1..Len(transcript)
           /\ transcript[pos'] \in Line
           /\ ~finished
           /\ UNCHANGED <<doc, rendered, transcript, edits, finished>>
           /\ builder' \in Builder /\ page' \in Pages => TypeOK' /\ Phases'
<1>1. /\ pos \in Nat /\ pos' = pos + 1 /\ pos' \in 1..Len(transcript)
      /\ UNCHANGED <<doc, rendered, transcript, edits, finished>>
  BY DEF IInv, TypeOK, ScanLine
<1>2. transcript[pos'] \in Line
  BY <1>1 DEF IInv, TypeOK
<1>3. ~finished
  BY <1>1 DEF IInv, Phases
<1>4. ASSUME builder' \in Builder, page' \in Pages
      PROVE  TypeOK'
  BY <1>1, <1>4 DEF IInv, TypeOK
<1>5. Phases'
  BY <1>1, <1>3 DEF Phases, ScanLine
<1> QED BY <1>1, <1>2, <1>3, <1>4, <1>5

\* A blank line or a page marker.
LEMMA ScanOther ==
    ASSUME IInv, ScanLine, UNCHANGED builder,
           transcript[pos'].kind # "heading",
           \/ transcript[pos'].kind # "page" /\ UNCHANGED page
           \/ transcript[pos'] = [kind |-> "page", n |-> page']
    PROVE  IInv'
<1> USE Scanned
<1>1. page' \in Pages
  BY DEF IInv, TypeOK, Line
<1>2. TypeOK' /\ Phases'
  BY <1>1, BuilderFlushed
<1>3. ChunksOK'
  BY SameChunks DEF Chunks
<1>4. Context'
  <2>1. InForce(transcript, "page", pos' + 1, page', 1)
    BY StaysInForce, ComesIntoForce DEF IInv, Context
  <2>2. InForce(transcript, "heading", pos' + 1, builder.heading, 0)
    BY StaysInForce DEF IInv, Context
  <2>3. ASSUME NEW i \in Nat
        PROVE  NoHeading(transcript, i, pos) <=> NoHeading(transcript, i, pos')
    BY DEF NoHeading
  <2>4. builder.lines # <<>> => builder.lines[1] \in Nat
    BY BuilderFlushed DEF Builder
  <2>5. builder.chunks # <<>> => builder.chunks[Len(builder.chunks)].lines[1] \in Nat
    <3>1. SUFFICES ASSUME builder.chunks # <<>>
                   PROVE  builder.chunks[Len(builder.chunks)].lines[1] \in Nat
      OBVIOUS
    <3>2. Len(builder.chunks) \in 1..Len(builder.chunks)
      BY <3>1, ClosedAndOpen
    <3>3. /\ Len(builder.chunks) \in DOMAIN Chunks
          /\ Chunks[Len(builder.chunks)] = builder.chunks[Len(builder.chunks)]
      BY <3>2, ClosedAndOpen
    <3> QED BY <3>3 DEF IInv, ChunksOK, ChunkOK
  <2> QED BY <2>1, <2>2, <2>3, <2>4, <2>5 DEF IInv, Context
<1> QED BY <1>2, <1>3, <1>4 DEF IInv

\* A heading closes the open chunk.
LEMMA ScanHeading ==
    ASSUME IInv, ScanLine,
           transcript[pos'] \in [kind : {"heading"}, n : Headings],
           builder' = StartSection(builder, transcript[pos'].n), UNCHANGED page
    PROVE  IInv'
<1> USE Scanned
<1> DEFINE h == transcript[pos'].n
           k == pos'
<1>0. h \in Headings /\ transcript[k] = [kind |-> "heading", n |-> h]
  OBVIOUS
<1>1. /\ builder' \in Builder /\ builder'.heading = h /\ builder'.lines = <<>>
      /\ builder'.chunks = Chunks /\ Chunks' = Chunks
  BY <1>0, BuilderFlushed, SectionKeepsChunks DEF Chunks
<1>2. TypeOK' /\ Phases'
  BY <1>1 DEF IInv, TypeOK
<1>3. ChunksOK'
  BY <1>1, SameChunks
<1>4. Context'
  <2>1. InForce(transcript, "page", k + 1, page', 1)
    BY <1>0, StaysInForce DEF IInv, Context
  <2>2. InForce(transcript, "heading", k + 1, h, 0)
    BY <1>0, ComesIntoForce
  <2>3. ASSUME Chunks # <<>>
        PROVE  ~NoHeading(transcript, Chunks[Len(Chunks)].lines[1], k)
    <3>1. Len(Chunks) \in DOMAIN Chunks
      BY <2>3, BuilderFlushed
    <3>2. Chunks[Len(Chunks)].lines[1] \in 1..pos
      BY <3>1 DEF IInv, ChunksOK, ChunkOK
    <3>3. k \in Chunks[Len(Chunks)].lines[1]..k
      BY <3>2
    <3> QED BY <1>0, <3>3 DEF NoHeading
  <2> QED BY <1>1, <2>1, <2>2, <2>3 DEF Context
<1> QED BY <1>2, <1>3, <1>4 DEF IInv

\* A body line begins a chunk of its own.
LEMMA ScanBegins ==
    ASSUME IInv, ScanLine, UNCHANGED page,
           NEW n \in Lengths, transcript[pos'] = [kind |-> "body", n |-> n],
           builder.lines = <<>> \/ builder.size + 1 + n > MaxChunkChars,
           builder' \in Builder, builder'.heading = builder.heading,
           builder'.lines = <<pos'>>, builder'.size = n, builder'.page = page,
           builder'.chunks = Chunks
    PROVE  IInv'
<1> USE Scanned
<1> DEFINE k == pos'
           r == OpenRecord(builder')
<1>0. page \in Pages /\ <<k>> # <<>> /\ Len(<<k>>) = 1 /\ <<k>>[1] = k
  BY DEF IInv, TypeOK
<1>1. TypeOK' /\ Phases'
  BY <1>0
<1>2. /\ InForce(transcript, "page", k, page, 1)
      /\ InForce(transcript, "heading", k, builder.heading, 0)
      /\ NoHeading(transcript, k, k)
  BY DEF IInv, Context, NoHeading
<1>3. Context'
  <2>1. InForce(transcript, "page", k + 1, page, 1)
        /\ InForce(transcript, "heading", k + 1, builder.heading, 0)
    BY <1>2, StaysInForce
  <2> QED BY <1>0, <1>2, <2>1 DEF Context
<1>4. r.lines = <<k>> /\ r.page = page /\ r.heading = builder.heading /\ r.size = n
  BY DEF OpenRecord
<1>5. ChunkOK(r, transcript, k)
  <2> HIDE DEF r
  <2>1. k \in 1..k
    OBVIOUS
  <2> QED BY <1>0, <1>2, <1>4, <2>1 DEF ChunkOK
<1>6. ASSUME Chunks # <<>>
      PROVE  Separate(Chunks[Len(Chunks)], r, transcript)
  <2> DEFINE c == Chunks[Len(Chunks)]
  <2>1. Len(Chunks) \in DOMAIN Chunks
    BY <1>6, BuilderFlushed
  <2>2. c.lines[1] \in 1..pos
    BY <2>1 DEF IInv, ChunksOK, ChunkOK
  <2>3. CASE builder.lines = <<>>
    <3>1. builder.chunks = Chunks
      BY <2>3, BuilderFlushed
    <3>2. ~NoHeading(transcript, c.lines[1], pos)
      BY <1>6, <2>3, <3>1 DEF IInv, Context
    <3>3. ~NoHeading(transcript, c.lines[1], k)
      BY <2>2, <3>2 DEF NoHeading
    <3> QED BY <1>0, <1>4, <3>3 DEF Separate
  <2>4. CASE builder.lines # <<>>
    <3>1. c = OpenRecord(builder)
      BY <2>4, ClosedAndOpen
    <3>2. c.size = builder.size
      BY <3>1 DEF OpenRecord
    <3>3. transcript[r.lines[1]].n = n
      BY <1>0, <1>4
    <3>4. Separate(c, r, transcript)
      <4> HIDE DEF c, r
      <4> QED BY <2>4, <3>2, <3>3 DEF Separate
    <3> QED BY <3>4
  <2> QED BY <2>3, <2>4
<1>7. Chunks' = Append(Chunks, r)
  <2>1. Flush(builder').chunks = Append(builder'.chunks, r)
    BY <1>0, FlushType
  <2> QED BY <2>1 DEF Chunks
<1>8. ChunksOK'
  <2> HIDE DEF r
  <2>1. Chunks \in Seq(Chunk)
    BY BuilderFlushed
  <2>2. /\ Len(Chunks') = Len(Chunks) + 1 /\ DOMAIN Chunks' = 1..Len(Chunks) + 1
        /\ \A i \in 1..Len(Chunks) : Chunks'[i] = Chunks[i]
        /\ Chunks'[Len(Chunks) + 1] = r
    BY <1>7, <2>1, Appended
  <2>3. \A c \in DOMAIN Chunks' : ChunkOK(Chunks'[c], transcript, k)
    <3>1. \A c \in 1..Len(Chunks) : ChunkOK(Chunks[c], transcript, k)
      BY <2>1, ChunkStaysOK DEF IInv, ChunksOK
    <3> QED BY <1>5, <2>1, <2>2, <3>1
  <2>4. \A c \in 1..Len(Chunks') - 1 : Separate(Chunks'[c], Chunks'[c + 1], transcript)
    <3>1. SUFFICES ASSUME NEW c \in 1..Len(Chunks)
                   PROVE  Separate(Chunks'[c], Chunks'[c + 1], transcript)
      BY <2>1, <2>2
    <3>2. CASE c = Len(Chunks)
      BY <1>6, <2>1, <2>2, <3>2
    <3>3. CASE c \in 1..Len(Chunks) - 1
      BY <2>1, <2>2, <3>3 DEF IInv, ChunksOK
    <3> QED BY <2>1, <3>2, <3>3
  <2> QED BY <2>3, <2>4 DEF ChunksOK
<1> QED BY <1>1, <1>3, <1>8 DEF IInv

\* A body line extends the open chunk, within the budget.
LEMMA ScanExtends ==
    ASSUME IInv, ScanLine, UNCHANGED page,
           NEW n \in Lengths, transcript[pos'] = [kind |-> "body", n |-> n],
           builder.lines # <<>>, builder.size + 1 + n <= MaxChunkChars,
           builder' \in Builder, builder'.heading = builder.heading,
           builder'.lines = Append(builder.lines, pos'),
           builder'.size = builder.size + 1 + n, builder'.page = builder.page,
           builder'.chunks = builder.chunks
    PROVE  IInv'
<1> USE Scanned
<1> DEFINE k == pos'
           m == Len(builder.chunks)
           old == OpenRecord(builder)
           new == OpenRecord(builder')
<1>0. page \in Pages /\ builder.lines \in Seq(Nat \ {0})
  BY DEF IInv, TypeOK, Builder
<1>1. TypeOK' /\ Phases'
  BY <1>0
<1>2. /\ Len(builder'.lines) = Len(builder.lines) + 1 /\ Len(builder.lines) \in Nat \ {0}
      /\ builder'.lines # <<>>
      /\ builder'.lines[1] = builder.lines[1]
      /\ builder'.lines[Len(builder'.lines)] = k
  BY <1>0
<1>3. /\ m \in Nat /\ Len(Chunks) = m + 1 /\ Chunks[m + 1] = old
      /\ \A i \in 1..m : Chunks[i] = builder.chunks[i]
      /\ Chunks \in Seq(Chunk) /\ builder.chunks \in Seq(Chunk)
  BY ClosedAndOpen, BuilderFlushed
<1>4. ChunkOK(old, transcript, pos)
  <2>1. m + 1 \in DOMAIN Chunks
    BY <1>3
  <2> QED BY <1>3, <2>1 DEF IInv, ChunksOK
<1>5. builder.lines[1] \in 1..pos
  BY <1>4 DEF ChunkOK, OpenRecord
<1>6. NoHeading(transcript, builder.lines[1], k)
  BY <1>5 DEF IInv, Context, NoHeading
<1>7. Context'
  <2>1. InForce(transcript, "page", k + 1, page, 1)
        /\ InForce(transcript, "heading", k + 1, builder.heading, 0)
    BY StaysInForce DEF IInv, Context
  <2> QED BY <1>2, <1>6, <2>1, BuilderFlushed DEF Context
<1>8. /\ new.heading = old.heading /\ new.page = old.page
      /\ new.lines = builder'.lines /\ old.lines = builder.lines
      /\ new.size = builder.size + 1 + n
  BY DEF OpenRecord
<1>9. ChunkOK(new, transcript, k)
  <2> HIDE DEF new, old
  <2>1. builder.lines[1] \in 1..k /\ k \in builder.lines[1]..k
    BY <1>5
  <2> QED BY <1>2, <1>4, <1>6, <1>8, <2>1 DEF ChunkOK
<1>10. /\ Len(Chunks') = m + 1 /\ DOMAIN Chunks' = 1..m + 1
       /\ \A i \in 1..m : Chunks'[i] = Chunks[i]
       /\ Chunks'[m + 1] = new
  <2>1. Chunks' = Append(builder.chunks, new)
    BY <1>2, BuilderFlushed, FlushType DEF Chunks
  <2> HIDE DEF new
  <2> QED BY <1>3, <2>1, Appended
<1>11. ChunksOK'
  <2> HIDE DEF new, old
  <2>1. \A c \in DOMAIN Chunks' : ChunkOK(Chunks'[c], transcript, k)
    <3>1. \A c \in 1..m : ChunkOK(Chunks[c], transcript, k)
      BY <1>3, ChunkStaysOK DEF IInv, ChunksOK
    <3> QED BY <1>3, <1>9, <1>10, <3>1
  <2>2. \A c \in 1..Len(Chunks') - 1 : Separate(Chunks'[c], Chunks'[c + 1], transcript)
    <3>1. SUFFICES ASSUME NEW c \in 1..m
                   PROVE  Separate(Chunks'[c], Chunks'[c + 1], transcript)
      BY <1>3, <1>10
    <3>2. Separate(Chunks[c], Chunks[c + 1], transcript)
      BY <1>3 DEF IInv, ChunksOK
    <3>3. CASE c = m
      BY <1>2, <1>3, <1>8, <1>10, <3>2, <3>3 DEF Separate
    <3>4. CASE c \in 1..m - 1
      BY <1>3, <1>10, <3>2, <3>4
    <3> QED BY <1>3, <3>3, <3>4
  <2> QED BY <2>1, <2>2 DEF ChunksOK
<1> QED BY <1>1, <1>7, <1>11 DEF IInv

LEMMA ScanLineIInv == IInv /\ ScanLine => IInv'
<1> SUFFICES ASSUME IInv, ScanLine PROVE IInv'
  OBVIOUS
<1> DEFINE line == transcript[pos']
<1>0. /\ pos' = pos + 1 /\ pos' \in Nat \ {0} /\ line \in Line
      /\ page \in Pages
  BY Scanned DEF IInv, TypeOK
<1>1. \/ line.kind = "blank" /\ UNCHANGED <<page, builder>>
      \/ line.kind = "page" /\ page' = line.n /\ UNCHANGED builder
      \/ line.kind = "heading" /\ builder' = StartSection(builder, line.n) /\ UNCHANGED page
      \/ /\ line.kind = "body"
         /\ builder' = PushLine(builder, pos', line.n, page)
         /\ UNCHANGED page
  BY <1>0 DEF ScanLine
<1>2. CASE line.kind = "blank" /\ UNCHANGED <<page, builder>>
  BY <1>2, ScanOther
<1>3. CASE line.kind = "page" /\ page' = line.n /\ UNCHANGED builder
  <2>1. line = [kind |-> "page", n |-> page']
    BY <1>0, <1>3 DEF Line
  <2> QED BY <1>3, <2>1, ScanOther
<1>4. CASE line.kind = "heading" /\ builder' = StartSection(builder, line.n) /\ UNCHANGED page
  <2>1. line \in [kind : {"heading"}, n : Headings]
    BY <1>0, <1>4 DEF Line
  <2> QED BY <1>4, <2>1, ScanHeading
<1>5. CASE /\ line.kind = "body"
           /\ builder' = PushLine(builder, pos', line.n, page)
           /\ UNCHANGED page
  <2>1. line.n \in Lengths /\ line = [kind |-> "body", n |-> line.n]
    BY <1>0, <1>5 DEF Line
  <2> HIDE DEF line
  <2>2. PICK n \in Lengths : n = line.n
    BY <2>1
  <2>3. /\ builder' \in Builder /\ builder'.heading = builder.heading
        /\ \/ /\ builder.lines = <<>> \/ builder.size + 1 + n > MaxChunkChars
              /\ builder'.lines = <<pos'>> /\ builder'.size = n /\ builder'.page = page
              /\ builder'.chunks = Chunks
           \/ /\ builder.lines # <<>> /\ builder.size + 1 + n <= MaxChunkChars
              /\ builder'.lines = Append(builder.lines, pos')
              /\ builder'.size = builder.size + 1 + n
              /\ builder'.page = builder.page /\ builder'.chunks = builder.chunks
    BY <1>0, <1>5, <2>1, <2>2, BuilderFlushed, LinePushed DEF Chunks
  <2>4. transcript[pos'] = [kind |-> "body", n |-> n] /\ UNCHANGED page
    BY <1>5, <2>1, <2>2 DEF line
  <2> QED BY <2>3, <2>4, ScanBegins, ScanExtends
<1> QED BY <1>1, <1>2, <1>3, <1>4, <1>5
LEMMA NextIInv == IInv /\ [Next]_vars => IInv'
<1>1. IInv /\ UNCHANGED vars => IInv'
  BY DEF vars, IInv, TypeOK, Phases, Context, ChunksOK, Chunks
<1> QED BY <1>1, RenderLineIInv, EditIInv, ScanLineIInv, FinishIInv DEF Next
-----------------------------------------------------------------------------
(* What a turn of split's loop does to the chunks. *)

\* r is a new chunk with one line, and n is its length.
Begins(r) ==
    /\ Chunks' = Append(Chunks, r)
    /\ r.lines = <<pos'>> /\ r.size = transcript[pos'].n

\* The last chunk has one line more.
Extends ==
    LET m == Len(Chunks)
    IN  /\ m >= 1 /\ DOMAIN Chunks' = 1..m
        /\ \A c \in 1..m - 1 : Chunks'[c] = Chunks[c]
        /\ Chunks'[m].lines = Append(Chunks[m].lines, pos')
        /\ Chunks'[m].size = Chunks[m].size + 1 + transcript[pos'].n

LEMMA ScanEffect ==
    ASSUME IInv, ScanLine
    PROVE  \/ transcript[pos'].kind # "body" /\ Chunks' = Chunks
           \/ transcript[pos'].kind = "body" /\ ((\E r : Begins(r)) \/ Extends)
<1> DEFINE line == transcript[pos']
<1>0. /\ pos' = pos + 1 /\ pos' \in Nat \ {0} /\ line \in Line
      /\ page \in Pages
  BY Scanned DEF IInv, TypeOK
<1>1. CASE line.kind \in {"blank", "page"}
  BY <1>0, <1>1 DEF ScanLine, Chunks
<1>2. CASE line.kind = "heading"
  <2>1. builder' = StartSection(builder, line.n) /\ line.n \in Headings
    BY <1>0, <1>2 DEF ScanLine, Line
  <2> QED BY <1>2, <2>1, BuilderFlushed, SectionKeepsChunks DEF Chunks
<1>3. CASE line.kind = "body"
  <2> DEFINE n == line.n
             r == OpenRecord(builder')
  <2>1. n \in Lengths /\ builder' = PushLine(builder, pos', n, page)
    BY <1>0, <1>3 DEF ScanLine, Line
  <2>2. /\ builder' \in Builder /\ builder'.lines # <<>> /\ builder'.page \in Pages
        /\ \/ /\ builder'.lines = <<pos'>> /\ builder'.size = n
              /\ builder'.chunks = Chunks
           \/ /\ builder.lines # <<>>
              /\ builder'.lines = Append(builder.lines, pos')
              /\ builder'.size = builder.size + 1 + n
              /\ builder'.chunks = builder.chunks
    <3> HIDE DEF n
    <3> QED BY <1>0, <2>1, BuilderFlushed, LinePushed DEF Chunks
  <2>3. Chunks' = Append(builder'.chunks, r)
    BY <2>2, FlushType DEF Chunks
  <2>4. r.lines = builder'.lines /\ r.size = builder'.size
    BY DEF OpenRecord
  <2>5. CASE builder'.lines = <<pos'>> /\ builder'.size = n /\ builder'.chunks = Chunks
    <3>1. Begins(r)
      BY <2>3, <2>4, <2>5 DEF Begins
    <3> QED BY <1>3, <3>1
  <2>6. CASE /\ builder.lines # <<>> /\ builder'.lines = Append(builder.lines, pos')
             /\ builder'.size = builder.size + 1 + n /\ builder'.chunks = builder.chunks
    <3> DEFINE m == Len(builder.chunks)
    <3>1. /\ m \in Nat /\ builder.chunks \in Seq(Chunk) /\ Len(Chunks) = m + 1
          /\ Chunks[m + 1] = OpenRecord(builder)
          /\ \A c \in 1..m : Chunks[c] = builder.chunks[c]
      BY <2>6, ClosedAndOpen
    <3>2. Chunks[m + 1].lines = builder.lines /\ Chunks[m + 1].size = builder.size
      BY <3>1 DEF OpenRecord
    <3> HIDE DEF r, n
    <3>3. /\ DOMAIN Chunks' = 1..m + 1 /\ Chunks'[m + 1] = r
          /\ \A c \in 1..m : Chunks'[c] = Chunks[c]
      BY <2>3, <2>6, <3>1, Appended
    <3>4. Extends
      <4> HIDE DEF m
      <4>1. (m + 1) - 1 = m /\ m + 1 >= 1
        BY <3>1
      <4> QED BY <2>4, <2>6, <3>1, <3>2, <3>3, <4>1 DEF Extends, n
    <3> QED BY <1>3, <3>4
  <2> QED BY <2>2, <2>5, <2>6
<1> QED BY <1>0, <1>1, <1>2, <1>3 DEF Line
\* What a line carries is a number.
LEMMA LineNumber ==
    ASSUME TypeOK, NEW k \in 1..Len(transcript)
    PROVE  transcript[k] \in Line /\ transcript[k].n \in Nat
<1>1. transcript[k] \in Line
  BY DEF TypeOK
<1>2. \/ transcript[k].n = 0 \/ transcript[k].n \in Pages
      \/ transcript[k].n \in Headings \/ transcript[k].n \in Lengths
  BY <1>1 DEF Line
<1>3. 0 \in Nat /\ Pages \subseteq Nat /\ Headings \subseteq Nat /\ Lengths \subseteq Nat
  BY DEF Pages, Headings, Lengths
<1>4. transcript[k].n \in Nat
  <2> QED BY <1>2, <1>3, Zenon
<1> QED BY <1>1, <1>4

\* The lines of the chunks are lines that have been read.
LEMMA LinesRead ==
    ASSUME IInv, NothingLost
    PROVE  \A c \in DOMAIN Chunks :
              /\ Chunks[c].lines \in Seq(Nat \ {0}) /\ Chunks[c].size \in Nat
              /\ \A i \in DOMAIN Chunks[c].lines :
                    /\ Chunks[c].lines[i] \in 1..pos
                    /\ transcript[Chunks[c].lines[i]].n \in Nat
<1> SUFFICES ASSUME NEW c \in DOMAIN Chunks
             PROVE  /\ Chunks[c].lines \in Seq(Nat \ {0}) /\ Chunks[c].size \in Nat
                    /\ \A i \in DOMAIN Chunks[c].lines :
                          /\ Chunks[c].lines[i] \in 1..pos
                          /\ transcript[Chunks[c].lines[i]].n \in Nat
  OBVIOUS
<1>1. Chunks[c] \in Chunk
  BY BuilderFlushed
<1>2. ASSUME NEW i \in DOMAIN Chunks[c].lines
      PROVE  Chunks[c].lines[i] \in BodyLines(transcript) \cap 1..pos
  BY DEF NothingLost, Range
<1>3. \A k \in 1..pos : transcript[k].n \in Nat
  <2>1. \A k \in 1..pos : k \in 1..Len(transcript)
    BY DEF IInv, TypeOK
  <2> QED BY <2>1, LineNumber DEF IInv
<1> QED BY <1>1, <1>2, <1>3 DEF Chunk

LEMMA SameSum ==
    ASSUME UNCHANGED transcript, NEW lines
    PROVE  Sum(lines)' = Sum(lines)
BY DEF Sum

LEMMA ScanLineKeepsLines == IInv /\ NothingLost /\ ScanLine => NothingLost'
<1> SUFFICES ASSUME IInv, NothingLost, ScanLine PROVE NothingLost'
  OBVIOUS
<1> DEFINE k == pos'
           n == transcript[k].n
           Read == BodyLines(transcript) \cap 1..pos
<1>0. /\ pos \in Nat /\ k = pos + 1 /\ k \in 1..Len(transcript)
      /\ transcript[k] \in Line /\ UNCHANGED transcript
      /\ n \in Nat /\ DOMAIN transcript = 1..Len(transcript)
  <2>1. /\ pos \in Nat /\ k = pos + 1 /\ k \in 1..Len(transcript)
        /\ transcript[k] \in Line /\ UNCHANGED transcript
    BY Scanned
  <2>2. n \in Nat
    BY <2>1, LineNumber DEF IInv
  <2> QED BY <2>1, <2>2 DEF IInv, TypeOK
<1>1. Chunks \in Seq(Chunk)
  BY BuilderFlushed
<1>2. (BodyLines(transcript) \cap 1..k)
         = IF transcript[k].kind = "body" THEN Read \cup {k} ELSE Read
  BY <1>0 DEF BodyLines
<1>3. CASE transcript[k].kind # "body" /\ Chunks' = Chunks
  <2>1. (BodyLines(transcript) \cap 1..pos)' = Read
    BY <1>0, <1>2, <1>3
  <2> QED BY <1>0, <1>3, <2>1, SameSum DEF NothingLost
<1>4. ASSUME transcript[k].kind = "body", NEW r, Begins(r)
      PROVE  NothingLost'
  <2> DEFINE m == Len(Chunks)
  <2>1. /\ m \in Nat /\ DOMAIN Chunks = 1..m /\ DOMAIN Chunks' = 1..m + 1
        /\ \A c \in 1..m : Chunks'[c] = Chunks[c]
        /\ Chunks'[m + 1] = r
    BY <1>1, <1>4, Appended DEF Begins
  <2>2. r.lines = <<k>> /\ r.size = n /\ DOMAIN r.lines = {1} /\ r.lines[1] = k
        /\ Range(r.lines) = {k}
    BY <1>4 DEF Begins, Range
  <2> HIDE DEF m, n
  <2>3. UNION {Range(Chunks'[c].lines) : c \in DOMAIN Chunks'} = Read \cup {k}
    <3>1. UNION {Range(Chunks'[c].lines) : c \in 1..m} = Read
      BY <2>1 DEF NothingLost
    <3>2. 1..m + 1 = 1..m \cup {m + 1}
      BY <2>1
    <3> HIDE DEF Read
    <3> QED BY <2>1, <2>2, <3>1, <3>2
  <2>4. ASSUME NEW c \in 1..m + 1, NEW d \in 1..m + 1,
               NEW i \in DOMAIN Chunks'[c].lines, NEW j \in DOMAIN Chunks'[d].lines,
               c < d \/ (c = d /\ i < j)
        PROVE  Chunks'[c].lines[i] < Chunks'[d].lines[j]
    <3>1. CASE d \in 1..m
      <4>1. c \in 1..m
        BY <2>1, <2>4, <3>1
      <4> QED BY <2>1, <2>4, <3>1, <4>1 DEF NothingLost
    <3>2. CASE d = m + 1
      <4>1. c \in 1..m
        BY <2>1, <2>2, <2>4, <3>2
      <4>2. Chunks'[c].lines[i] \in 1..pos
        BY <2>1, <4>1, LinesRead
      <4> QED BY <1>0, <2>1, <2>2, <3>2, <4>2
    <3> QED BY <2>1, <3>1, <3>2
  <2>5. ASSUME NEW c \in 1..m + 1
        PROVE  Chunks'[c].size + 1 = Sum(Chunks'[c].lines) + Len(Chunks'[c].lines)
    <3>1. CASE c \in 1..m
      BY <2>1, <3>1 DEF NothingLost
    <3>2. CASE c = m + 1
      <4>1. Sum(<<k>>) = n
        BY <1>0, SumOne DEF n
      <4> QED BY <1>0, <2>1, <2>2, <3>2, <4>1
    <3> QED BY <2>1, <3>1, <3>2
  <2> QED BY <1>0, <1>2, <1>4, <2>1, <2>3, <2>4, <2>5, SameSum DEF NothingLost
<1>5. ASSUME transcript[k].kind = "body", Extends
      PROVE  NothingLost'
  <2> DEFINE m == Len(Chunks)
             last == Chunks[m]
             more == Chunks'[m]
             size == Len(last.lines)
  <2>1. /\ m \in Nat /\ m >= 1 /\ DOMAIN Chunks = 1..m /\ DOMAIN Chunks' = 1..m
        /\ \A c \in 1..m - 1 : Chunks'[c] = Chunks[c]
        /\ more.lines = Append(last.lines, k)
        /\ more.size = last.size + 1 + n
    BY <1>0, <1>1, <1>5 DEF Extends
  <2>2. /\ last.lines \in Seq(Nat \ {0}) /\ last.size \in Nat
        /\ \A i \in 1..size : last.lines[i] \in 1..pos /\ transcript[last.lines[i]].n \in Nat
    BY <2>1, LinesRead
  <2>3. /\ size \in Nat /\ DOMAIN last.lines = 1..size /\ DOMAIN more.lines = 1..size + 1
        /\ Len(more.lines) = size + 1
        /\ \A i \in 1..size : more.lines[i] = last.lines[i]
        /\ more.lines[size + 1] = k
    BY <1>0, <2>1, <2>2
  <2> HIDE DEF n
  <2>4. Range(more.lines) = Range(last.lines) \cup {k}
    <3>1. 1..size + 1 = 1..size \cup {size + 1}
      BY <2>3
    <3> HIDE DEF last, more, size
    <3> QED BY <2>3, <3>1 DEF Range
  <2> HIDE DEF m, last, more, size
  <2>5. UNION {Range(Chunks'[c].lines) : c \in DOMAIN Chunks'} = Read \cup {k}
    <3>1. \A x : x \in Read <=> \E c \in 1..m : x \in Range(Chunks[c].lines)
      BY <2>1 DEF NothingLost
    <3>2. \A c \in 1..m - 1 : Chunks'[c].lines = Chunks[c].lines
      BY <2>1
    <3>3. m \in 1..m /\ \A c \in 1..m : c \in 1..m - 1 \/ c = m
      BY <2>1
    <3>4. Chunks'[m].lines = more.lines /\ Chunks[m].lines = last.lines
      BY DEF more, last
    <3>5. \A c \in 1..m - 1 : c \in 1..m
      BY <2>1
    <3> HIDE DEF Read
    <3>6. ASSUME NEW x
          PROVE  (\E c \in 1..m : x \in Range(Chunks'[c].lines)) <=> x \in Read \cup {k}
      <4>1. x \in Range(Chunks'[m].lines) <=> x \in Range(Chunks[m].lines) \/ x = k
        BY <2>4, <3>4
      <4> QED BY <3>1, <3>2, <3>3, <3>5, <4>1
    <3>7. UNION {Range(Chunks'[c].lines) : c \in 1..m} = Read \cup {k}
      BY <3>6
    <3> QED BY <2>1, <3>7
  <2>6. ASSUME NEW c \in 1..m, NEW d \in 1..m,
               NEW i \in DOMAIN Chunks'[c].lines, NEW j \in DOMAIN Chunks'[d].lines,
               c < d \/ (c = d /\ i < j)
        PROVE  Chunks'[c].lines[i] < Chunks'[d].lines[j]
    <3>1. ASSUME NEW e \in 1..m, NEW h \in DOMAIN Chunks'[e].lines,
                 ~(e = m /\ h = size + 1)
          PROVE  /\ h \in DOMAIN Chunks[e].lines
                 /\ Chunks'[e].lines[h] = Chunks[e].lines[h]
      <4>1. CASE e = m
        BY <2>3, <3>1, <4>1 DEF more, last
      <4>2. CASE e \in 1..m - 1
        BY <2>1, <4>2
      <4> QED BY <2>1, <4>1, <4>2
    <3>2. ~(c = m /\ i = size + 1)
      BY <2>1, <2>3, <2>6 DEF more
    <3>3. /\ i \in DOMAIN Chunks[c].lines
          /\ Chunks'[c].lines[i] = Chunks[c].lines[i]
      BY <3>1, <3>2
    <3>4. CASE d = m /\ j = size + 1
      <4>1. Chunks[c].lines[i] \in 1..pos
        BY <2>1, <3>3, LinesRead
      <4>2. Chunks'[d].lines[j] = k
        BY <2>3, <3>4 DEF more
      <4> QED BY <1>0, <3>3, <4>1, <4>2
    <3>5. CASE ~(d = m /\ j = size + 1)
      BY <2>1, <2>6, <3>1, <3>3, <3>5 DEF NothingLost
    <3> QED BY <3>4, <3>5
  <2>7. ASSUME NEW c \in 1..m
        PROVE  Chunks'[c].size + 1 = Sum(Chunks'[c].lines) + Len(Chunks'[c].lines)
    <3>1. CASE c \in 1..m - 1
      BY <2>1, <3>1 DEF NothingLost
    <3>2. CASE c = m
      <4>1. Sum(more.lines) = Sum(last.lines) + n /\ Sum(last.lines) \in Nat
        <5>1. last.lines \in Seq(Nat) /\ n \in Nat /\ k \in Nat
          BY <1>0, <2>2 DEF n
        <5>2. \A i \in 1..Len(last.lines) : transcript[last.lines[i]].n \in Nat
          BY <2>2 DEF size
        <5>3. Sum(Append(last.lines, k)) = Sum(last.lines) + n /\ Sum(last.lines) \in Nat
          BY <5>1, <5>2, SumAppend DEF n
        <5> QED BY <2>1, <5>3
      <4>2. last.size + 1 = Sum(last.lines) + size
        BY <2>1 DEF NothingLost, last, size
      <4>3. /\ Chunks'[c].lines = more.lines /\ Chunks'[c].size = last.size + 1 + n
            /\ Len(more.lines) = size + 1
        BY <2>1, <2>3, <3>2 DEF more
      <4>4. size \in Nat /\ last.size \in Nat /\ n \in Nat
        BY <1>0, <2>2, <2>3 DEF n
      <4>5. last.size + 1 + n + 1 = (Sum(last.lines) + n) + (size + 1)
        BY <4>1, <4>2, <4>4
      <4> QED BY <4>1, <4>3, <4>5
    <3> QED BY <2>1, <3>1, <3>2
  <2> QED BY <1>0, <1>2, <1>5, <2>1, <2>5, <2>6, <2>7, SameSum DEF NothingLost
<1> QED BY <1>3, <1>4, <1>5, ScanEffect

LEMMA InitKeepsLines == Init => NothingLost
<1> SUFFICES ASSUME Init PROVE NothingLost
  OBVIOUS
<1>1. Chunks = <<>> /\ pos = 0
  BY NewBuilderType DEF Init, Chunks
<1> QED BY <1>1 DEF NothingLost

LEMMA NextKeepsLines == IInv /\ IInv' /\ NothingLost /\ [Next]_vars => NothingLost'
<1> SUFFICES ASSUME IInv, IInv', NothingLost, [Next]_vars PROVE NothingLost'
  OBVIOUS
<1>1. ASSUME pos' = 0 PROVE NothingLost'
  <2>1. Chunks' = <<>>
    BY <1>1, NewBuilderType DEF IInv, Phases, Chunks
  <2> QED BY <1>1, <2>1 DEF NothingLost
<1>2. ASSUME Chunks' = Chunks, UNCHANGED <<transcript, pos>> PROVE NothingLost'
  BY <1>2, SameSum DEF NothingLost
<1>3. CASE RenderLine \/ Edit
  <2>1. pos' = 0
    BY <1>3 DEF IInv, Phases, RenderLine, Edit
  <2> QED BY <1>1, <2>1
<1>4. CASE Finish
  <2>1. Flush(builder') = builder'
    BY <1>4, BuilderFlushed, FlushType DEF Finish, Flush
  <2>2. Chunks' = Chunks
    BY <1>4, <2>1 DEF Chunks, Finish
  <2> QED BY <1>2, <1>4, <2>2 DEF Finish
<1>5. CASE UNCHANGED vars
  BY <1>2, <1>5 DEF vars, Chunks
<1> QED BY <1>3, <1>4, <1>5, ScanLineKeepsLines DEF Next
-----------------------------------------------------------------------------
(* Where to_markdown has put the lines of the document. *)

\* Line i of the document is line where[i] of the transcript, in order and on its
\* page; no other line of the transcript is a heading or text.
Located(where) ==
    /\ where \in [1..rendered -> 1..Len(transcript)]
    /\ \A i, j \in 1..rendered : i < j => where[i] < where[j]
    /\ \A i \in 1..rendered :
          /\ transcript[where[i]].kind = doc[i].kind /\ transcript[where[i]].n = doc[i].n
          /\ InForce(transcript, "page", where[i], doc[i].page, 1)
    /\ \A k \in 1..Len(transcript) :
          transcript[k].kind \in {"heading", "body"} => \E i \in 1..rendered : where[i] = k

\* The page of the line rendered last is the one in force.
PageAnnounced ==
    rendered > 0 => InForce(transcript, "page", Len(transcript) + 1, doc[rendered].page, 1)

Faithful == edits = 0 => PageAnnounced /\ \E where : Located(where)

LEMMA Concatenated ==
    ASSUME NEW s \in Seq(Line), NEW u \in Seq(Line)
    PROVE  /\ s \o u \in Seq(Line) /\ Len(s \o u) = Len(s) + Len(u)
           /\ \A k \in 1..Len(s) : (s \o u)[k] = s[k]
           /\ \A k \in 1..Len(u) : (s \o u)[Len(s) + k] = u[k]
OBVIOUS

\* What is in force depends on the lines before only ...
LEMMA SameInForce ==
    ASSUME NEW lines, NEW more, NEW kind, NEW k \in Nat, NEW n, NEW default,
           \A i \in 1..k - 1 : more[i] = lines[i],
           InForce(lines, kind, k, n, default)
    PROVE  InForce(more, kind, k, n, default)
<1>1. CASE n = default /\ \A i \in 1..k - 1 : lines[i].kind # kind
  BY <1>1 DEF InForce
<1>2. ASSUME NEW i \in 1..k - 1, lines[i].kind = kind, lines[i].n = n,
             \A j \in i + 1..k - 1 : lines[j].kind # kind
      PROVE  InForce(more, kind, k, n, default)
  <2>1. \A j \in i + 1..k - 1 : j \in 1..k - 1
    OBVIOUS
  <2> QED BY <1>2, <2>1 DEF InForce
<1> QED BY <1>1, <1>2 DEF InForce

\* ... and stays until a line of the kind.
LEMMA RemainsInForce ==
    ASSUME NEW lines, NEW kind, NEW k \in Nat, NEW m \in Nat, k <= m, NEW n, NEW default,
           \A i \in k..m - 1 : lines[i].kind # kind,
           InForce(lines, kind, k, n, default)
    PROVE  InForce(lines, kind, m, n, default)
<1>0. \A i \in 1..m - 1 : i \in 1..k - 1 \/ i \in k..m - 1
  OBVIOUS
<1>1. CASE n = default /\ \A i \in 1..k - 1 : lines[i].kind # kind
  BY <1>0, <1>1 DEF InForce
<1>2. ASSUME NEW i \in 1..k - 1, lines[i].kind = kind, lines[i].n = n,
             \A j \in i + 1..k - 1 : lines[j].kind # kind
      PROVE  InForce(lines, kind, m, n, default)
  <2>1. i \in 1..m - 1 /\ \A j \in i + 1..m - 1 : j \in i + 1..k - 1 \/ j \in k..m - 1
    OBVIOUS
  <2> QED BY <1>2, <2>1 DEF InForce
<1> QED BY <1>1, <1>2 DEF InForce

\* Only one number is in force.
LEMMA OneInForce ==
    ASSUME NEW lines, NEW kind, NEW k \in Nat, NEW n, NEW m, NEW default,
           InForce(lines, kind, k, n, default), InForce(lines, kind, k, m, default)
    PROVE  n = m
<1>1. ASSUME NEW i \in 1..k - 1, lines[i].kind = kind, lines[i].n = n,
             \A j \in i + 1..k - 1 : lines[j].kind # kind,
             NEW h \in 1..k - 1, lines[h].kind = kind, lines[h].n = m,
             \A j \in h + 1..k - 1 : lines[j].kind # kind
      PROVE  n = m
  <2>1. ~(h \in i + 1..k - 1) /\ ~(i \in h + 1..k - 1)
    BY <1>1
  <2>2. h = i
    BY <2>1
  <2> QED BY <1>1, <2>2
<1> QED BY <1>1 DEF InForce

\* What RenderLine appends: at most a page marker, the line at q, and blank lines.
LEMMA LineRendered ==
    ASSUME TypeOK, RenderLine, PageAnnounced
    PROVE  LET a == Len(transcript)
               b == Len(transcript')
               line == doc[rendered + 1]
           IN  /\ a \in Nat /\ b \in Nat /\ a <= b /\ line \in DocLine
               /\ \A k \in 1..a : transcript'[k] = transcript[k]
               /\ \E q \in a + 1..b :
                     /\ transcript'[q].kind = line.kind /\ transcript'[q].n = line.n
                     /\ \A k \in a + 1..b : k # q => transcript'[k].kind \notin {"heading", "body"}
                     /\ InForce(transcript', "page", q, line.page, 1)
                     /\ InForce(transcript', "page", b + 1, line.page, 1)
<1> DEFINE a == Len(transcript)
           b == Len(transcript')
           i == rendered + 1
           line == doc[i]
           M == Marker(i)
           T == Text(i)
           h == Len(M)
           e == Len(T)
           marker == [kind |-> "page", n |-> line.page]
           text == [kind |-> line.kind, n |-> line.n]
<1>0. line \in DocLine /\ transcript \in Seq(Line) /\ a \in Nat /\ i \in Nat \ {0}
  BY DEF TypeOK, RenderLine
<1>1. Blank \in Line /\ marker \in Line /\ text \in Line /\ Blank.kind = "blank"
  BY <1>0 DEF Blank, Line, DocLine
<1>2. /\ M \in Seq(Line)
      /\ \/ M = <<>> /\ i > 1 /\ line.page = doc[rendered].page
         \/ M = <<Blank, marker>>
  <2>1. i - 1 = rendered
    BY DEF TypeOK
  <2> QED BY <1>1, <2>1 DEF Marker
<1>3. /\ T \in Seq(Line)
      /\ \/ T = <<Blank, text, Blank>> /\ line.kind = "heading"
         \/ T = <<text>> /\ line.kind = "body"
  BY <1>0, <1>1 DEF Text, DocLine
<1>4. transcript' = (transcript \o M) \o T
  BY DEF RenderLine
<1>5. /\ h \in {0, 2} /\ (h = 2 => M[1] = Blank /\ M[2] = marker)
      /\ h = 0 => rendered > 0 /\ line.page = doc[rendered].page
  BY <1>2 DEF TypeOK
<1>6. \/ e = 3 /\ T[1] = Blank /\ T[2] = text /\ T[3] = Blank
      \/ e = 1 /\ T[1] = text
  BY <1>3
<1> HIDE DEF M, T
<1>7. /\ b = a + h + e
      /\ \A k \in 1..a : transcript'[k] = transcript[k]
      /\ \A k \in 1..h : transcript'[a + k] = M[k]
      /\ \A k \in 1..e : transcript'[a + h + k] = T[k]
  <2> DEFINE s == transcript \o M
  <2>1. /\ s \in Seq(Line) /\ Len(s) = a + h
        /\ \A k \in 1..a : s[k] = transcript[k]
        /\ \A k \in 1..h : s[a + k] = M[k]
    BY <1>0, <1>2, Concatenated
  <2> HIDE DEF s
  <2>2. /\ Len(s \o T) = Len(s) + e
        /\ \A k \in 1..Len(s) : (s \o T)[k] = s[k]
        /\ \A k \in 1..e : (s \o T)[Len(s) + k] = T[k]
    BY <1>3, <2>1, Concatenated
  <2>3. transcript' = s \o T
    BY <1>4 DEF s
  <2>4. h \in Nat /\ \A k \in 1..h : a + k \in 1..a + h
    BY <1>0, <1>5
  <2>5. \A k \in 1..a : k \in 1..a + h
    BY <1>0, <1>5
  <2> HIDE DEF a, b, h, e
  <2> QED BY <2>1, <2>2, <2>3, <2>4, <2>5 DEF b
<1> DEFINE q == a + h + (IF e = 3 THEN 2 ELSE 1)
<1>8. q \in a + 1..b /\ transcript'[q] = text /\ a <= b /\ b \in Nat
  <2> HIDE DEF a, b, h, e, text
  <2> QED BY <1>0, <1>5, <1>6, <1>7
<1>9. ASSUME NEW k \in a + 1..b, k # q
      PROVE  transcript'[k] = Blank \/ (transcript'[k] = marker /\ h = 2 /\ k = a + 2)
  <2> HIDE DEF a, b, h, e, text, marker
  <2>1. CASE k <= a + h
    <3>1. k - a \in 1..h /\ a + (k - a) = k /\ h = 2 /\ k - a \in {1, 2}
      BY <1>0, <1>5, <2>1
    <3> QED BY <1>0, <1>5, <1>7, <3>1
  <2>2. CASE k > a + h
    <3>1. k - (a + h) \in 1..e /\ a + h + (k - (a + h)) = k
      BY <1>0, <1>5, <1>6, <1>7, <2>2
    <3>2. e = 3 /\ k - (a + h) \in {1, 3}
      BY <1>0, <1>5, <1>6, <1>9, <3>1
    <3> QED BY <1>6, <1>7, <3>1, <3>2
  <2> QED BY <1>0, <1>5, <2>1, <2>2
<1>10. \A k \in a + 1..b : k # q => transcript'[k].kind \notin {"heading", "body"}
  BY <1>1, <1>9
<1>11. InForce(transcript', "page", q, line.page, 1)
  <2>1. CASE h = 0
    <3>1. InForce(transcript, "page", a + 1, line.page, 1)
      BY <1>5, <2>1 DEF PageAnnounced
    <3>2. InForce(transcript', "page", a + 1, line.page, 1)
      <4>1. a + 1 \in Nat /\ (a + 1) - 1 = a
        BY <1>0
      <4> HIDE DEF a, line
      <4> QED BY <1>7, <3>1, <4>1, SameInForce
    <3>3. \A k \in a + 1..q - 1 : transcript'[k].kind # "page"
      <4> HIDE DEF a, b, h, e, marker, text, q
      <4>1. \A k \in a + 1..q - 1 : k \in a + 1..b /\ k # q
        BY <1>0, <1>8
      <4> QED BY <1>1, <1>9, <2>1, <4>1
    <3>4. a + 1 \in Nat /\ q \in Nat /\ a + 1 <= q
      BY <1>0, <1>8
    <3> HIDE DEF a, q, line
    <3> QED BY <3>2, <3>3, <3>4, RemainsInForce
  <2>2. CASE h = 2
    <3>1. transcript'[a + 2] = marker
      BY <1>5, <1>7, <2>2
    <3>2. a + 2 \in 1..q - 1
      BY <1>0, <1>6, <2>2
    <3>3. \A k \in (a + 2) + 1..q - 1 : transcript'[k].kind # "page"
      <4> HIDE DEF a, b, h, e, marker, text, q
      <4>1. \A k \in (a + 2) + 1..q - 1 : k \in a + 1..b /\ k # q /\ k # a + 2
        BY <1>0, <1>8
      <4> QED BY <1>1, <1>9, <4>1
    <3> HIDE DEF q, a
    <3> QED BY <3>1, <3>2, <3>3 DEF InForce
  <2> QED BY <1>5, <2>1, <2>2
<1>12. InForce(transcript', "page", b + 1, line.page, 1)
  <2>1. \A k \in q..b : transcript'[k].kind # "page"
    <3>1. text.kind # "page"
      BY <1>0 DEF DocLine
    <3>2. h = 2 => q > a + 2
      BY <1>0, <1>6
    <3> HIDE DEF a, b, h, e, marker, text, q
    <3>3. \A k \in q..b : k = q \/ (k \in a + 1..b /\ k # q /\ (h = 2 => k # a + 2))
      BY <1>0, <1>8, <3>2
    <3> QED BY <1>1, <1>8, <1>9, <3>1, <3>3
  <2>2. q \in Nat /\ b + 1 \in Nat /\ q <= b + 1 /\ (b + 1) - 1 = b
    BY <1>0, <1>8
  <2> HIDE DEF b, q, line
  <2> QED BY <1>11, <2>1, <2>2, RemainsInForce
<1>13. transcript'[q].kind = line.kind /\ transcript'[q].n = line.n
  BY <1>8
<1> HIDE DEF q
<1>14. \E r \in a + 1..b :
          /\ transcript'[r].kind = line.kind /\ transcript'[r].n = line.n
          /\ \A k \in a + 1..b : k # r => transcript'[k].kind \notin {"heading", "body"}
          /\ InForce(transcript', "page", r, line.page, 1)
          /\ InForce(transcript', "page", b + 1, line.page, 1)
  BY <1>8, <1>10, <1>11, <1>12, <1>13
<1> QED BY <1>0, <1>7, <1>8, <1>14
LEMMA RenderLineFaithful ==
    ASSUME IInv, Faithful, RenderLine
    PROVE  Faithful'
<1> SUFFICES ASSUME edits = 0 PROVE PageAnnounced' /\ \E where : Located(where)'
  BY DEF Faithful, RenderLine
<1> DEFINE a == Len(transcript)
           b == Len(transcript')
           i == rendered + 1
           line == doc[i]
<1>1. PageAnnounced /\ \E where : Located(where)
  BY DEF Faithful
<1>2. PICK where : Located(where)
  BY <1>1
<1>3. TypeOK
  BY DEF IInv
<1>4. /\ a \in Nat /\ b \in Nat /\ a <= b /\ line \in DocLine
      /\ \A k \in 1..a : transcript'[k] = transcript[k]
      /\ \E q \in a + 1..b :
            /\ transcript'[q].kind = line.kind /\ transcript'[q].n = line.n
            /\ \A k \in a + 1..b : k # q => transcript'[k].kind \notin {"heading", "body"}
            /\ InForce(transcript', "page", q, line.page, 1)
            /\ InForce(transcript', "page", b + 1, line.page, 1)
  BY <1>1, <1>3, LineRendered
<1>5. PICK q \in a + 1..b :
         /\ transcript'[q].kind = line.kind /\ transcript'[q].n = line.n
         /\ \A k \in a + 1..b : k # q => transcript'[k].kind \notin {"heading", "body"}
         /\ InForce(transcript', "page", q, line.page, 1)
         /\ InForce(transcript', "page", b + 1, line.page, 1)
  BY <1>4
<1>6. rendered \in Nat /\ rendered' = i /\ doc' = doc /\ UNCHANGED edits
  BY DEF IInv, TypeOK, RenderLine
<1>7. PageAnnounced'
  BY <1>5, <1>6 DEF PageAnnounced
<1> DEFINE next == [j \in 1..i |-> IF j = i THEN q ELSE where[j]]
<1>8. /\ \A j \in 1..rendered : j \in 1..i /\ next[j] = where[j] /\ where[j] \in 1..a
      /\ i \in 1..i /\ next[i] = q /\ \A j \in 1..i : j \in 1..rendered \/ j = i
      /\ DOMAIN next = 1..i /\ next = [j \in 1..i |-> next[j]]
  BY <1>2, <1>6 DEF Located
<1> HIDE DEF next
<1>9. /\ a \in Nat /\ b \in Nat /\ a <= b /\ q \in a + 1..b /\ rendered \in Nat
       /\ \A k \in 1..a : transcript'[k] = transcript[k]
  BY <1>4, <1>6
<1>10. \A j \in 1..rendered : next[j] \in 1..a
  BY <1>8
<1>11. next \in [1..i -> 1..b]
  <2>1. ASSUME NEW j \in 1..i PROVE next[j] \in 1..b
    <3>1. CASE j \in 1..rendered
      <4>1. next[j] \in 1..a
        BY <1>10, <3>1
      <4> HIDE DEF a, b, i
      <4> QED BY <1>9, <4>1
    <3>2. CASE j = i
      <4>1. next[j] = q
        BY <1>8, <3>2
      <4> HIDE DEF a, b, i
      <4> QED BY <1>9, <4>1
    <3> QED BY <1>8, <3>1, <3>2
  <2> HIDE DEF i
  <2> QED BY <1>8, <2>1
<1>12. \A j, k \in 1..i : j < k => next[j] < next[k]
  <2> SUFFICES ASSUME NEW j \in 1..i, NEW k \in 1..i, j < k PROVE next[j] < next[k]
    OBVIOUS
  <2>1. j \in 1..rendered /\ next[j] = where[j] /\ next[j] \in 1..a
    <3>1. j \in 1..rendered
      BY <1>6
    <3> QED BY <1>8, <1>10, <3>1
  <2>2. CASE k \in 1..rendered
    <3>1. next[k] = where[k]
      BY <1>8, <2>2
    <3> QED BY <1>2, <2>1, <2>2, <3>1 DEF Located
  <2>3. CASE k = i
    <3>1. next[k] = q
      BY <1>8, <2>3
    <3> HIDE DEF a, b, i
    <3> QED BY <1>9, <2>1, <3>1
  <2> QED BY <1>8, <2>2, <2>3
<1>13. ASSUME NEW j \in 1..i
       PROVE  /\ transcript'[next[j]].kind = doc[j].kind /\ transcript'[next[j]].n = doc[j].n
              /\ InForce(transcript', "page", next[j], doc[j].page, 1)
  <2>1. CASE j = i
    BY <1>5, <1>8, <2>1
  <2>2. CASE j \in 1..rendered
    <3>1. /\ where[j] \in 1..a /\ next[j] = where[j]
          /\ transcript[where[j]].kind = doc[j].kind /\ transcript[where[j]].n = doc[j].n
          /\ InForce(transcript, "page", where[j], doc[j].page, 1)
      BY <1>2, <1>8, <2>2 DEF Located
    <3>2. where[j] \in Nat /\ \A k \in 1..where[j] - 1 : transcript'[k] = transcript[k]
      <4>1. where[j] \in Nat /\ \A k \in 1..where[j] - 1 : k \in 1..a
        BY <1>9, <3>1
      <4> QED BY <1>9, <4>1
    <3>3. InForce(transcript', "page", where[j], doc[j].page, 1)
      <4> HIDE DEF a
      <4> QED BY <3>1, <3>2, SameInForce
    <3>4. transcript'[where[j]] = transcript[where[j]]
      BY <1>9, <3>1
    <3> QED BY <3>1, <3>3, <3>4
  <2> QED BY <1>8, <2>1, <2>2
<1>14. ASSUME NEW k \in 1..b, transcript'[k].kind \in {"heading", "body"}
       PROVE  \E j \in 1..i : next[j] = k
  <2>1. CASE k \in 1..a
    <3>1. \E j \in 1..rendered : where[j] = k
      BY <1>2, <1>4, <1>14, <2>1 DEF Located
    <3> QED BY <1>8, <3>1
  <2>2. CASE k \in a + 1..b
    BY <1>5, <1>8, <1>14, <2>2
  <2> QED BY <1>9, <2>1, <2>2
<1>15. PICK w : w = next
  OBVIOUS
<1>16. Located(w)'
  <2> HIDE DEF i, b
  <2>1. rendered' = i /\ Len(transcript') = b /\ doc' = doc
    BY <1>6 DEF b
  <2> QED BY <2>1, <1>11, <1>12, <1>13, <1>14, <1>15 DEF Located
<1> QED BY <1>7, <1>16

LEMMA NextFaithful == IInv /\ Faithful /\ [Next]_vars => Faithful'
<1> SUFFICES ASSUME IInv, Faithful, [Next]_vars PROVE Faithful'
  OBVIOUS
<1>1. CASE UNCHANGED <<doc, rendered, transcript, edits>>
  BY <1>1 DEF Faithful, PageAnnounced, Located
<1>2. CASE Edit
  BY <1>2 DEF Edit, Faithful, IInv, TypeOK
<1> QED BY <1>1, <1>2, RenderLineFaithful DEF Next, ScanLine, Finish, vars

LEMMA InitFaithful == Init => Faithful
<1> SUFFICES ASSUME Init PROVE Faithful
  OBVIOUS
<1> DEFINE where == [i \in 1..0 |-> 0]
<1>1. transcript = <<>> /\ rendered = 0 /\ Len(transcript) = 0
  BY DEF Init
<1>2. Located(where)
  BY <1>1 DEF Located
<1> QED BY <1>1, <1>2 DEF Faithful, PageAnnounced

\* In a transcript that is rendered the lines that stand before a line are those
\* that stand before it in the document.
LEMMA DocumentCited == IInv /\ NothingLost /\ Faithful => CitesTheDocument
<1> SUFFICES ASSUME IInv, NothingLost, Faithful, edits = 0, finished
             PROVE  \E origin \in Bijection(BodyLines(transcript), BodyLines(doc)) :
                       /\ \A k, m \in BodyLines(transcript) : k < m => origin[k] < origin[m]
                       /\ \A c \in DOMAIN Chunks :
                             LET line == origin[Chunks[c].lines[1]]
                             IN  /\ Chunks[c].page = doc[line].page
                                 /\ InForce(doc, "heading", line, Chunks[c].heading, 0)
  BY DEF CitesTheDocument
<1> DEFINE a == Len(transcript)
           d == Len(doc)
           K == BodyLines(transcript)
           B == BodyLines(doc)
<1>1. /\ rendered = d /\ a \in Nat /\ d \in Nat
      /\ DOMAIN transcript = 1..a /\ DOMAIN doc = 1..d
      /\ \A i \in 1..d : doc[i] \in DocLine
  BY DEF IInv, TypeOK, Phases
<1>2. PICK where : Located(where)
  BY DEF Faithful
<1>3. where \in [1..d -> 1..a] /\ \A i, j \in 1..d : i < j => where[i] < where[j]
  BY <1>1, <1>2 DEF Located
<1>4. \A i, j \in 1..d : where[i] < where[j] => i < j
  BY <1>1, <1>3
<1>5. ASSUME NEW k \in K PROVE \E i \in B : where[i] = k
  <2>1. k \in 1..a /\ transcript[k].kind = "body"
    BY <1>1 DEF BodyLines
  <2>2. PICK i \in 1..d : where[i] = k
    BY <1>1, <1>2, <2>1 DEF Located
  <2>3. doc[i].kind = "body"
    BY <1>1, <1>2, <2>1, <2>2 DEF Located
  <2> QED BY <1>1, <2>2, <2>3 DEF BodyLines
<1>6. ASSUME NEW i \in B PROVE where[i] \in K
  BY <1>1, <1>2, <1>3 DEF Located, BodyLines
<1> DEFINE origin == [k \in K |-> CHOOSE i \in B : where[i] = k]
<1>7. \A k \in K : origin[k] \in B /\ origin[k] \in 1..d /\ where[origin[k]] = k
  BY <1>1, <1>5 DEF BodyLines
<1> HIDE DEF origin
<1>8. DOMAIN origin = K /\ origin = [k \in K |-> origin[k]]
  BY DEF origin
<1>9. \A k, m \in K : k < m => origin[k] < origin[m]
  BY <1>4, <1>7
<1>10. origin \in Bijection(K, B)
  <2>1. origin \in [K -> B]
    BY <1>7, <1>8
  <2>2. \A k, m \in K : origin[k] = origin[m] => k = m
    BY <1>7
  <2>3. ASSUME NEW i \in B PROVE \E k \in K : origin[k] = i
    <3>1. where[i] \in K /\ i \in 1..d /\ where[origin[where[i]]] = where[i]
          /\ origin[where[i]] \in 1..d
      BY <1>1, <1>6, <1>7 DEF BodyLines
    <3>2. \A j \in 1..d : where[j] = where[i] => j = i
      BY <1>1, <1>3, <3>1
    <3> QED BY <3>1, <3>2
  <2> HIDE DEF K, B
  <2> QED BY <1>8, <2>1, <2>2, <2>3 DEF Bijection, Injection, Surjection, IsInjective
<1>11. ASSUME NEW c \in DOMAIN Chunks
       PROVE  LET line == origin[Chunks[c].lines[1]]
              IN  /\ Chunks[c].page = doc[line].page
                  /\ InForce(doc, "heading", line, Chunks[c].heading, 0)
  <2> DEFINE k == Chunks[c].lines[1]
             line == origin[k]
             heading == Chunks[c].heading
  <2>1. /\ 1 \in DOMAIN Chunks[c].lines
        /\ InForce(transcript, "page", k, Chunks[c].page, 1)
        /\ InForce(transcript, "heading", k, heading, 0)
    <3>1. Len(Chunks[c].lines) >= 1 /\ Chunks[c].lines \in Seq(Nat \ {0})
      BY LinesRead DEF IInv, ChunksOK, ChunkOK
    <3> QED BY <3>1 DEF IInv, ChunksOK, ChunkOK
  <2>2. k \in K
    BY <2>1 DEF NothingLost, Range
  <2>3. line \in 1..d /\ where[line] = k /\ k \in 1..a
    BY <1>1, <1>7, <2>2 DEF BodyLines
  <2> HIDE DEF k, line, heading
  <2>4. Chunks[c].page = doc[line].page
    <3>1. InForce(transcript, "page", k, doc[line].page, 1)
      BY <1>1, <1>2, <2>3 DEF Located
    <3>2. k \in Nat
      BY <2>3
    <3> QED BY <2>1, <3>1, <3>2, OneInForce
  <2>5. InForce(doc, "heading", line, heading, 0)
    <3>1. ASSUME NEW i \in 1..line - 1
          PROVE  /\ i \in 1..d /\ where[i] \in 1..k - 1
                 /\ transcript[where[i]].kind = doc[i].kind /\ transcript[where[i]].n = doc[i].n
      <4>1. i \in 1..d /\ i < line
        BY <1>1, <2>3
      <4>2. where[i] < k /\ where[i] \in 1..a
        BY <1>3, <2>3, <4>1
      <4>3. transcript[where[i]].kind = doc[i].kind /\ transcript[where[i]].n = doc[i].n
        BY <1>1, <1>2, <4>1 DEF Located
      <4> QED BY <2>3, <4>1, <4>2, <4>3
    <3>2. CASE heading = 0 /\ \A j \in 1..k - 1 : transcript[j].kind # "heading"
      BY <3>1, <3>2 DEF InForce
    <3>3. ASSUME NEW j \in 1..k - 1, transcript[j].kind = "heading", transcript[j].n = heading,
                 \A m \in j + 1..k - 1 : transcript[m].kind # "heading"
          PROVE  InForce(doc, "heading", line, heading, 0)
      <4>1. PICK i \in 1..d : where[i] = j
        BY <1>1, <1>2, <2>3, <3>3 DEF Located
      <4>2. i \in 1..line - 1
        <5>1. where[i] < where[line]
          BY <2>3, <3>3, <4>1
        <5> QED BY <1>4, <2>3, <4>1, <5>1
      <4>3. doc[i].kind = "heading" /\ doc[i].n = heading
        BY <3>1, <3>3, <4>1, <4>2
      <4>4. ASSUME NEW m \in i + 1..line - 1
            PROVE  doc[m].kind # "heading"
        <5>1. m \in 1..line - 1 /\ i < m
          BY <4>2
        <5>2. where[m] \in 1..k - 1 /\ transcript[where[m]].kind = doc[m].kind /\ m \in 1..d
          BY <3>1, <5>1
        <5>3. where[m] > j
          BY <1>3, <4>1, <5>1, <5>2
        <5>4. where[m] \in j + 1..k - 1
          BY <5>2, <5>3
        <5> QED BY <3>3, <5>2, <5>4
      <4> QED BY <4>2, <4>3, <4>4 DEF InForce
    <3> QED BY <2>1, <3>2, <3>3 DEF InForce
  <2> QED BY <2>4, <2>5 DEF k, line, heading
<1> QED BY <1>9, <1>10, <1>11
-----------------------------------------------------------------------------
(* The theorems. *)

LEMMA Invariance == Spec => []IInv
BY InitIInv, NextIInv, PTL DEF Spec

\* Positions, pages, headings and sizes stay in their sets, whatever the reviewer
\* makes of the transcript.
THEOREM TypeCorrect == Spec => []TypeOK
<1>1. IInv => TypeOK
  BY DEF IInv
<1> QED BY <1>1, Invariance, PTL

\* For every budget, document and review: split never stores an empty chunk, and
\* only a single line can exceed the budget (chunk.rs, MAX_CHUNK_CHARS).
THEOREM BudgetHolds == Spec => []WithinBudget
<1>1. IInv => WithinBudget
  BY DEF IInv, ChunksOK, ChunkOK, WithinBudget
<1> QED BY <1>1, Invariance, PTL

\* For every budget, document and review: push_line only splits a section where
\* the next line does not fit.
THEOREM NeverSplitEarly == Spec => []SplitOnlyWhenFull
<1>1. IInv => SplitOnlyWhenFull
  BY DEF IInv, ChunksOK, Separate, SplitOnlyWhenFull
<1> QED BY <1>1, Invariance, PTL

\* For every budget, document and review: a chunk cites the page its first line is
\* on and the heading that line stands under, and crosses no heading.
THEOREM CitationsHold == Spec => []CitesItsStart
<1>1. IInv => CitesItsStart
  BY DEF IInv, ChunksOK, ChunkOK, CitesItsStart
<1> QED BY <1>1, Invariance, PTL

\* For every budget, document and review: each body line split has read is in one
\* chunk, in the order of the transcript, and the size push_line compares with the
\* budget is the length of the text that is stored.
THEOREM NothingIsLost == Spec => []NothingLost
<1>1. IInv /\ NothingLost /\ [Next]_vars => (IInv /\ NothingLost)'
  BY NextIInv, NextKeepsLines
<1> QED BY <1>1, InitIInv, InitKeepsLines, PTL DEF Spec

\* For every budget and document that nobody edits: the page and the heading of a
\* chunk are those of its first line in the document, so what to_markdown writes as
\* markers and headings is what split reads.
THEOREM CitationsReachTheDocument == Spec => []CitesTheDocument
<1> DEFINE Inv == IInv /\ NothingLost /\ Faithful
<1>1. Init => Inv
  BY InitIInv, InitKeepsLines, InitFaithful
<1>2. Inv /\ [Next]_vars => Inv'
  BY NextIInv, NextKeepsLines, NextFaithful
<1>3. Inv => CitesTheDocument
  BY DocumentCited
<1> QED BY <1>1, <1>2, <1>3, PTL DEF Spec
=============================================================================
