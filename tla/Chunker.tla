------------------------------- MODULE Chunker -------------------------------
(***************************************************************************)
(* SlidingWindowChunkingStrategy.chunk_document: the nested loop over the  *)
(* pages of a document and the windows of a page, one window at a time. A  *)
(* page is its number of words, a chunk the words start..end - 1 of a page *)
(* (start_word and end_word of its metadata); its index is its position.   *)
(***************************************************************************)
EXTENDS Integers, Sequences

CONSTANTS
    Sizes,     \* values of chunk_size_words
    Overlaps,  \* values of chunk_overlap_words, which nothing restricts
    Lengths,   \* BOUND: words on a page
    MaxPages   \* BOUND: pages of a document

ASSUME ChunkerAssumption ==
    /\ Sizes \subseteq Nat \ {0}
    /\ Overlaps \subseteq Int
    /\ Lengths \subseteq Nat
    /\ MaxPages \in Nat

VARIABLES
    size, overlap,  \* the settings
    pages,          \* words on each page
    page, start,    \* the loop variables
    chunks          \* payloads

vars == <<size, overlap, pages, page, start, chunks>>

Documents == UNION {[1..n -> Lengths] : n \in 0..MaxPages}

Chunk == [page : 1..MaxPages, start : Nat, end : Nat]

TypeOK ==
    /\ size \in Sizes
    /\ overlap \in Overlaps
    /\ pages \in Documents
    /\ page \in 1..(Len(pages) + 1)
    /\ start \in Nat
    /\ chunks \in Seq(Chunk)
    /\ \A i \in DOMAIN chunks :
        LET c == chunks[i]
        IN  c.page <= Len(pages) /\ c.start < c.end /\ c.end <= pages[c.page] /\ c.end <= c.start + size

-----------------------------------------------------------------------------

\* Mutant of Step: off by one.
LongStep == IF size - overlap > 1 THEN size - overlap + 1 ELSE 1

Step == IF size - overlap > 1 THEN size - overlap ELSE 1

\* Mutant of EndWord: the window is taken to be full.
FullEnd == start + size

EndWord == IF start + size < pages[page] THEN start + size ELSE pages[page]

\* Mutant of LastWindow: the loop goes on to the end of its range.
WholeRange == start + Step >= pages[page]

\* The break, or the end of the range.
LastWindow == start + size >= pages[page] \/ start + Step >= pages[page]

Init ==
    /\ size \in Sizes
    /\ overlap \in Overlaps
    /\ pages \in Documents
    /\ page = 1
    /\ start = 0
    /\ chunks = << >>

NextPage == page' = page + 1 /\ start' = 0

SkipPage ==
    /\ page <= Len(pages)
    /\ pages[page] = 0
    /\ NextPage
    /\ UNCHANGED <<size, overlap, pages, chunks>>

EmitWindow ==
    /\ page <= Len(pages)
    /\ pages[page] > 0
    /\ chunks' = Append(chunks, [page |-> page, start |-> start, end |-> EndWord])
    /\ IF LastWindow THEN NextPage ELSE start' = start + Step /\ UNCHANGED page
    /\ UNCHANGED <<size, overlap, pages>>

Returned == page > Len(pages) /\ UNCHANGED vars

Next == SkipPage \/ EmitWindow \/ Returned

Spec == Init /\ [][Next]_vars

-----------------------------------------------------------------------------
(* Properties *)

\* The chunk holds word w of page p.
Holds(c, p, w) == c.page = p /\ c.start <= w /\ w < c.end

\* No word is lost, at the latest when the loop has left it behind: what is not in
\* a chunk cannot be found by any question. A negative overlap leaves gaps.
EveryWordIsChunked ==
    overlap >= 0 =>
        \A p \in DOMAIN pages : \A w \in 0..(pages[p] - 1) :
            p < page \/ (p = page /\ w < start) =>
                \E i \in DOMAIN chunks : Holds(chunks[i], p, w)

\* Chunks follow the text and none lies within an earlier one: each has words that
\* no chunk before it had, so the last windows of a page do not repeat its tail.
EachChunkAdvances ==
    \A i, j \in DOMAIN chunks : i < j =>
        \/ chunks[i].page < chunks[j].page
        \/ /\ chunks[i].page = chunks[j].page
           /\ chunks[i].start < chunks[j].start
           /\ chunks[i].end < chunks[j].end

\* Neighbours on a page share the configured number of words, or all but one word
\* of a window when the overlap is as large as that.
NeighboursShareOverlap ==
    \A i \in DOMAIN chunks :
        i + 1 \in DOMAIN chunks /\ chunks[i + 1].page = chunks[i].page =>
            chunks[i].end - chunks[i + 1].start = IF overlap < size THEN overlap ELSE size - 1
=============================================================================
