--------------------------- MODULE ChunkerProofs ---------------------------
(* Proofs about Chunker for every size, overlap and document.               *)
EXTENDS Chunker, SequenceTheorems, TLAPS

\* Every chunk of the page at hand is a full window that ended before the page
\* did; the last one began a step earlier. Chunks of later pages do not exist.
WindowsInv ==
    /\ \A i \in DOMAIN chunks :
        /\ chunks[i].page <= page
        /\ chunks[i].page = page =>
              /\ chunks[i].start < start
              /\ chunks[i].end = chunks[i].start + size
              /\ chunks[i].end < pages[page]
    /\ start > 0 =>
        /\ page <= Len(pages) /\ start < pages[page]
        /\ chunks # << >>
        /\ chunks[Len(chunks)].page = page
        /\ chunks[Len(chunks)].start + Step = start

ChunkerInv ==
    TypeOK /\ WindowsInv /\ EveryWordIsChunked /\ EachChunkAdvances /\ NeighboursShareOverlap

LEMMA Settings ==
    ASSUME TypeOK
    PROVE  /\ size \in Nat \ {0} /\ overlap \in Int
           /\ Step \in Nat \ {0}
           /\ overlap >= 0 => Step <= size
           /\ size - Step = IF overlap < size THEN overlap ELSE size - 1
           /\ Len(pages) \in 0..MaxPages /\ DOMAIN pages = 1..Len(pages)
           /\ \A p \in DOMAIN pages : pages[p] \in Nat
           /\ page \in Nat \ {0} /\ start \in Nat
    <1>1. size \in Nat \ {0} /\ overlap \in Int
        BY ChunkerAssumption DEF TypeOK, ChunkerAssumption
    <1>2. Step \in Nat \ {0} /\ (overlap >= 0 => Step <= size)
        BY <1>1 DEF Step
    <1>3. size - Step = IF overlap < size THEN overlap ELSE size - 1
        BY <1>1 DEF Step
    <1>4. PICK n \in 0..MaxPages : pages \in [1..n -> Lengths]
        BY DEF TypeOK, Documents
    <1>5. Len(pages) = n /\ DOMAIN pages = 1..n /\ n \in Nat
        BY <1>4, ChunkerAssumption DEF ChunkerAssumption
    <1>6. \A p \in DOMAIN pages : pages[p] \in Nat
        BY <1>4, ChunkerAssumption DEF ChunkerAssumption
    <1>. QED
        BY <1>1, <1>2, <1>3, <1>4, <1>5, <1>6 DEF TypeOK

LEMMA ChunksAreChunks ==
    ASSUME TypeOK
    PROVE  /\ DOMAIN chunks = 1..Len(chunks) /\ Len(chunks) \in Nat
           /\ \A i \in DOMAIN chunks : /\ chunks[i] \in Chunk /\ chunks[i].page \in Nat
                                       /\ chunks[i].start \in Nat /\ chunks[i].end \in Nat
    <1>1. chunks \in Seq(Chunk)
        BY DEF TypeOK
    <1>2. DOMAIN chunks = 1..Len(chunks) /\ Len(chunks) \in Nat
        BY <1>1
    <1>3. \A i \in DOMAIN chunks : chunks[i] \in Chunk
        BY <1>1, <1>2, ElementOfSeq
    <1>. QED
        BY <1>2, <1>3, ChunkerAssumption DEF Chunk, ChunkerAssumption

LEMMA InitChunker == Init => ChunkerInv
    <1>. SUFFICES ASSUME Init PROVE ChunkerInv
        OBVIOUS
    <1>1. chunks = << >> /\ DOMAIN chunks = {} /\ start = 0 /\ page = 1
        BY DEF Init
    <1>2. TypeOK
        <2>1. PICK n \in 0..MaxPages : pages \in [1..n -> Lengths]
            BY DEF Init, Documents
        <2>2. Len(pages) = n /\ n \in Nat
            BY <2>1, ChunkerAssumption DEF ChunkerAssumption
        <2>3. page \in 1..(Len(pages) + 1) /\ chunks \in Seq(Chunk)
            BY <1>1, <2>2
        <2>. QED
            BY <1>1, <2>3 DEF Init, TypeOK
    <1>3. EveryWordIsChunked
        <2>1. \A p \in DOMAIN pages : p \in Nat \ {0}
            BY <1>2, Settings
        <2>. QED
            BY <1>1, <1>2, <2>1, Settings DEF EveryWordIsChunked
    <1>. QED
        BY <1>1, <1>2, <1>3
        DEF ChunkerInv, WindowsInv, EachChunkAdvances, NeighboursShareOverlap

\* A page without words is left behind with nothing to hold.
LEMMA SkipStep ==
    ASSUME ChunkerInv, SkipPage
    PROVE  ChunkerInv'
    <1>0. /\ TypeOK /\ WindowsInv /\ EveryWordIsChunked
          /\ page <= Len(pages) /\ pages[page] = 0 /\ page' = page + 1 /\ start' = 0
          /\ size' = size /\ overlap' = overlap /\ pages' = pages /\ chunks' = chunks
        BY DEF ChunkerInv, SkipPage, NextPage
    <1>1. /\ page \in Nat \ {0} /\ Len(pages) \in Nat /\ page \in DOMAIN pages
          /\ \A i \in DOMAIN chunks : chunks[i].page \in Nat
          /\ \A p \in DOMAIN pages : p \in Nat
        <2>1. Len(pages) \in Nat /\ page \in Nat \ {0} /\ page \in DOMAIN pages
            BY <1>0, Settings, ChunkerAssumption DEF ChunkerAssumption
        <2>2. \A p \in DOMAIN pages : p \in Nat
            BY <1>0, <2>1, Settings
        <2>. QED
            BY <1>0, <2>1, <2>2, ChunksAreChunks
    <1>2. TypeOK'
        BY <1>0, <1>1 DEF TypeOK
    <1>3. WindowsInv'
        BY <1>0, <1>1 DEF WindowsInv
    <1>4. EveryWordIsChunked'
        <2>1. SUFFICES ASSUME overlap >= 0, NEW p \in DOMAIN pages, NEW w \in 0..(pages[p] - 1),
                              p < page + 1 \/ (p = page + 1 /\ w < 0)
                       PROVE  \E i \in DOMAIN chunks : Holds(chunks[i], p, w)
            BY <1>0 DEF EveryWordIsChunked
        <2>2. p < page
            BY <1>0, <1>1, <2>1
        <2>. QED
            BY <1>0, <2>1, <2>2 DEF EveryWordIsChunked
    <1>5. EachChunkAdvances' /\ NeighboursShareOverlap'
        BY <1>0 DEF ChunkerInv, EachChunkAdvances, NeighboursShareOverlap
    <1>. QED
        BY <1>2, <1>3, <1>4, <1>5 DEF ChunkerInv

\* What a window adds, and where the loop is afterwards.
LEMMA WindowStep ==
    ASSUME ChunkerInv, EmitWindow
    PROVE  ChunkerInv'
    <1>. DEFINE n == Len(chunks)
                new == [page |-> page, start |-> start, end |-> EndWord]
    <1>0. /\ TypeOK /\ WindowsInv /\ EveryWordIsChunked /\ EachChunkAdvances /\ NeighboursShareOverlap
          /\ page <= Len(pages) /\ pages[page] > 0 /\ chunks' = Append(chunks, new)
          /\ size' = size /\ overlap' = overlap /\ pages' = pages
          /\ IF LastWindow THEN page' = page + 1 /\ start' = 0 ELSE start' = start + Step /\ page' = page
        BY DEF ChunkerInv, EmitWindow, NextPage
    <1>1. /\ size \in Nat \ {0} /\ Step \in Nat \ {0} /\ page \in Nat \ {0} /\ start \in Nat
          /\ Len(pages) \in 0..MaxPages /\ page \in DOMAIN pages /\ pages[page] \in Nat
          /\ DOMAIN pages = 1..Len(pages) /\ MaxPages \in Nat
        BY <1>0, Settings, ChunkerAssumption DEF ChunkerAssumption
    <1>2. start < pages[page]
        BY <1>0, <1>1 DEF WindowsInv
    <1>3. /\ EndWord \in Nat /\ start < EndWord /\ EndWord <= pages[page] /\ EndWord <= start + size
          /\ ~LastWindow => EndWord = start + size /\ EndWord < pages[page] /\ start + Step < pages[page]
          /\ EndWord = start + size \/ EndWord = pages[page]
        BY <1>1, <1>2 DEF EndWord, LastWindow
    <1>4. /\ chunks \in Seq(Chunk) /\ n \in Nat /\ DOMAIN chunks = 1..n
          /\ new \in Chunk
        BY <1>0, <1>1, <1>3 DEF TypeOK, Chunk
    <1>5. /\ chunks' \in Seq(Chunk) /\ DOMAIN chunks' = 1..(n + 1) /\ Len(chunks') = n + 1
          /\ chunks'[n + 1] = new /\ \A i \in 1..n : chunks'[i] = chunks[i]
        <2>. HIDE DEF new
        <2>. QED
            BY <1>0, <1>4
    <1>6. new.page = page /\ new.start = start /\ new.end = EndWord
        OBVIOUS
    <1>7. \A i \in 1..n : /\ chunks[i].page \in Nat /\ chunks[i].start \in Nat /\ chunks[i].end \in Nat
                          /\ chunks[i].page <= page
                          /\ chunks[i].page = page => /\ chunks[i].start < start
                                                      /\ chunks[i].end = chunks[i].start + size
                                                      /\ chunks[i].end < pages[page]
        BY <1>0, <1>4, ChunksAreChunks DEF WindowsInv
    <1>. HIDE DEF n, new
    <1>8. TypeOK'
        <2>1. page' \in 1..(Len(pages) + 1) /\ start' \in Nat
            BY <1>0, <1>1
        <2>2. \A i \in 1..(n + 1) :
                 /\ chunks'[i].page <= Len(pages) /\ chunks'[i].start < chunks'[i].end
                 /\ chunks'[i].end <= pages[chunks'[i].page] /\ chunks'[i].end <= chunks'[i].start + size
            <3>1. \A i \in 1..n :
                     /\ chunks'[i].page <= Len(pages) /\ chunks'[i].start < chunks'[i].end
                     /\ chunks'[i].end <= pages[chunks'[i].page] /\ chunks'[i].end <= chunks'[i].start + size
                BY <1>0, <1>4, <1>5 DEF TypeOK
            <3>2. /\ chunks'[n + 1].page <= Len(pages) /\ chunks'[n + 1].start < chunks'[n + 1].end
                  /\ chunks'[n + 1].end <= pages[chunks'[n + 1].page]
                  /\ chunks'[n + 1].end <= chunks'[n + 1].start + size
                BY <1>0, <1>3, <1>5, <1>6
            <3>. QED
                BY <1>4, <3>1, <3>2
        <2>. QED
            BY <1>0, <1>5, <2>1, <2>2 DEF TypeOK
    <1>9. WindowsInv'
        <2>1. CASE LastWindow
            BY <1>0, <1>1, <1>4, <1>5, <1>6, <1>7, <2>1 DEF WindowsInv
        <2>2. CASE ~LastWindow
            <3>1. page' = page /\ start' = start + Step /\ start' > start /\ start' < pages[page]
                BY <1>0, <1>1, <1>3, <2>2
            <3>2. ASSUME NEW i \in 1..(n + 1)
                  PROVE  /\ chunks'[i].page <= page
                         /\ chunks'[i].page = page => /\ chunks'[i].start < start'
                                                      /\ chunks'[i].end = chunks'[i].start + size
                                                      /\ chunks'[i].end < pages[page]
                <4>1. CASE i \in 1..n
                    BY <1>1, <1>5, <1>7, <3>1, <4>1
                <4>2. CASE i = n + 1
                    BY <1>1, <1>3, <1>5, <1>6, <2>2, <3>1, <4>2
                <4>. QED
                    BY <1>4, <4>1, <4>2
            <3>3. /\ chunks' # << >> /\ chunks'[Len(chunks')].page = page
                  /\ chunks'[Len(chunks')].start + Step' = start'
                BY <1>0, <1>4, <1>5, <1>6, <3>1 DEF Step
            <3>. QED
                BY <1>0, <1>5, <3>1, <3>2, <3>3 DEF WindowsInv
        <2>. QED
            BY <2>1, <2>2
    <1>10. EveryWordIsChunked'
        <2>1. SUFFICES ASSUME overlap >= 0, NEW p \in DOMAIN pages, NEW w \in 0..(pages[p] - 1),
                              p < page' \/ (p = page' /\ w < start')
                       PROVE  \E i \in DOMAIN chunks' : Holds(chunks'[i], p, w)
            BY <1>0 DEF EveryWordIsChunked
        <2>2. p \in Nat /\ w \in Nat /\ Step <= size /\ (p = page => w < pages[page])
            BY <1>0, <1>1, <2>1, Settings
        <2>3. CASE p < page \/ (p = page /\ w < start)
            <3>1. PICK i \in DOMAIN chunks : Holds(chunks[i], p, w)
                BY <1>0, <2>1, <2>3 DEF EveryWordIsChunked
            <3>. QED
                BY <1>4, <1>5, <3>1
        <2>4. CASE p = page /\ w >= start
            <3>1. w < EndWord
                <4>1. CASE LastWindow
                    BY <1>1, <1>2, <2>2, <2>4, <4>1 DEF LastWindow, EndWord
                <4>2. CASE ~LastWindow
                    BY <1>0, <1>1, <1>3, <2>1, <2>2, <2>4, <4>2
                <4>. QED
                    BY <4>1, <4>2
            <3>2. Holds(chunks'[n + 1], p, w)
                BY <1>5, <1>6, <2>4, <3>1 DEF Holds
            <3>. QED
                BY <1>4, <1>5, <3>2
        <2>5. p < page \/ (p = page /\ w < start) \/ (p = page /\ w >= start)
            BY <1>0, <1>1, <2>1, <2>2
        <2>. QED
            BY <2>3, <2>4, <2>5
    <1>11. EachChunkAdvances'
        <2>1. SUFFICES ASSUME NEW i \in 1..(n + 1), NEW j \in 1..(n + 1), i < j
                       PROVE  \/ chunks'[i].page < chunks'[j].page
                              \/ /\ chunks'[i].page = chunks'[j].page
                                 /\ chunks'[i].start < chunks'[j].start
                                 /\ chunks'[i].end < chunks'[j].end
            BY <1>5 DEF EachChunkAdvances
        <2>2. i \in 1..n /\ chunks'[i] = chunks[i]
            BY <1>4, <1>5, <2>1
        <2>3. CASE j \in 1..n
            BY <1>0, <1>4, <1>5, <2>1, <2>2, <2>3 DEF EachChunkAdvances
        <2>4. CASE j = n + 1
            <3>1. chunks[i].page < page \/ chunks[i].page = page
                BY <1>1, <1>7, <2>2
            <3>2. chunks[i].page = page => chunks[i].start < start /\ chunks[i].end < EndWord
                BY <1>1, <1>3, <1>7, <2>2
            <3>. QED
                BY <1>5, <1>6, <2>2, <2>4, <3>1, <3>2
        <2>. QED
            BY <1>4, <2>3, <2>4
    <1>12. NeighboursShareOverlap'
        <2>1. SUFFICES ASSUME NEW i \in 1..n, chunks'[i + 1].page = chunks'[i].page
                       PROVE  chunks'[i].end - chunks'[i + 1].start
                                  = IF overlap < size THEN overlap ELSE size - 1
            BY <1>0, <1>4, <1>5 DEF NeighboursShareOverlap
        <2>2. CASE i + 1 \in 1..n
            BY <1>0, <1>4, <1>5, <2>1, <2>2 DEF NeighboursShareOverlap
        <2>3. CASE i = n
            <3>1. chunks[n].page = page /\ chunks'[n] = chunks[n] /\ chunks'[n + 1].start = start
                BY <1>5, <1>6, <2>1, <2>3
            <3>2. chunks[n].end = chunks[n].start + size /\ chunks[n].start \in Nat /\ chunks[n].start < start
                BY <1>7, <2>1, <2>3, <3>1
            <3>3. chunks[n].start + Step = start
                BY <1>0, <1>1, <3>2 DEF WindowsInv, n
            <3>4. chunks[n].end - start = size - Step
                BY <1>1, <3>2, <3>3
            <3>. QED
                BY <1>0, <2>3, <3>1, <3>4, Settings
        <2>. QED
            BY <1>4, <2>2, <2>3
    <1>. QED
        BY <1>8, <1>9, <1>10, <1>11, <1>12 DEF ChunkerInv

LEMMA NextChunker == ChunkerInv /\ [Next]_vars => ChunkerInv'
    <1>1. ASSUME ChunkerInv, UNCHANGED vars PROVE ChunkerInv'
        BY <1>1 DEF ChunkerInv, vars, TypeOK, WindowsInv, Step, EveryWordIsChunked, EachChunkAdvances,
                    NeighboursShareOverlap
    <1>. QED
        BY <1>1, SkipStep, WindowStep DEF Next, Returned

\* For every size, overlap and document: no word that the loop passed is lost.
THEOREM NoWordIsLost == Spec => []EveryWordIsChunked
    BY InitChunker, NextChunker, PTL DEF Spec, ChunkerInv

\* For every size, overlap and document: no chunk lies within an earlier one.
THEOREM ChunksAdvance == Spec => []EachChunkAdvances
    BY InitChunker, NextChunker, PTL DEF Spec, ChunkerInv

\* For every size, overlap and document: the overlap is the configured one.
THEOREM OverlapIsConfigured == Spec => []NeighboursShareOverlap
    BY InitChunker, NextChunker, PTL DEF Spec, ChunkerInv

\* For every size, overlap and document: no chunk is empty, longer than the
\* window or beyond the end of its page.
THEOREM ChunksAreWindows == Spec => []TypeOK
    BY InitChunker, NextChunker, PTL DEF Spec, ChunkerInv

-----------------------------------------------------------------------------
(* The chunks of a whole document *)

\* The reference: the windows of page p are those that begin at a multiple of the
\* stride on the page, up to the first that reaches the end of the page.
WindowsOf(p) ==
    {k \in Nat : k * Step < pages[p] /\ (k = 0 \/ (k - 1) * Step + size < pages[p])}

Window(p, k) ==
    [page |-> p, start |-> k * Step,
     end |-> IF k * Step + size < pages[p] THEN k * Step + size ELSE pages[p]]

Emitted(p, k) == \E i \in DOMAIN chunks : chunks[i] = Window(p, k)

ChunksAreTheWindows ==
    page > Len(pages) =>
        /\ \A p \in DOMAIN pages : \A k \in WindowsOf(p) : Emitted(p, k)
        /\ \A i \in DOMAIN chunks : \E p \in DOMAIN pages : \E k \in WindowsOf(p) : chunks[i] = Window(p, k)

\* The loop has emitted the pages behind it and the first windows of the page at
\* hand, and nothing else; the next one, if there is one, is a window of the page.
ReferenceInv ==
    /\ ChunkerInv
    /\ \A p \in DOMAIN pages : p < page => \A k \in WindowsOf(p) : Emitted(p, k)
    /\ \E j \in Nat : /\ start = j * Step
                      /\ j > 0 => (j - 1) * Step + size < pages[page]
                      /\ \A k \in Nat : k < j => Emitted(page, k)
    /\ \A i \in DOMAIN chunks : \E p \in DOMAIN pages : \E k \in WindowsOf(p) : chunks[i] = Window(p, k)

LEMMA Multiples ==
    ASSUME NEW s \in Nat, NEW j \in Nat, NEW k \in Nat
    PROVE  /\ j * s \in Nat /\ (j + 1) * s = j * s + s
           /\ k >= j => k * s >= j * s
    <1>1. j * s \in Nat /\ (j + 1) * s = j * s + s
        OBVIOUS
    <1>2. ASSUME k >= j PROVE k * s >= j * s
        <2>1. PICK d \in Nat : k = j + d
            BY <1>2
        <2>2. k * s = j * s + d * s
            BY <2>1
        <2>3. d * s \in Nat /\ j * s \in Nat
            OBVIOUS
        <2>. QED
            BY <2>2, <2>3
    <1>. QED
        BY <1>1, <1>2

LEMMA InitReference == Init => ReferenceInv
    <1>. SUFFICES ASSUME Init PROVE ReferenceInv
        OBVIOUS
    <1>1. ChunkerInv /\ chunks = << >> /\ DOMAIN chunks = {} /\ start = 0 /\ page = 1
        BY InitChunker DEF Init
    <1>2. Step \in Nat /\ \A p \in DOMAIN pages : ~(p < 1)
        BY <1>1, Settings DEF ChunkerInv
    <1>3. start = 0 * Step /\ \A k \in Nat : ~(k < 0)
        BY <1>1, <1>2
    <1>. QED
        BY <1>1, <1>2, <1>3 DEF ReferenceInv

LEMMA SkipReference ==
    ASSUME ReferenceInv, SkipPage
    PROVE  ReferenceInv'
    <1>0. /\ ChunkerInv /\ ChunkerInv' /\ TypeOK
          /\ page <= Len(pages) /\ pages[page] = 0 /\ page' = page + 1 /\ start' = 0
          /\ size' = size /\ overlap' = overlap /\ pages' = pages /\ chunks' = chunks
        BY SkipStep DEF ReferenceInv, ChunkerInv, SkipPage, NextPage
    <1>1. /\ Step \in Nat \ {0} /\ page \in Nat /\ Step' = Step
          /\ \A p \in DOMAIN pages : p \in Nat
        <2>1. Step \in Nat \ {0} /\ page \in Nat /\ \A p \in DOMAIN pages : p \in Nat
            BY <1>0, Settings
        <2>. QED
            BY <1>0, <2>1 DEF Step
    <1>2. /\ \A p : WindowsOf(p)' = WindowsOf(p)
          /\ \A p, k : Window(p, k)' = Window(p, k) /\ Emitted(p, k)' = Emitted(p, k)
        BY <1>0, <1>1 DEF WindowsOf, Window, Emitted
    <1>3. WindowsOf(page) = {}
        <2>1. ASSUME NEW k \in WindowsOf(page) PROVE FALSE
            <3>1. k \in Nat /\ k * Step < 0
                BY <1>0 DEF WindowsOf
            <3>. QED
                BY <1>1, <3>1, Multiples
        <2>. QED
            BY <2>1
    <1>4. \A p \in DOMAIN pages : p < page' => \A k \in WindowsOf(p) : Emitted(p, k)
        <2>1. ASSUME NEW p \in DOMAIN pages, p < page + 1 PROVE p < page \/ p = page
            BY <1>1, <2>1
        <2>. QED
            BY <1>0, <1>3, <2>1 DEF ReferenceInv
    <1>5. start' = 0 * Step /\ \A k \in Nat : ~(k < 0)
        BY <1>0, <1>1
    <1>. QED
        BY <1>0, <1>1, <1>2, <1>4, <1>5 DEF ReferenceInv

LEMMA WindowReference ==
    ASSUME ReferenceInv, EmitWindow
    PROVE  ReferenceInv'
    <1>. DEFINE n == Len(chunks)
                new == [page |-> page, start |-> start, end |-> EndWord]
    <1>0. /\ ChunkerInv /\ ChunkerInv' /\ TypeOK
          /\ page <= Len(pages) /\ chunks' = Append(chunks, new)
          /\ size' = size /\ overlap' = overlap /\ pages' = pages
          /\ IF LastWindow THEN page' = page + 1 /\ start' = 0 ELSE start' = start + Step /\ page' = page
        BY WindowStep DEF ReferenceInv, ChunkerInv, EmitWindow, NextPage
    <1>1. /\ Step \in Nat \ {0} /\ size \in Nat \ {0} /\ page \in Nat \ {0} /\ page \in DOMAIN pages
          /\ \A p \in DOMAIN pages : p \in Nat /\ pages[p] \in Nat
        <2>1. Len(pages) \in Nat
            BY <1>0, Settings, ChunkerAssumption DEF ChunkerAssumption
        <2>. QED
            BY <1>0, <2>1, Settings
    <1>2. Step' = Step
        BY <1>0 DEF Step
    <1>3. PICK j \in Nat : /\ start = j * Step
                           /\ j > 0 => (j - 1) * Step + size < pages[page]
                           /\ \A k \in Nat : k < j => Emitted(page, k)
        BY DEF ReferenceInv
    <1>4. start < pages[page]
        BY <1>0, <1>1, Settings DEF ChunkerInv, WindowsInv, EmitWindow
    <1>4a. PICK q \in DOMAIN pages : q = page
        BY <1>1
    <1>5. j \in WindowsOf(page) /\ new = Window(page, j)
        BY <1>3, <1>4 DEF WindowsOf, Window, EndWord
    <1>6. /\ DOMAIN chunks = 1..n /\ n \in Nat /\ DOMAIN chunks' = 1..(n + 1)
          /\ chunks'[n + 1] = new /\ \A i \in 1..n : chunks'[i] = chunks[i]
        <2>1. chunks \in Seq(Chunk) /\ n \in Nat /\ DOMAIN chunks = 1..n
            BY <1>0 DEF TypeOK
        <2>2. new \in Chunk
            <3>1. EndWord \in Nat /\ start \in Nat /\ page \in 1..MaxPages
                BY <1>0, <1>1, Settings, ChunkerAssumption DEF EndWord, ChunkerAssumption
            <3>. QED
                BY <3>1 DEF Chunk
        <2>. HIDE DEF new
        <2>. QED
            BY <1>0, <2>1, <2>2
    <1>. HIDE DEF n, new
    <1>7. \A p : WindowsOf(p)' = WindowsOf(p)
        BY <1>0, <1>2 DEF WindowsOf
    <1>8. \A p, k : Window(p, k)' = Window(p, k)
        BY <1>0, <1>2 DEF Window
    <1>9. \A p, k : Emitted(p, k) => Emitted(p, k)'
        BY <1>6, <1>8 DEF Emitted
    <1>10. Emitted(q, j)'
        BY <1>4a, <1>5, <1>6, <1>8 DEF Emitted
    <1>11. \A i \in DOMAIN chunks' : \E p \in DOMAIN pages : \E k \in WindowsOf(p) : chunks'[i] = Window(p, k)
        <2>1. \A i \in 1..n : \E p \in DOMAIN pages : \E k \in WindowsOf(p) : chunks'[i] = Window(p, k)
            BY <1>6 DEF ReferenceInv
        <2>2. \E p \in DOMAIN pages : \E k \in WindowsOf(p) : chunks'[n + 1] = Window(p, k)
            BY <1>1, <1>5, <1>6
        <2>. QED
            BY <1>6, <2>1, <2>2
    <1>12. \A k \in Nat : k < j + 1 => Emitted(q, k)'
        <2>1. \A k \in Nat : k < j + 1 => k < j \/ k = j
            BY <1>3
        <2>. QED
            BY <1>3, <1>4a, <1>9, <1>10, <2>1
    <1>13. CASE ~LastWindow
        <2>1. start' = start + Step /\ page' = page
            BY <1>0, <1>13
        <2>2. start' = (j + 1) * Step
            BY <1>1, <1>3, <2>1, Multiples
        <2>3. (j + 1 - 1) * Step + size < pages[page]
            <3>1. start \in Nat /\ ~(start + size >= pages[page]) /\ j + 1 - 1 = j
                BY <1>0, <1>3, <1>13, Settings DEF LastWindow
            <3>. QED
                BY <1>1, <1>3, <3>1
        <2>4. \E m \in Nat : /\ start' = m * Step'
                             /\ m > 0 => (m - 1) * Step' + size' < pages'[page']
                             /\ \A k \in Nat : k < m => Emitted(q, k)'
            <3>1. j + 1 \in Nat
                BY <1>3
            <3>. QED
                BY <1>0, <1>2, <1>4a, <1>12, <2>1, <2>2, <2>3, <3>1
        <2>. QED
            BY <1>0, <1>4a, <1>7, <1>8, <1>9, <1>11, <2>1, <2>4 DEF ReferenceInv
    <1>14. CASE LastWindow
        <2>1. start' = 0 /\ page' = page + 1
            BY <1>0, <1>14
        <2>2. ASSUME NEW k \in WindowsOf(page) PROVE k < j + 1
            <3>1. /\ k \in Nat /\ k * Step < pages[page]
                  /\ k = 0 \/ (k - 1) * Step + size < pages[page]
                BY <2>2 DEF WindowsOf
            <3>2. SUFFICES ASSUME k >= j + 1 PROVE FALSE
                BY <1>3, <3>1
            <3>3. /\ k * Step >= j * Step + Step
                  /\ (k - 1) * Step >= j * Step
                <4>1. k - 1 \in Nat /\ k - 1 >= j
                    BY <1>3, <3>1, <3>2
                <4>2. (k - 1) * Step >= j * Step
                    BY <1>1, <1>3, <4>1, Multiples
                <4>3. k * Step >= (j + 1) * Step
                    BY <1>1, <1>3, <3>1, <3>2, Multiples
                <4>4. (j + 1) * Step = j * Step + Step
                    BY <1>1, <1>3, Multiples
                <4>. QED
                    BY <4>2, <4>3, <4>4
            <3>4. k # 0
                BY <1>3, <3>1, <3>2
            <3>5. start + size >= pages[page] \/ start + Step >= pages[page]
                BY <1>14 DEF LastWindow
            <3>6. j * Step \in Nat /\ k * Step \in Nat /\ (k - 1) * Step \in Nat
                <4>1. k - 1 \in Nat
                    BY <3>1, <3>4
                <4>. QED
                    BY <1>1, <1>3, <3>1, <4>1, Multiples
            <3>. DEFINE a == j * Step
                        b == k * Step
                        c == (k - 1) * Step
            <3>7. /\ a \in Nat /\ b \in Nat /\ c \in Nat
                  /\ b >= a + Step /\ c >= a
                  /\ b < pages[page] /\ c + size < pages[page]
                  /\ a + size >= pages[page] \/ a + Step >= pages[page]
                BY <1>3, <3>1, <3>3, <3>4, <3>5, <3>6
            <3>. HIDE DEF a, b, c
            <3>. QED
                BY <1>1, <3>7
        <2>3. \A p \in DOMAIN pages : p < page' => \A k \in WindowsOf(p) : Emitted(p, k)'
            <3>1. ASSUME NEW p \in DOMAIN pages, p < page' PROVE p < page \/ p = page
                BY <1>1, <2>1, <3>1
            <3>2. \A k \in WindowsOf(page) : Emitted(q, k)'
                BY <1>12, <2>2 DEF WindowsOf
            <3>3. \A p \in DOMAIN pages : p < page => \A k \in WindowsOf(p) : Emitted(p, k)'
                BY <1>9 DEF ReferenceInv
            <3>. QED
                BY <1>4a, <3>1, <3>2, <3>3
        <2>4. start' = 0 * Step' /\ \A k \in Nat : ~(k < 0)
            BY <1>1, <1>2, <2>1
        <2>. QED
            BY <1>0, <1>7, <1>8, <1>11, <2>3, <2>4 DEF ReferenceInv
    <1>. QED
        BY <1>13, <1>14

LEMMA NextReference == ReferenceInv /\ [Next]_vars => ReferenceInv'
    <1>1. ASSUME ReferenceInv, UNCHANGED vars PROVE ReferenceInv'
        <2>1. ChunkerInv'
            BY <1>1, NextChunker DEF ReferenceInv
        <2>2. /\ Step' = Step /\ page' = page /\ start' = start /\ size' = size
              /\ pages' = pages /\ chunks' = chunks
            BY <1>1 DEF vars, Step
        <2>3. \A p : WindowsOf(p)' = WindowsOf(p)
            BY <2>2 DEF WindowsOf
        <2>4. \A p, k : Window(p, k)' = Window(p, k) /\ Emitted(p, k)' = Emitted(p, k)
            BY <2>2 DEF Window, Emitted
        <2>. QED
            BY <1>1, <2>1, <2>2, <2>3, <2>4 DEF ReferenceInv
    <1>. QED
        BY <1>1, SkipReference, WindowReference DEF Next, Returned

\* For every size, overlap and document: the payloads that chunk_document returns
\* are exactly the windows of the reference, a definition without the loop.
THEOREM ChunksAreReference == Spec => []ChunksAreTheWindows
    <1>1. ReferenceInv => ChunksAreTheWindows
        <2>1. SUFFICES ASSUME ReferenceInv, page > Len(pages) PROVE ChunksAreTheWindows
            BY DEF ChunksAreTheWindows
        <2>2. \A p \in DOMAIN pages : p < page
            <3>1. /\ DOMAIN pages = 1..Len(pages) /\ Len(pages) \in Nat /\ page \in Nat
                BY <2>1, Settings, ChunkerAssumption DEF ReferenceInv, ChunkerInv, ChunkerAssumption
            <3>. QED
                BY <2>1, <3>1
        <2>. QED
            BY <2>1, <2>2 DEF ReferenceInv, ChunksAreTheWindows
    <1>. QED
        BY <1>1, InitReference, NextReference, PTL DEF Spec
=============================================================================
