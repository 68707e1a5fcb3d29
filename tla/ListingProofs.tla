--------------------------- MODULE ListingProofs ---------------------------
(***************************************************************************)
(* Proofs about Listing for any rows, page sizes and stamps: consecutive   *)
(* pages leave no gap, and a finished walk misses no more than what became *)
(* visible during its last request.                                        *)
(***************************************************************************)
EXTENDS Listing, FiniteSetTheorems, TLAPS

(* Arithmetic of the pages *)

LEMMA PageEnd ==
    ASSUME NEW page \in Nat \ {0}, NEW size \in Nat \ {0}
    PROVE  /\ Offset(page, size) \in Nat
           /\ page * size \in Nat
           /\ Offset(page, size) + size = page * size
           /\ Offset(page + 1, size) = page * size
           /\ Offset(page, size) <= page * size
    <1>1. page * size \in Nat /\ (page - 1) * size \in Nat
        OBVIOUS
    <1>2. (page - 1) * size + size = page * size
        OBVIOUS
    <1>. QED
        BY <1>1, <1>2 DEF Offset

\* The last page reaches the end.
LEMMA LastPageReaches ==
    ASSUME NEW total \in Nat, NEW page \in Nat \ {0}, NEW size \in Nat \ {0},
           page >= TotalPages(total, size)
    PROVE  page * size >= total
    <1>. DEFINE n == total + size - 1
                q == n \div size
    <1>1. n \in Nat
        OBVIOUS
    <1>2. q \in Nat /\ n < q * size + size
        BY <1>1, Z3
    <1>3. page >= q
        BY DEF TotalPages
    <1>. HIDE DEF q
    <1>4. page * size >= q * size
        BY <1>2, <1>3, Z3
    <1>5. page * size \in Nat /\ q * size \in Nat
        BY <1>2
    <1>. QED
        BY <1>2, <1>4, <1>5

(* The rows in order *)

LEMMA RowsFinite ==
    ASSUME NEW S \in SUBSET Rows
    PROVE  IsFiniteSet(S) /\ Cardinality(S) \in Nat
    BY ListAssumption, FS_Subset, FS_CardinalityType DEF ListAssumption

LEMMA MatchingFinite ==
    ASSUME ListTypeOK
    PROVE  /\ IsFiniteSet(Matching) /\ Cardinality(Matching) \in Nat
           /\ Matching \subseteq Rows /\ Matching \subseteq Filtered
           /\ \A S \in SUBSET Matching : IsFiniteSet(S) /\ Cardinality(S) \in Nat
    <1>1. Matching \subseteq Rows /\ Matching \subseteq Filtered
        BY ListAssumption DEF Matching, ListTypeOK, ListAssumption
    <1>. QED
        BY <1>1, RowsFinite

LEMMA FrontSize ==
    ASSUME ListTypeOK, NEW n \in Nat, NEW F \in Front(n)
    PROVE  /\ F \subseteq Matching
           /\ Cardinality(F) \in Nat
           /\ Cardinality(F) <= n
           /\ Cardinality(F) <= Cardinality(Matching)
           /\ Cardinality(F) = n \/ F = Matching
    <1>1. F \subseteq Matching
          /\ Cardinality(F) = IF n < Cardinality(Matching) THEN n ELSE Cardinality(Matching)
        BY DEF Front
    <1>2. IsFiniteSet(Matching) /\ Cardinality(Matching) \in Nat /\ Cardinality(F) \in Nat
        BY <1>1, MatchingFinite
    <1>3. Cardinality(Matching) = Cardinality(F) => Matching = F
        BY <1>1, <1>2, FS_Subset
    <1>. QED
        BY <1>1, <1>2, <1>3

\* A row among the first n has fewer than n rows above it.
LEMMA InFront ==
    ASSUME ListTypeOK, NEW n \in Nat, NEW F \in Front(n), NEW r \in F
    PROVE  Cardinality(Above(r)) < n
    <1>1. F \subseteq Matching /\ IsFiniteSet(F) /\ Cardinality(F) \in Nat /\ Cardinality(F) <= n
        BY FrontSize, MatchingFinite
    <1>2. Above(r) \subseteq F \ {r}
        <2>. SUFFICES ASSUME NEW s \in Above(r) PROVE s \in F \ {r}
            OBVIOUS
        <2>1. s \in Matching /\ stamp[s] > stamp[r]
            BY DEF Above
        <2>2. stamp[s] \in Nat /\ stamp[r] \in Nat
            BY <1>1, <2>1, MatchingFinite DEF ListTypeOK
        <2>3. s \in F
            BY <2>1, <2>2 DEF Front
        <2>. QED
            BY <2>1, <2>2, <2>3
    <1>3. IsFiniteSet(F \ {r}) /\ Cardinality(F \ {r}) = Cardinality(F) - 1
        BY <1>1, FS_RemoveElement
    <1>4. Cardinality(Above(r)) <= Cardinality(F) - 1
        BY <1>2, <1>3, FS_Subset
    <1>5. Above(r) \subseteq Matching
        BY DEF Above
    <1>. QED
        BY <1>1, <1>4, <1>5, MatchingFinite

\* A row with a stamp of its own that is not among the first n has n rows above it.
LEMMA BehindFront ==
    ASSUME ListTypeOK, NEW n \in Nat, NEW F \in Front(n), NEW r \in Matching \ F, Untied(r)
    PROVE  Cardinality(Above(r)) >= n
    <1>1. F \subseteq Matching /\ Cardinality(F) \in Nat /\ Cardinality(F) = n
        BY FrontSize
    <1>2. F \subseteq Above(r)
        <2>. SUFFICES ASSUME NEW f \in F PROVE f \in Above(r)
            OBVIOUS
        <2>1. stamp[f] >= stamp[r]
            BY DEF Front
        <2>2. f \in Matching /\ f # r /\ stamp[f] # stamp[r]
            BY <1>1 DEF Untied
        <2>3. stamp[f] \in Nat /\ stamp[r] \in Nat
            BY <2>2, MatchingFinite DEF ListTypeOK
        <2>. QED
            BY <2>1, <2>2, <2>3 DEF Above
    <1>3. IsFiniteSet(Above(r)) /\ Cardinality(Above(r)) \in Nat
        BY MatchingFinite DEF Above
    <1>. QED
        BY <1>1, <1>2, <1>3, FS_Subset

\* Inserting rows neither changes the order of the others nor separates two that share
\* a stamp.
LEMMA MoreRows ==
    ASSUME ListTypeOK, ListTypeOK', committed \subseteq committed',
           \A r \in committed : stamp'[r] = stamp[r]
    PROVE  /\ Matching \subseteq Matching'
           /\ Cardinality(Matching) <= Cardinality(Matching')
           /\ \A r \in Matching : Untied(r)' => Untied(r)
           /\ \A r \in Matching : Cardinality(Above(r)) <= Cardinality(Above(r)')
    <1>1. Matching \subseteq Matching' /\ Matching \subseteq committed
        BY DEF Matching
    <1>2. \A S \in SUBSET Matching' : IsFiniteSet(S) /\ Cardinality(S) \in Nat
        <2>1. Matching' \subseteq Rows
            BY ListAssumption DEF ListAssumption, Matching
        <2>. QED
            BY <2>1, RowsFinite
    <1>3. \A r \in Matching : Untied(r)' => Untied(r)
        BY <1>1 DEF Untied
    <1>4. \A r \in Matching : Above(r) \subseteq Above(r)' /\ Above(r)' \subseteq Matching'
        BY <1>1 DEF Above
    <1>5. Cardinality(Matching) <= Cardinality(Matching')
        BY <1>1, <1>2, FS_Subset
    <1>6. ASSUME NEW r \in Matching PROVE Cardinality(Above(r)) <= Cardinality(Above(r)')
        BY <1>2, <1>4, FS_Subset
    <1>. QED
        BY <1>1, <1>3, <1>5, <1>6

-----------------------------------------------------------------------------
(* The inductive invariant *)

\* What the walk knows is still there: its beginning, and the rows it counted.
WalkInv ==
    /\ walk.base \subseteq Matching
    /\ walk.pc = "selecting" => walk.total <= Cardinality(Matching)
    /\ walk.pc = "done" => walk.page * walk.size >= walk.total

\* The answer of a last page already misses no more than grew.
LastPageInv ==
    walk.pc \in {"shown", "done"} /\ walk.page * walk.size >= walk.total
        => Cardinality(Missed) <= walk.late

ListInv == ListTypeOK /\ WalkInv /\ NoGaps /\ LastPageInv /\ PagesFillTheTotal

LEMMA ListInit_ListInv == ListInit => ListInv
    <1>. SUFFICES ASSUME ListInit PROVE ListInv
        OBVIOUS
    <1>1. ListTypeOK
        BY DEF ListInit, ListTypeOK, Walk, WalkPc, NotWalking
    <1>2. walk.pc = "idle" /\ walk.base = {}
        BY DEF ListInit, NotWalking
    <1>. QED
        BY <1>1, <1>2 DEF ListInv, WalkInv, NoGaps, LastPageInv, PagesFillTheTotal

LEMMA WalkFields ==
    ASSUME ListTypeOK
    PROVE  /\ walk.pc \in WalkPc /\ walk.page \in Nat \ {0} /\ walk.size \in Nat \ {0}
           /\ walk.total \in Nat /\ walk.got \in Nat /\ walk.late \in Nat
           /\ walk.base \subseteq Filtered /\ walk.seen \subseteq Filtered
           /\ Reach \in Nat
    <1>1. /\ walk.pc \in WalkPc /\ walk.page \in Nat \ {0} /\ walk.size \in Nat \ {0}
          /\ walk.total \in Nat /\ walk.got \in Nat /\ walk.late \in Nat
          /\ walk.base \subseteq Filtered /\ walk.seen \subseteq Filtered
        BY DEF ListTypeOK, Walk
    <1>. QED
        BY <1>1, PageEnd DEF Reach, Offset

LEMMA MissedFinite ==
    ASSUME ListTypeOK, WalkInv
    PROVE  /\ Missed \subseteq Matching
           /\ \A S \in SUBSET Missed : IsFiniteSet(S) /\ Cardinality(S) \in Nat
    BY MatchingFinite DEF WalkInv, Missed

-----------------------------------------------------------------------------
(* Rows are inserted *)

LEMMA InsertRowsStep ==
    ASSUME ListInv, InsertRows(Rows)
    PROVE  ListInv'
    <1>. USE DEF ListInv
    <1>. PICK r \in Rows : Insert(r) \/ Commit(r) \/ Abort(r)
        BY DEF InsertRows
    <1>1. ListTypeOK' /\ committed \subseteq committed' /\ walk' = walk
          /\ \A s \in committed : stamp'[s] = stamp[s]
        <2>1. CASE Insert(r)
            <3>1. PICK t \in {now, now + 1} : now' = t /\ stamp' = [stamp EXCEPT ![r] = t]
                BY <2>1 DEF Insert
            <3>2. stamp[r] = 0 /\ t \in Nat /\ UNCHANGED <<committed, walk>>
                BY <2>1, <3>1 DEF Insert, ListTypeOK
            <3>3. r \notin committed
                BY <3>2 DEF ListTypeOK
            <3>. QED
                BY <3>1, <3>2, <3>3 DEF ListTypeOK
        <2>2. CASE Commit(r)
            BY <2>2 DEF Commit, ListTypeOK
        <2>3. CASE Abort(r)
            BY <2>3 DEF Abort, ListTypeOK
        <2>. QED
            BY <2>1, <2>2, <2>3
    <1>2. /\ Matching \subseteq Matching'
          /\ Cardinality(Matching) <= Cardinality(Matching')
          /\ \A s \in Matching : Untied(s)' => Untied(s)
          /\ \A s \in Matching : Cardinality(Above(s)) <= Cardinality(Above(s)')
        BY <1>1, MoreRows
    <1>3. /\ Matching \subseteq Rows /\ Matching' \subseteq Rows
          /\ Cardinality(Matching) \in Nat /\ Cardinality(Matching') \in Nat
        <2>1. Matching \subseteq Rows /\ Matching' \subseteq Rows
            BY ListAssumption DEF ListAssumption, Matching
        <2>. QED
            BY <2>1, RowsFinite
    <1>4. WalkInv'
        BY <1>1, <1>2, <1>3, WalkFields DEF WalkInv
    <1>5. Missed' \subseteq Missed
        BY <1>1, <1>2 DEF Missed, WalkInv
    <1>6. NoGaps'
        <2>. SUFFICES ASSUME walk.pc \notin {"idle", "refused"}, NEW s \in Missed'
                      PROVE  Cardinality(Above(s)') >= Reach'
            BY <1>1 DEF NoGaps
        <2>1. Cardinality(Above(s)) >= Reach /\ s \in Matching
            BY <1>5, MissedFinite DEF NoGaps
        <2>2. Cardinality(Above(s)) \in Nat /\ Cardinality(Above(s)') \in Nat /\ Reach' = Reach /\ Reach \in Nat
            <3>1. Above(s) \subseteq Rows /\ Above(s)' \subseteq Rows
                BY <1>3 DEF Above
            <3>. QED
                BY <1>1, <3>1, RowsFinite, WalkFields DEF Reach
        <2>. QED
            BY <1>2, <2>1, <2>2
    <1>7. LastPageInv'
        <2>1. Cardinality(Missed') <= Cardinality(Missed) /\ Cardinality(Missed') \in Nat
              /\ Cardinality(Missed) \in Nat
            BY <1>5, MissedFinite, FS_Subset
        <2>. QED
            BY <1>1, <2>1, WalkFields DEF LastPageInv
    <1>8. PagesFillTheTotal'
        BY <1>1 DEF PagesFillTheTotal, Offset
    <1>. QED
        BY <1>1, <1>4, <1>6, <1>7, <1>8

-----------------------------------------------------------------------------
(* The walk goes on *)

\* A step of the client leaves the rows and their order alone.
LEMMA SameRows ==
    ASSUME UNCHANGED <<now, stamp, committed>>
    PROVE  /\ Matching' = Matching
           /\ \A r : Above(r)' = Above(r)
           /\ \A r : Untied(r)' <=> Untied(r)
    <1>1. Matching' = Matching
        BY DEF Matching
    <1>. QED
        BY <1>1 DEF Above, Untied

\* A step that shows no rows and asks for what comes next.
LEMMA QuietStep ==
    ASSUME ListInv, NEW w \in Walk, walk' = w, UNCHANGED <<now, stamp, committed>>,
           w.base = walk.base, w.seen = walk.seen,
           w.pc \in {"counting", "selecting", "failed"}, walk.pc \notin {"idle", "refused"},
           Reach' = Reach,
           w.pc = "selecting" => w.total <= Cardinality(Matching)
    PROVE  ListInv'
    <1>. USE DEF ListInv
    <1>1. ListTypeOK'
        BY DEF ListTypeOK
    <1>2. WalkInv'
        BY SameRows DEF WalkInv
    <1>3. Missed' = Missed
        BY SameRows DEF Missed
    <1>4. NoGaps'
        BY <1>3, SameRows DEF NoGaps
    <1>5. LastPageInv' /\ PagesFillTheTotal'
        BY DEF LastPageInv, PagesFillTheTotal
    <1>. QED
        BY <1>1, <1>2, <1>4, <1>5

LEMMA BeginStep ==
    ASSUME ListInv, NEW size \in Sizes, Begin(size)
    PROVE  ListInv'
    <1>. USE DEF ListInv
    <1>1. walk' = [NotWalking EXCEPT !.pc = "counting", !.size = size, !.base = Matching]
          /\ UNCHANGED <<now, stamp, committed>>
        BY DEF Begin, WalkTo
    <1>2. /\ walk'.pc = "counting" /\ walk'.base = Matching /\ walk'.seen = {}
          /\ walk'.page = 1 /\ walk'.size = size
        BY <1>1 DEF NotWalking
    <1>3. walk' \in Walk
        <2>1. walk' = [pc |-> "counting", page |-> 1, size |-> size, total |-> 0, got |-> 0,
                       late |-> 0, base |-> Matching, seen |-> {}]
            BY <1>1 DEF NotWalking
        <2>2. size \in Nat \ {0} /\ Matching \in SUBSET Filtered
            BY ListAssumption DEF ListAssumption, Matching
        <2>. QED
            BY <2>1, <2>2 DEF Walk, WalkPc
    <1>4. ListTypeOK' /\ WalkInv'
        BY <1>1, <1>2, <1>3, SameRows DEF ListTypeOK, WalkInv
    <1>5. NoGaps'
        <2>. SUFFICES ASSUME NEW r \in Missed' PROVE Cardinality(Above(r)') >= Reach'
            BY DEF NoGaps
        <2>1. size \in Nat \ {0}
            BY ListAssumption DEF ListAssumption
        <2>2. Reach' = 0
            BY <1>2, <2>1 DEF Reach
        <2>3. Above(r)' \in SUBSET Rows
            BY ListAssumption DEF ListAssumption, Above, Matching
        <2>. QED
            BY <2>2, <2>3, RowsFinite
    <1>6. LastPageInv' /\ PagesFillTheTotal'
        BY <1>2 DEF LastPageInv, PagesFillTheTotal
    <1>. QED
        BY <1>4, <1>5, <1>6

LEMMA RefuseStep ==
    ASSUME ListInv, NEW size \in Sizes, RefuseSize(size)
    PROVE  ListInv'
    <1>. USE DEF ListInv
    <1>1. walk' = [walk EXCEPT !.pc = "refused"] /\ UNCHANGED <<now, stamp, committed>>
        BY DEF RefuseSize, WalkTo
    <1>2. walk' \in Walk /\ walk'.pc = "refused" /\ walk'.base = walk.base
        BY <1>1 DEF ListTypeOK, Walk, WalkPc
    <1>. QED
        BY <1>1, <1>2, SameRows
        DEF ListTypeOK, WalkInv, NoGaps, LastPageInv, PagesFillTheTotal

LEMMA AskStep ==
    ASSUME ListInv, NextPage \/ SamePage
    PROVE  ListInv'
    <1>1. ListTypeOK
        BY DEF ListInv
    <1>2. CASE NextPage
        <2>1. walk' = Ask(walk.page + 1) /\ walk.pc = "shown" /\ UNCHANGED <<now, stamp, committed>>
            BY <1>2 DEF NextPage, WalkTo
        <2>2. /\ walk' \in Walk /\ walk'.pc = "counting" /\ walk'.page = walk.page + 1
              /\ walk'.size = walk.size /\ walk'.base = walk.base /\ walk'.seen = walk.seen
            <3>1. walk.page + 1 \in Nat \ {0}
                BY <1>1, WalkFields
            <3>. QED
                BY <1>1, <2>1, <3>1 DEF Ask, ListTypeOK, Walk, WalkPc
        <2>3. Reach' = Reach
            BY <1>1, <2>1, <2>2, WalkFields DEF Reach
        <2>. QED
            BY <2>1, <2>2, <2>3, QuietStep
    <1>3. CASE SamePage
        <2>1. walk' = Ask(walk.page) /\ walk.pc = "failed" /\ UNCHANGED <<now, stamp, committed>>
            BY <1>3 DEF SamePage, WalkTo
        <2>2. /\ walk' \in Walk /\ walk'.pc = "counting" /\ walk'.page = walk.page
              /\ walk'.size = walk.size /\ walk'.base = walk.base /\ walk'.seen = walk.seen
            BY <1>1, <2>1 DEF Ask, ListTypeOK, Walk, WalkPc
        <2>3. Reach' = Reach
            BY <2>1, <2>2 DEF Reach
        <2>. QED
            BY <2>1, <2>2, <2>3, QuietStep
    <1>. QED
        BY <1>2, <1>3

LEMMA CountStep ==
    ASSUME ListInv, CountRows
    PROVE  ListInv'
    <1>1. ListTypeOK /\ Cardinality(Matching) \in Nat
        BY MatchingFinite DEF ListInv
    <1>2. walk' = [walk EXCEPT !.pc = "selecting", !.total = Cardinality(Matching)]
          /\ walk.pc = "counting" /\ UNCHANGED <<now, stamp, committed>>
        BY DEF CountRows, WalkTo, Counted
    <1>3. /\ walk' \in Walk /\ walk'.pc = "selecting" /\ walk'.total = Cardinality(Matching)
          /\ walk'.page = walk.page /\ walk'.size = walk.size
          /\ walk'.base = walk.base /\ walk'.seen = walk.seen
        BY <1>1, <1>2 DEF ListTypeOK, Walk, WalkPc
    <1>4. Reach' = Reach
        BY <1>2, <1>3 DEF Reach
    <1>5. walk'.total <= Cardinality(Matching)
        BY <1>1, <1>3
    <1>. QED
        BY <1>2, <1>3, <1>4, <1>5, QuietStep

LEMMA ReadFailsStep ==
    ASSUME ListInv, ReadFails
    PROVE  ListInv'
    <1>1. ListTypeOK
        BY DEF ListInv
    <1>2. walk' = [walk EXCEPT !.pc = "failed"] /\ walk.pc \in {"counting", "selecting"}
          /\ UNCHANGED <<now, stamp, committed>>
        BY DEF ReadFails, WalkTo
    <1>3. /\ walk' \in Walk /\ walk'.pc = "failed" /\ walk'.page = walk.page
          /\ walk'.size = walk.size /\ walk'.base = walk.base /\ walk'.seen = walk.seen
        BY <1>1, <1>2 DEF ListTypeOK, Walk, WalkPc
    <1>4. Reach' = Reach
        BY <1>2, <1>3 DEF Reach
    <1>. QED
        BY <1>2, <1>3, <1>4, QuietStep

LEMMA FinishStep ==
    ASSUME ListInv, Finish
    PROVE  ListInv'
    <1>. USE DEF ListInv
    <1>1. walk' = [walk EXCEPT !.pc = "done"] /\ walk.pc = "shown"
          /\ UNCHANGED <<now, stamp, committed>>
        BY DEF Finish, WalkTo
    <1>2. /\ walk' \in Walk /\ walk'.pc = "done" /\ walk'.page = walk.page
          /\ walk'.size = walk.size /\ walk'.total = walk.total /\ walk'.late = walk.late
          /\ walk'.base = walk.base /\ walk'.seen = walk.seen
        BY <1>1 DEF ListTypeOK, Walk, WalkPc
    <1>3. walk.page * walk.size >= walk.total
        BY WalkFields, LastPageReaches DEF Finish
    <1>4. Missed' = Missed /\ Reach' = Reach
        BY <1>1, <1>2, SameRows DEF Missed, Reach
    <1>5. ListTypeOK' /\ WalkInv'
        BY <1>1, <1>2, <1>3, SameRows DEF ListTypeOK, WalkInv
    <1>6. NoGaps'
        BY <1>1, <1>4, SameRows DEF NoGaps
    <1>7. LastPageInv' /\ PagesFillTheTotal'
        BY <1>1, <1>2, <1>4 DEF LastPageInv, PagesFillTheTotal
    <1>. QED
        BY <1>5, <1>6, <1>7

\* The page that is shown: whoever is not on it and was not shown before sorts behind
\* it, and it is full as far as the rows reach.
LEMMA SelectStep ==
    ASSUME ListInv, SelectRows
    PROVE  ListInv'
    <1>. USE DEF ListInv
    <1>. DEFINE start == Offset(walk.page, walk.size)
                end == walk.page * walk.size
                n == Cardinality(Matching)
    <1>1. PICK F \in Front(start), G \in Front(start + walk.size) :
            /\ F \subseteq G
            /\ WalkTo("selecting",
                   [walk EXCEPT !.pc = "shown", !.seen = @ \cup (G \ F),
                                !.got = Cardinality(G \ F), !.late = n - walk.total])
        BY DEF SelectRows
    <1>2. /\ walk.page \in Nat \ {0} /\ walk.size \in Nat \ {0} /\ walk.total \in Nat
          /\ start \in Nat /\ end \in Nat /\ start + walk.size = end /\ Reach \in Nat
        BY WalkFields, PageEnd
    <1>3. /\ walk.pc = "selecting" /\ UNCHANGED <<now, stamp, committed>>
          /\ walk.total <= n /\ n \in Nat /\ Reach = start
        BY <1>1, MatchingFinite DEF WalkTo, WalkInv, Reach, Offset
    <1>. HIDE DEF start, end
    <1>4. /\ F \subseteq Matching /\ Cardinality(F) \in Nat /\ Cardinality(F) <= start
          /\ Cardinality(F) = start \/ F = Matching
        BY <1>2, FrontSize
    <1>5. /\ G \subseteq Matching /\ Cardinality(G) \in Nat /\ Cardinality(G) <= end
          /\ Cardinality(G) = end \/ G = Matching
        BY <1>2, FrontSize
    <1>6. Cardinality(G \ F) = Cardinality(G) - Cardinality(F) /\ Cardinality(G \ F) \in Nat
        <2>1. IsFiniteSet(G) /\ Cardinality(G \ F) \in Nat /\ G \cap F = F
            BY <1>1, <1>5, MatchingFinite
        <2>. QED
            BY <2>1, FS_Difference
    <1>7. /\ walk'.pc = "shown" /\ walk'.page = walk.page /\ walk'.size = walk.size
          /\ walk'.total = walk.total /\ walk'.base = walk.base
          /\ walk'.seen = walk.seen \cup (G \ F) /\ walk'.got = Cardinality(G \ F)
          /\ walk'.late = n - walk.total /\ walk' \in Walk
        <2>1. n - walk.total \in Nat
            BY <1>2, <1>3
        <2>2. G \ F \subseteq Filtered
            BY <1>5, MatchingFinite
        <2>. HIDE DEF n
        <2>. QED
            BY <1>1, <1>6, <2>1, <2>2 DEF WalkTo, ListTypeOK, Walk, WalkPc
    <1>8. ListTypeOK' /\ WalkInv'
        BY <1>3, <1>7, SameRows DEF ListTypeOK, WalkInv
    <1>9. Missed' \subseteq Missed /\ Missed' \cap (G \ F) = {} /\ Reach' = end
        BY <1>3, <1>7, SameRows DEF Missed, Reach, end
    <1>10. ASSUME NEW r \in Missed'
           PROVE  r \in Matching \ G /\ Cardinality(Above(r)) >= end
        <2>1. r \in Matching /\ Untied(r) /\ Cardinality(Above(r)) >= start
            BY <1>3, <1>9, MissedFinite DEF Missed, NoGaps
        <2>2. Cardinality(Above(r)) \in Nat
            BY MatchingFinite DEF Above
        <2>3. r \notin F
            BY <1>2, <2>1, <2>2, InFront
        <2>4. r \notin G
            BY <1>9, <2>3
        <2>. QED
            BY <1>2, <2>1, <2>4, BehindFront
    <1>11. NoGaps'
        BY <1>3, <1>9, <1>10, SameRows DEF NoGaps
    <1>12. LastPageInv'
        <2>. SUFFICES ASSUME end >= walk.total PROVE Cardinality(Missed') <= n - walk.total
            BY <1>7 DEF LastPageInv, end
        <2>1. Cardinality(Missed') <= Cardinality(Matching \ G) /\ Cardinality(Missed') \in Nat
            <3>1. Missed' \subseteq Matching \ G
                BY <1>10
            <3>2. Missed' \subseteq Matching /\ IsFiniteSet(Matching \ G)
                BY <3>1, MatchingFinite
            <3>. QED
                BY <3>1, <3>2, MatchingFinite, FS_Subset
        <2>2. Cardinality(Matching \ G) = n - Cardinality(G)
            <3>1. Matching \cap G = G /\ IsFiniteSet(Matching)
                BY <1>5, MatchingFinite
            <3>. QED
                BY <3>1, FS_Difference
        <2>. QED
            BY <1>2, <1>3, <1>5, <2>1, <2>2
    <1>13. PagesFillTheTotal'
        <2>. SUFFICES walk'.got = walk.size \/ walk'.got + start >= walk.total
            BY <1>7 DEF PagesFillTheTotal, Offset, start
        <2>1. CASE G = Matching
            BY <1>2, <1>3, <1>4, <1>5, <1>6, <1>7, <2>1
        <2>2. CASE Cardinality(G) = end /\ G # Matching
            <3>1. F # Matching
                BY <1>1, <1>5, <2>2
            <3>. QED
                BY <1>2, <1>4, <1>6, <1>7, <2>2, <3>1
        <2>. QED
            BY <1>5, <2>1, <2>2
    <1>. QED
        BY <1>8, <1>11, <1>12, <1>13

-----------------------------------------------------------------------------
(* The theorems *)

LEMMA ListNext_ListInv == ListInv /\ [ListNext]_listVars => ListInv'
    <1>. SUFFICES ASSUME ListInv, [ListNext]_listVars PROVE ListInv'
        OBVIOUS
    <1>1. CASE InsertRows(Rows)
        BY <1>1, InsertRowsStep
    <1>2. CASE AskPage
        BY <1>2, BeginStep, AskStep DEF AskPage
    <1>3. CASE CountRows \/ SelectRows \/ ReadFails \/ Finish
        BY <1>3, CountStep, SelectStep, ReadFailsStep, FinishStep
    <1>4. CASE \E size \in Sizes : RefuseSize(size)
        BY <1>4, RefuseStep
    <1>5. CASE UNCHANGED listVars
        BY <1>5, SameRows
        DEF listVars, ListInv, ListTypeOK, WalkInv, NoGaps, LastPageInv, PagesFillTheTotal,
            Missed, Reach
    <1>. QED
        BY <1>1, <1>2, <1>3, <1>4, <1>5 DEF ListNext

LEMMA ListInvariance == ListSpec => []ListInv
    <1>. QED
        BY ListInit_ListInv, ListNext_ListInv, PTL DEF ListSpec

\* A walk shows every row of its beginning that has a stamp of its own, or has not
\* come to it yet.
THEOREM PagesLeaveNoGap == ListSpec => []NoGaps
    <1>1. ListInv => NoGaps
        BY DEF ListInv
    <1>. QED
        BY <1>1, ListInvariance, PTL

\* At the end of a walk no more is missing than became visible between the count and
\* the page of its last request.
THEOREM WalkIsComplete == ListSpec => []MissesOnlyWhatGrew
    <1>1. ListInv => MissesOnlyWhatGrew
        BY DEF ListInv, WalkInv, LastPageInv, MissesOnlyWhatGrew
    <1>. QED
        BY <1>1, ListInvariance, PTL

\* A page has the rows its own total promises.
THEOREM TotalIsShown == ListSpec => []PagesFillTheTotal
    <1>1. ListInv => PagesFillTheTotal
        BY DEF ListInv
    <1>. QED
        BY <1>1, ListInvariance, PTL
=============================================================================
