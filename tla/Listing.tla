------------------------------- MODULE Listing -------------------------------
(***************************************************************************)
(* A paginated list (documents, query history, knowledge bases) read page  *)
(* by page while rows are inserted. A list request counts the rows its     *)
(* filter selects and then selects one page of them, newest first: two     *)
(* statements, each of which sees what is committed when it starts.        *)
(*                                                                         *)
(* created_at is taken by the process that inserts, when it flushes, and   *)
(* is the whole sort key: rows may share one, and rows become visible in   *)
(* the order of their commits, not of their stamps. No row is deleted and  *)
(* created_at never changes.                                               *)
(*                                                                         *)
(* The client of one walk asks for page 1, then for the next page as long  *)
(* as the total_pages of the last answer allows, and repeats a page whose  *)
(* request failed.                                                         *)
(***************************************************************************)
EXTENDS Naturals, FiniteSets

CONSTANTS
    Rows,         \* rows that are inserted at some time
    Filtered,     \* the rows the list's knowledge_base_id filter selects
    KeyOf,        \* the unique column of each row: knowledge_bases.name
    MaxStamp,     \* bound on the clock
    Sizes,        \* page sizes the client may ask for
    MaxPageSize   \* max_page_size

ASSUME ListAssumption ==
    /\ IsFiniteSet(Rows) /\ Filtered \subseteq Rows
    /\ MaxStamp \in Nat
    /\ Sizes \subseteq Nat \ {0}
    /\ MaxPageSize \in Nat \ {0}

VARIABLES
    now,        \* the clock the stamps are taken from
    stamp,      \* created_at of each row that is inserted, 0 before
    committed,  \* rows whose transaction has committed
    walk        \* the client's walk through the pages and its current request

listVars == <<now, stamp, committed, walk>>

WalkPc == {"idle", "counting", "selecting", "shown", "failed", "refused", "done"}
Walk == [pc : WalkPc, page : Nat \ {0}, size : Nat \ {0}, total : Nat, got : Nat, late : Nat,
         base : SUBSET Filtered, seen : SUBSET Filtered]

NotWalking == [pc |-> "idle", page |-> 1, size |-> 1, total |-> 0, got |-> 0, late |-> 0,
               base |-> {}, seen |-> {}]

ListTypeOK ==
    /\ now \in Nat
    /\ stamp \in [Rows -> Nat]
    /\ committed \subseteq {r \in Rows : stamp[r] > 0}
    /\ walk \in Walk

ListInit ==
    /\ now = 1
    /\ stamp = [r \in Rows |-> 0]
    /\ committed = {}
    /\ walk = NotWalking

-----------------------------------------------------------------------------
(* The transactions that insert rows *)

\* A transaction that inserts a key another one has inserted waits for its end.
Insert(r) ==
    /\ \A s \in Rows : KeyOf[s] = KeyOf[r] => stamp[s] = 0
    /\ \E t \in {now, now + 1} :
        /\ t <= MaxStamp
        /\ now' = t
        /\ stamp' = [stamp EXCEPT ![r] = t]
    /\ UNCHANGED <<committed, walk>>

Commit(r) ==
    /\ stamp[r] > 0 /\ r \notin committed
    /\ committed' = committed \cup {r}
    /\ UNCHANGED <<now, stamp, walk>>

Abort(r) ==
    /\ stamp[r] > 0 /\ r \notin committed
    /\ stamp' = [stamp EXCEPT ![r] = 0]
    /\ UNCHANGED <<now, committed, walk>>

\* The unique constraint: an IntegrityError for the transaction that inserts r.
Taken(r) == \E s \in committed : s # r /\ KeyOf[s] = KeyOf[r]

InsertRows(rows) == \E r \in rows : Insert(r) \/ Commit(r) \/ Abort(r)

-----------------------------------------------------------------------------
(* The list request *)

Matching == committed \cap Filtered

\* The rows an ORDER BY created_at DESC may put first: rows of one stamp come in
\* any order, in every statement anew.
Front(n) ==
    {F \in SUBSET Matching :
        /\ Cardinality(F) = IF n < Cardinality(Matching) THEN n ELSE Cardinality(Matching)
        /\ \A f \in F, g \in Matching \ F : stamp[f] >= stamp[g]}

\* Mutant of Offset: page numbers taken to start at 0.
ZeroBasedOffset(page, size) == page * size

Offset(page, size) == (page - 1) * size

\* Mutant of TotalPages: the quotient is rounded down.
WholePages(total, size) == total \div size

\* 0 without rows; knowledge_bases.py computes the ceiling in integers, pagination.py
\* with ceil.
TotalPages(total, size) == (total + size - 1) \div size

WalkTo(from, to) == walk.pc = from /\ walk' = to /\ UNCHANGED <<now, stamp, committed>>

Ask(page) == [walk EXCEPT !.pc = "counting", !.page = page]

Begin(size) ==
    /\ size <= MaxPageSize
    /\ WalkTo("idle", [NotWalking EXCEPT !.pc = "counting", !.size = size, !.base = Matching])

\* get_pagination_params refuses the page size.
RefuseSize(size) ==
    /\ size > MaxPageSize
    /\ WalkTo("idle", [walk EXCEPT !.pc = "refused"])

NextPage ==
    /\ walk.page < TotalPages(walk.total, walk.size)
    /\ WalkTo("shown", Ask(walk.page + 1))

SamePage == WalkTo("failed", Ask(walk.page))

\* Mutant of Counted: the count is not filtered by knowledge base.
CountedUnfiltered == Cardinality(committed)

Counted == Cardinality(Matching)

CountRows == WalkTo("counting", [walk EXCEPT !.pc = "selecting", !.total = Counted])

SelectRows ==
    LET start == Offset(walk.page, walk.size)
    IN \E F \in Front(start), G \in Front(start + walk.size) :
        /\ F \subseteq G
        /\ WalkTo("selecting",
               [walk EXCEPT !.pc = "shown", !.seen = @ \cup (G \ F),
                            !.got = Cardinality(G \ F),
                            !.late = Cardinality(Matching) - walk.total])

ReadFails ==
    \/ WalkTo("counting", [walk EXCEPT !.pc = "failed"])
    \/ WalkTo("selecting", [walk EXCEPT !.pc = "failed"])

Finish ==
    /\ walk.page >= TotalPages(walk.total, walk.size)
    /\ WalkTo("shown", [walk EXCEPT !.pc = "done"])

AskPage == (\E size \in Sizes : Begin(size)) \/ NextPage \/ SamePage

ListNext ==
    \/ InsertRows(Rows)
    \/ AskPage \/ CountRows \/ SelectRows \/ ReadFails \/ Finish
    \/ \E size \in Sizes : RefuseSize(size)

ListSpec == ListInit /\ [][ListNext]_listVars

-----------------------------------------------------------------------------
(* Properties *)

Above(r) == {s \in Matching : stamp[s] > stamp[r]}

\* No other row of the list has the stamp of r.
Untied(r) == \A s \in Matching \ {r} : stamp[s] # stamp[r]

\* The rows that were there when the walk began, have a stamp of their own and
\* were on none of its pages.
Missed == {r \in walk.base \ walk.seen : Untied(r)}

\* How far the answered pages reach into the list.
Reach == IF walk.pc \in {"shown", "done"} THEN walk.page * walk.size
                                          ELSE (walk.page - 1) * walk.size

\* Consecutive pages leave no gap: a row that was there when the walk began is on
\* a page already answered or sorts behind all of them, however many rows are
\* inserted between the pages and between the count and the page. Only rows that
\* share their created_at can fall between two pages.
NoGaps ==
    walk.pc \notin {"idle", "refused"} => \A r \in Missed : Cardinality(Above(r)) >= Reach

\* A walk ends by the total of its last answer, which was counted before the page
\* was selected: it misses no more rows of its beginning than became visible
\* between these two statements, and none when nothing did.
MissesOnlyWhatGrew == walk.pc = "done" => Cardinality(Missed) <= walk.late

\* The total never promises rows its own page does not have: the page counts
\* first and rows only become more.
PagesFillTheTotal ==
    walk.pc = "shown" =>
        \/ walk.got = walk.size
        \/ walk.got + Offset(walk.page, walk.size) >= walk.total
=============================================================================
