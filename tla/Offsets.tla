------------------------------ MODULE Offsets ------------------------------
(***************************************************************************)
(* The lists that page by offset: the live entries of an agent             *)
(* (public.ListEntries) and the entries in its owner's bin                 *)
(* (bin.ListEntries), while entries are posted, binned, restored and       *)
(* purged.  Each page is two statements, one for the rows and one for      *)
(* their total number, by which the reader decides whether to go on.  The  *)
(* bin's list of agents (bin.ListAgents) is one more of the same kind.     *)
(***************************************************************************)
EXTENDS Integers, FiniteSets

CONSTANTS
    Ids,       \* entries, numbered in the order of their published_at
    Readers,
    Limit,     \* rows to a page
    MaxClock   \* bound on the stamps that deletes draw

ASSUME OffsetsAssumption ==
    /\ Ids \in SUBSET (Nat \ {0}) /\ IsFiniteSet(Ids) /\ Ids # {}
    /\ Limit \in Nat \ {0}
    /\ MaxClock \in Nat

VARIABLES
    st,          \* the state of each entry's row
    removed,     \* entries.removed_at, 0 for none
    clock,       \* the stamps that deletes have drawn, no two alike
    walk,        \* each reader's walk
    steady,      \* history: entries on the list ever since the walk began,
    left,        \* the rows that have left their place on it since,
    entered      \* and those that have come to one

vars == <<st, removed, clock, walk, steady, left, entered>>
rowVars == <<st, removed, clock>>

RowState == {"none", "live", "binned", "purged"}
Lists == {"entries", "bin"}

On(l) == {e \in Ids : st[e] = IF l = "entries" THEN "live" ELSE "binned"}
SortKey(l, e) == IF l = "entries" THEN e ELSE removed[e]
Smaller(m, n) == IF m < n THEN m ELSE n

\* ORDER BY key DESC LIMIT Limit OFFSET o: rows of S with o rows before them
IsPage(P, S, l, o) ==
    \E A \in SUBSET (S \ P) :
        /\ Cardinality(A) = Smaller(o, Cardinality(S))
        /\ Cardinality(P) = Smaller(Limit, Cardinality(S) - Cardinality(A))
        /\ \A d \in A, e \in S \ A : SortKey(l, d) > SortKey(l, e)
        /\ \A d \in P, e \in S \ (A \cup P) : SortKey(l, d) > SortKey(l, e)

\* Mutant: pages are counted from zero, and offsets from page one
FirstPageIsZero(l) == [list |-> l, pc |-> "ready", offset |-> 0 - Limit, page |-> {}, shown |-> {},
                       again |-> {}, counted |-> TRUE]

\* parsePagination: without parameters, the first page.  again: the rows shown more
\* than once; counted: every total was a count
FirstPage(l) == [list |-> l, pc |-> "ready", offset |-> 0, page |-> {}, shown |-> {},
                 again |-> {}, counted |-> TRUE]

\* Mutants of the next page's offset: one row too far, or one too near
OneTooFar(o) == o + Limit + 1
OneTooNear(o) == o + Limit - 1
NextOffset(o) == o + Limit

-----------------------------------------------------------------------------
(* Readers *)

\* The first statement
ListRows(r) ==
    LET w == walk[r] IN
    /\ w.pc = "ready"
    /\ \E P \in SUBSET On(w.list) :
          /\ IsPage(P, On(w.list), w.list, w.offset)
          /\ walk' = [walk EXCEPT ![r].pc = "listed", ![r].page = P]
    /\ UNCHANGED <<rowVars, steady, left, entered>>

\* The answer: it offers a next page as long as offset + limit < total
Turn(r, total, counted) ==
    LET w == walk[r]
        o == NextOffset(w.offset)
    IN
    walk' = [walk EXCEPT ![r].pc = IF o < total THEN "ready" ELSE "ended",
                         ![r].offset = IF o < total THEN o ELSE @,
                         ![r].page = {},
                         ![r].shown = @ \cup w.page,
                         ![r].again = @ \cup (w.shown \cap w.page),
                         ![r].counted = @ /\ counted]

\* The second statement, which a short first page of the agent's list does without
CountRows(r) ==
    LET w == walk[r] IN
    /\ w.pc = "listed"
    /\ IF w.list = "entries" /\ w.offset = 0 /\ Cardinality(w.page) < Limit
          THEN Turn(r, Cardinality(w.page), TRUE)
          ELSE Turn(r, Cardinality(On(w.list)), TRUE)
    /\ UNCHANGED <<rowVars, steady, left, entered>>

\* The count fails: the agent's list goes out with the number of its rows as total,
\* of the bin there is no answer, and the reader asks again
CountFails(r) ==
    LET w == walk[r] IN
    /\ w.pc = "listed"
    /\ IF w.list = "entries" THEN Turn(r, Cardinality(w.page), FALSE)
                             ELSE walk' = [walk EXCEPT ![r].pc = "ready", ![r].page = {}]
    /\ UNCHANGED <<rowVars, steady, left, entered>>

\* A walk that has ended begins again, on either list
Restart(r) ==
    /\ walk[r].pc = "ended"
    /\ \E l \in Lists : walk' = [walk EXCEPT ![r] = FirstPage(l)]
    /\ steady' = [steady EXCEPT ![r] = On(walk'[r].list)]
    /\ left' = [left EXCEPT ![r] = 0]
    /\ entered' = [entered EXCEPT ![r] = 0]
    /\ UNCHANGED rowVars

-----------------------------------------------------------------------------
(* The rows change under them *)

\* The rows that this step leaves in their places
Kept(l) == {e \in On(l) \cap On(l)' : SortKey(l, e)' = SortKey(l, e)}

\* What it makes of each walk's history: a row that is stamped again leaves its place
\* and comes to another
Watch ==
    /\ steady' = [r \in Readers |-> steady[r] \cap On(walk[r].list)']
    /\ left' = [r \in Readers |->
                   left[r] + Cardinality(On(walk[r].list) \ Kept(walk[r].list))]
    /\ entered' = [r \in Readers |->
                   entered[r] + Cardinality(On(walk[r].list)' \ Kept(walk[r].list))]

\* Stamps may be committed out of their order: e need not be the newest
InsertEntry(e) ==
    /\ st[e] = "none"
    /\ st' = [st EXCEPT ![e] = "live"]
    /\ UNCHANGED <<removed, clock, walk>>
    /\ Watch

\* By id, after a check that found it live: of two deletes that race, the second stamps
\* the row again.  Their stamps, too, may be committed out of order.
SoftDeleteEntry(e) ==
    /\ st[e] \in {"live", "binned"} /\ clock < MaxClock
    /\ clock' = clock + 1
    /\ st' = [st EXCEPT ![e] = "binned"]
    /\ \E s \in (1..clock') \ {removed[d] : d \in Ids} : removed' = [removed EXCEPT ![e] = s]
    /\ UNCHANGED walk
    /\ Watch

RestoreEntry(e) ==
    /\ st[e] = "binned"
    /\ st' = [st EXCEPT ![e] = "live"]
    /\ removed' = [removed EXCEPT ![e] = 0]
    /\ UNCHANGED <<clock, walk>>
    /\ Watch

\* By id, after a check that found it in the bin: it may have been restored meanwhile
PurgeEntry(e) ==
    /\ st[e] \in {"live", "binned"}
    /\ st' = [st EXCEPT ![e] = "purged"]
    /\ UNCHANGED <<removed, clock, walk>>
    /\ Watch

-----------------------------------------------------------------------------

\* Some entries are there, live or in the bin, one binned after the other
Init ==
    /\ st \in [Ids -> {"none", "live", "binned"}]
    /\ removed = [e \in Ids |-> IF st[e] = "binned" THEN e ELSE 0]
    /\ clock \in Ids /\ \A e \in Ids : e <= clock
    /\ walk \in [Readers -> {FirstPage(l) : l \in Lists}]
    /\ steady = [r \in Readers |-> On(walk[r].list)]
    /\ left = [r \in Readers |-> 0]
    /\ entered = [r \in Readers |-> 0]

Next ==
    \/ \E r \in Readers : ListRows(r) \/ CountRows(r) \/ CountFails(r) \/ Restart(r)
    \/ \E e \in Ids : InsertEntry(e) \/ SoftDeleteEntry(e) \/ RestoreEntry(e) \/ PurgeEntry(e)

Spec == Init /\ [][Next]_vars

-----------------------------------------------------------------------------
(* Properties *)

\* Every variable has its type.
TypeOK ==
    /\ st \in [Ids -> RowState]
    /\ removed \in [Ids -> Nat]
    /\ clock \in Nat
    /\ walk \in [Readers -> [list : Lists, pc : {"ready", "listed", "ended"}, offset : Nat,
                             page : SUBSET Ids, shown : SUBSET Ids, again : SUBSET Ids,
                             counted : BOOLEAN]]
    /\ steady \in [Readers -> SUBSET Ids]
    /\ left \in [Readers -> Nat] /\ entered \in [Readers -> Nat]

Missed(r) == steady[r] \ walk[r].shown

Ended(r) == walk[r].pc = "ended" /\ walk[r].counted

\* A walk that has ended, and whose totals were counted, has missed no more of what was
\* there all along than rows have left their place meanwhile: those that left the list,
\* between a page and its total too, and those in the bin that were deleted once more.
SkipsBounded == \A r \in Readers : Ended(r) => Cardinality(Missed(r)) <= left[r]

\* A walk shows no more rows a second time than have come to a place meanwhile: onto the
\* list, or to another place in the bin.
RepeatsBounded ==
    \A r \in Readers : Cardinality(walk[r].again) <= entered[r]

\* Design document 5: "Pagination is cursor-based throughout": a walk misses nothing
\* that was there from its beginning to its end.  The code does not keep it.
OffsetWalkComplete == \A r \in Readers : Ended(r) => Missed(r) = {}
=============================================================================
