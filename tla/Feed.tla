-------------------------------- MODULE Feed --------------------------------
(***************************************************************************)
(* Keyset paging of the public lists: the global feed (ordered by          *)
(* published_at and id) and the search results (ordered by rank and id),   *)
(* while entries are posted, binned, restored and purged, and agents come  *)
(* and go.                                                                 *)
(*                                                                         *)
(* A reader asks for page after page, each time with the cursor that came  *)
(* with the page before.  No statement sees more than one page, and        *)
(* nothing is kept for the reader between two of them.                     *)
(***************************************************************************)
EXTENDS Integers, FiniteSets

CONSTANTS
    Ids,        \* entries.id
    Agents,
    AgentOf,    \* entries.agent_id
    Keys,       \* published_at, or ts_rank for the query of the readers
    Readers,
    MaxLimit,   \* maxLimit: the largest page
    NoCursor    \* no "after" parameter: the first page

ASSUME FeedAssumption ==
    /\ IsFiniteSet(Ids) /\ Ids \subseteq Nat
    /\ Keys \subseteq Int
    /\ AgentOf \in [Ids -> Agents]
    /\ MaxLimit \in Nat \ {0}
    /\ NoCursor \notin Ids

VARIABLES
    st,        \* the state of each entry's row
    key,       \* its sort key, drawn when the INSERT begins and never updated
    hidden,    \* agents that are binned or suspended
    after,     \* each reader's cursor: the entry whose (key, id) it carries
    page,      \* the page a reader has got last
    shown,     \* the pages before it
    ended,     \* the last page came without a next cursor
    steady     \* history: entries on the list ever since the walk began

vars == <<st, key, hidden, after, page, shown, ended, steady>>
walks == <<after, page, shown, ended>>

\* "none": not committed yet
RowState == {"none", "live", "binned", "purged"}

Visible == {e \in Ids : st[e] = "live" /\ AgentOf[e] \notin hidden}

\* ORDER BY key DESC, id DESC: d comes before e
Before(d, e) == key[d] > key[e] \/ (key[d] = key[e] /\ d > e)

\* Mutants of the cursor's comparison: with <=; on the key alone
NotAbove(e, c) == c = NoCursor \/ e = c \/ Before(c, e)
KeyBelow(e, c) == c = NoCursor \/ key[e] < key[c]

\* (key, id) < (after_key, after_id)
Below(e, c) == c = NoCursor \/ Before(c, e)

Matching(c) == {e \in Visible : Below(e, c)}

\* The first n rows of S, or all of them
FirstRows(S, n) ==
    {P \in SUBSET S :
        /\ IF Cardinality(S) <= n THEN P = S ELSE Cardinality(P) = n
        /\ \A d \in P, e \in S \ P : Before(d, e)}

IsLast(e, P) == e \in P /\ \A d \in P \ {e} : Before(d, e)

-----------------------------------------------------------------------------
(* Readers *)

\* ListGlobalEntries, or Search: a full page comes with a cursor made of its last
\* row, any other page is the last
FetchPage(r) ==
    /\ ~ended[r]
    /\ \E n \in 1..MaxLimit : \E P \in FirstRows(Matching(after[r]), n) :
          /\ page' = [page EXCEPT ![r] = P]
          /\ shown' = [shown EXCEPT ![r] = @ \cup page[r]]
          /\ IF Cardinality(P) = n
                THEN \E e \in Ids : /\ IsLast(e, P)
                                    /\ after' = [after EXCEPT ![r] = e]
                                    /\ UNCHANGED ended
                ELSE /\ ended' = [ended EXCEPT ![r] = TRUE]
                     /\ UNCHANGED after
    /\ UNCHANGED <<st, key, hidden, steady>>

\* A new walk, from the first page
Restart(r) ==
    /\ ended[r]
    /\ after' = [after EXCEPT ![r] = NoCursor]
    /\ page' = [page EXCEPT ![r] = {}]
    /\ shown' = [shown EXCEPT ![r] = {}]
    /\ ended' = [ended EXCEPT ![r] = FALSE]
    /\ steady' = [steady EXCEPT ![r] = Visible]
    /\ UNCHANGED <<st, key, hidden>>

-----------------------------------------------------------------------------
(* The rows change under them *)

\* What has been on the list all along, after this step
Watch == steady' = [r \in Readers |-> steady[r] \cap Visible']

\* An INSERT commits.  Neither its id nor its key, which were drawn when it began,
\* need be the largest.
CommitEntry(e) ==
    /\ st[e] = "none"
    /\ st' = [st EXCEPT ![e] = "live"]
    /\ UNCHANGED <<key, hidden, walks>>
    /\ Watch

SoftDeleteEntry(e) ==
    /\ st[e] = "live"
    /\ st' = [st EXCEPT ![e] = "binned"]
    /\ UNCHANGED <<key, hidden, walks>>
    /\ Watch

RestoreEntry(e) ==
    /\ st[e] = "binned"
    /\ st' = [st EXCEPT ![e] = "live"]
    /\ UNCHANGED <<key, hidden, walks>>
    /\ Watch

\* Also of live entries, when their agent or its owner is purged
PurgeEntry(e) ==
    /\ st[e] \in {"live", "binned"}
    /\ st' = [st EXCEPT ![e] = "purged"]
    /\ UNCHANGED <<key, hidden, walks>>
    /\ Watch

\* removed_at or suspended_at of an agent is set, or cleared
ToggleAgent(a) ==
    /\ hidden' = IF a \in hidden THEN hidden \ {a} ELSE hidden \cup {a}
    /\ UNCHANGED <<st, key, walks>>
    /\ Watch

-----------------------------------------------------------------------------

Init ==
    /\ st \in [Ids -> {"none", "live"}]
    /\ key \in [Ids -> Keys]
    /\ hidden = {}
    /\ after = [r \in Readers |-> NoCursor]
    /\ page = [r \in Readers |-> {}]
    /\ shown = [r \in Readers |-> {}]
    /\ ended = [r \in Readers |-> FALSE]
    /\ steady = [r \in Readers |-> Visible]

Next ==
    \/ \E r \in Readers : FetchPage(r) \/ Restart(r)
    \/ \E e \in Ids : CommitEntry(e) \/ SoftDeleteEntry(e) \/ RestoreEntry(e) \/ PurgeEntry(e)
    \/ \E a \in Agents : ToggleAgent(a)

Spec == Init /\ [][Next]_vars

-----------------------------------------------------------------------------
(* Properties *)

\* Every variable has its type; the cursor of a reader names an entry it has got.
TypeOK ==
    /\ st \in [Ids -> RowState]
    /\ key \in [Ids -> Keys]
    /\ hidden \in SUBSET Agents
    /\ after \in [Readers -> Ids \cup {NoCursor}]
    /\ page \in [Readers -> SUBSET Ids]
    /\ shown \in [Readers -> SUBSET Ids]
    /\ ended \in [Readers -> BOOLEAN]
    /\ steady \in [Readers -> SUBSET Ids]
    /\ \A r \in Readers : after[r] \in page[r] \cup shown[r] \cup {NoCursor}

\* A walk goes down the list and nowhere back: whatever is posted, binned, restored
\* or hidden between two pages, every row of a page comes after every row of the
\* pages before it, so that none is shown twice.
WalkDescends ==
    \A r \in Readers : \A d \in shown[r], e \in page[r] : Before(d, e)

\* A walk misses nothing: when it ends, every entry that was on the list from its
\* beginning to its end has been shown, ties of the sort key included.
WalkComplete ==
    \A r \in Readers : ended[r] => steady[r] \subseteq shown[r] \cup page[r]
=============================================================================
