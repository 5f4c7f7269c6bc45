----------------------------- MODULE FeedProofs -----------------------------
(***************************************************************************)
(* Proofs about Feed: a walk descends the list and misses nothing, for any *)
(* entries, agents, keys, readers and page sizes.                          *)
(***************************************************************************)
EXTENDS Feed, TLAPS

\* The cursor is the lowest row got so far; a walk that has none has got no row.
CursorLowest ==
    \A r \in Readers : ~ended[r] =>
        /\ after[r] = NoCursor => shown[r] \cup page[r] = {}
        /\ after[r] # NoCursor =>
              \A d \in (shown[r] \cup page[r]) \ {after[r]} : Before(d, after[r])

\* What has been on the list all along has been shown, or is still to come.
NothingMissed ==
    \A r \in Readers :
        /\ steady[r] \subseteq Visible
        /\ ~ended[r] => \A e \in steady[r] \ (shown[r] \cup page[r]) : Below(e, after[r])

IInv == TypeOK /\ WalkDescends /\ WalkComplete /\ CursorLowest /\ NothingMissed

\* The order of the list is transitive: it compares integers, then ids.
LEMMA Order ==
    ASSUME TypeOK, NEW c \in Ids, NEW d \in Ids, NEW e \in Ids, Before(c, d), Before(d, e)
    PROVE  Before(c, e)
<1>1. c \in Nat /\ d \in Nat /\ e \in Nat
    BY FeedAssumption DEF FeedAssumption
<1>2. key[c] \in Keys /\ key[d] \in Keys /\ key[e] \in Keys
    BY DEF TypeOK
<1>3. key[c] \in Int /\ key[d] \in Int /\ key[e] \in Int
    BY <1>2, FeedAssumption DEF FeedAssumption
<1> QED BY <1>1, <1>3 DEF Before

\* The invariant holds initially.
LEMMA InitIInv == Init => IInv
<1> SUFFICES ASSUME Init
             PROVE  IInv
    OBVIOUS
<1>1. /\ \A r \in Readers : /\ after[r] = NoCursor /\ page[r] = {} /\ shown[r] = {}
                            /\ ended[r] = FALSE /\ steady[r] = Visible
      /\ Visible \subseteq Ids
    BY DEF Init, Visible
<1>2. TypeOK
    BY <1>1 DEF Init, TypeOK, RowState
<1>3. WalkDescends /\ WalkComplete /\ CursorLowest /\ NothingMissed
    BY <1>1 DEF WalkDescends, WalkComplete, CursorLowest, NothingMissed, Below
<1> QED BY <1>2, <1>3 DEF IInv

\* A step that changes rows or agents, and no walk, keeps the invariant.
LEMMA RowsKeep ==
    ASSUME IInv, st' \in [Ids -> RowState], hidden' \in SUBSET Agents,
           UNCHANGED <<key, walks>>, Watch
    PROVE  IInv'
<1>1. after' = after /\ page' = page /\ shown' = shown /\ ended' = ended /\ key' = key
    BY DEF walks
<1>2. \A r \in Readers : steady'[r] = steady[r] \cap Visible'
    BY DEF Watch
<1>3. TypeOK'
    BY <1>1, <1>2 DEF IInv, TypeOK, Watch
<1>4. WalkDescends' /\ CursorLowest'
    BY <1>1 DEF IInv, WalkDescends, CursorLowest, Before
<1>5. WalkComplete'
    BY <1>1, <1>2 DEF IInv, WalkComplete
<1>6. NothingMissed'
    BY <1>1, <1>2 DEF IInv, NothingMissed, Below, Before
<1> QED BY <1>3, <1>4, <1>5, <1>6 DEF IInv

\* A page: what it takes, where it lies, and what it leaves for later.
LEMMA PageOf ==
    ASSUME IInv, NEW r \in Readers, ~ended[r], NEW n \in 1..MaxLimit,
           NEW P \in FirstRows(Matching(after[r]), n)
    PROVE  /\ P \subseteq Visible /\ P \subseteq Ids
           /\ \A d \in shown[r] \cup page[r], e \in P : Before(d, e)
           /\ \A e \in steady[r] \ (shown[r] \cup page[r] \cup P) :
                 \A d \in P : Before(d, e)
           /\ Cardinality(P) # n => steady[r] \subseteq shown[r] \cup page[r] \cup P
<1> DEFINE got == shown[r] \cup page[r]
<1>1. P \subseteq Matching(after[r]) /\ Matching(after[r]) \subseteq Visible /\ Visible \subseteq Ids
    BY DEF FirstRows, Matching, Visible
<1>2. got \subseteq Ids /\ after[r] \in Ids \cup {NoCursor}
    BY DEF IInv, TypeOK
<1>3. ASSUME NEW d \in got, NEW e \in P
      PROVE  Before(d, e)
    <2>1. after[r] # NoCursor /\ (d = after[r] \/ Before(d, after[r]))
        BY DEF IInv, CursorLowest
    <2>2. Before(after[r], e)
        BY <1>1, <2>1 DEF Matching, Below
    <2> QED BY <1>1, <1>2, <2>1, <2>2, Order DEF IInv
<1>4. \A e \in steady[r] \ got : e \in Matching(after[r])
    BY DEF IInv, NothingMissed, Matching
<1>5. \A e \in steady[r] \ (got \cup P) : \A d \in P : Before(d, e)
    BY <1>4 DEF FirstRows
<1>6. Cardinality(P) # n => P = Matching(after[r])
    BY DEF FirstRows
<1> QED BY <1>1, <1>3, <1>4, <1>5, <1>6

\* Fetching a page keeps the invariant.
LEMMA FetchKeeps ==
    ASSUME IInv, NEW r \in Readers, FetchPage(r)
    PROVE  IInv'
<1>1. PICK n \in 1..MaxLimit : \E P \in FirstRows(Matching(after[r]), n) :
          /\ page' = [page EXCEPT ![r] = P]
          /\ shown' = [shown EXCEPT ![r] = @ \cup page[r]]
          /\ IF Cardinality(P) = n
                THEN \E e \in Ids : /\ IsLast(e, P)
                                    /\ after' = [after EXCEPT ![r] = e]
                                    /\ UNCHANGED ended
                ELSE /\ ended' = [ended EXCEPT ![r] = TRUE]
                     /\ UNCHANGED after
    BY DEF FetchPage
<1>2. PICK P \in FirstRows(Matching(after[r]), n) :
          /\ page' = [page EXCEPT ![r] = P]
          /\ shown' = [shown EXCEPT ![r] = @ \cup page[r]]
          /\ IF Cardinality(P) = n
                THEN \E e \in Ids : /\ IsLast(e, P)
                                    /\ after' = [after EXCEPT ![r] = e]
                                    /\ UNCHANGED ended
                ELSE /\ ended' = [ended EXCEPT ![r] = TRUE]
                     /\ UNCHANGED after
    BY <1>1
<1>t. TypeOK /\ ~ended[r] /\ UNCHANGED <<st, key, hidden, steady>>
    BY DEF IInv, FetchPage
<1>u. Visible' = Visible /\ \A d, e : Before(d, e)' <=> Before(d, e)
    BY <1>t DEF Visible, Before
<1>o. \A q \in Readers \ {r} : /\ page'[q] = page[q] /\ shown'[q] = shown[q]
                               /\ after'[q] = after[q] /\ ended'[q] = ended[q]
    BY <1>2, <1>t DEF TypeOK
<1>r. page'[r] = P /\ shown'[r] = shown[r] \cup page[r] /\ steady'[r] = steady[r]
    BY <1>2, <1>t DEF TypeOK
<1>p. /\ P \subseteq Visible /\ P \subseteq Ids
      /\ \A d \in shown[r] \cup page[r], e \in P : Before(d, e)
      /\ \A e \in steady[r] \ (shown[r] \cup page[r] \cup P) : \A d \in P : Before(d, e)
      /\ Cardinality(P) # n => steady[r] \subseteq shown[r] \cup page[r] \cup P
    BY <1>t, PageOf
<1>3. CASE Cardinality(P) = n
    <2>1. PICK e \in P : /\ IsLast(e, P)
                         /\ after' = [after EXCEPT ![r] = e]
                         /\ UNCHANGED ended
        BY <1>2, <1>3 DEF IsLast
    <2>2. after'[r] = e /\ e # NoCursor /\ ended' = ended /\ e \in Ids
        BY <2>1, <1>p, <1>t, FeedAssumption DEF TypeOK, FeedAssumption
    <2>3. TypeOK'
        BY <1>2, <1>t, <1>p, <1>o, <1>r, <2>1, <2>2 DEF TypeOK
    <2>4. WalkDescends'
        BY <1>u, <1>o, <1>r, <1>p DEF IInv, WalkDescends
    <2>5. WalkComplete'
        BY <1>t, <1>o, <1>r, <2>2 DEF IInv, WalkComplete
    <2>6. CursorLowest'
        BY <1>u, <1>o, <1>r, <1>p, <2>1, <2>2 DEF IInv, CursorLowest, IsLast
    <2>7. NothingMissed'
        BY <1>t, <1>u, <1>o, <1>r, <1>p, <2>2 DEF IInv, NothingMissed, Below
    <2> QED BY <2>3, <2>4, <2>5, <2>6, <2>7 DEF IInv
<1>4. CASE Cardinality(P) # n
    <2>1. ended' = [ended EXCEPT ![r] = TRUE] /\ after' = after
        BY <1>2, <1>4
    <2>2. ended'[r] = TRUE
        BY <2>1, <1>t DEF TypeOK
    <2>3. TypeOK'
        BY <1>2, <1>t, <1>p, <1>o, <1>r, <2>1 DEF TypeOK
    <2>4. WalkDescends'
        BY <1>u, <1>o, <1>r, <1>p DEF IInv, WalkDescends
    <2>5. WalkComplete'
        BY <1>4, <1>t, <1>o, <1>r, <1>p DEF IInv, WalkComplete
    <2>6. CursorLowest'
        BY <1>u, <1>o, <2>2 DEF IInv, CursorLowest
    <2>7. NothingMissed'
        BY <1>t, <1>u, <1>o, <2>2 DEF IInv, NothingMissed, Below
    <2> QED BY <2>3, <2>4, <2>5, <2>6, <2>7 DEF IInv
<1> QED BY <1>3, <1>4

\* A new walk keeps the invariant.
LEMMA RestartKeeps ==
    ASSUME IInv, NEW r \in Readers, Restart(r)
    PROVE  IInv'
<1>t. TypeOK /\ UNCHANGED <<st, key, hidden>> /\ Visible \subseteq Ids
    BY DEF IInv, Restart, Visible
<1>u. Visible' = Visible /\ \A d, e : Before(d, e)' <=> Before(d, e)
    BY <1>t DEF Visible, Before
<1>o. \A q \in Readers \ {r} : /\ page'[q] = page[q] /\ shown'[q] = shown[q]
                               /\ after'[q] = after[q] /\ ended'[q] = ended[q]
                               /\ steady'[q] = steady[q]
    BY <1>t DEF Restart, TypeOK
<1>r. /\ page'[r] = {} /\ shown'[r] = {} /\ after'[r] = NoCursor /\ ended'[r] = FALSE
      /\ steady'[r] = Visible
    BY <1>t DEF Restart, TypeOK
<1>1. TypeOK'
    BY <1>t, <1>o, <1>r DEF Restart, TypeOK
<1>2. WalkDescends' /\ WalkComplete' /\ CursorLowest'
    BY <1>u, <1>o, <1>r DEF IInv, WalkDescends, WalkComplete, CursorLowest
<1>3. NothingMissed'
    BY <1>u, <1>o, <1>r DEF IInv, NothingMissed, Below
<1> QED BY <1>1, <1>2, <1>3 DEF IInv

\* Every step keeps the invariant: one case per action.
LEMMA NextIInv == IInv /\ [Next]_vars => IInv'
<1> SUFFICES ASSUME IInv, [Next]_vars
             PROVE  IInv'
    OBVIOUS
<1>1. ASSUME NEW r \in Readers, FetchPage(r)
      PROVE  IInv'
    BY <1>1, FetchKeeps
<1>2. ASSUME NEW r \in Readers, Restart(r)
      PROVE  IInv'
    BY <1>2, RestartKeeps
<1>3. ASSUME NEW e \in Ids,
             CommitEntry(e) \/ SoftDeleteEntry(e) \/ RestoreEntry(e) \/ PurgeEntry(e)
      PROVE  IInv'
    <2>1. st' \in [Ids -> RowState] /\ hidden' = hidden
        BY <1>3 DEF IInv, TypeOK, RowState, CommitEntry, SoftDeleteEntry, RestoreEntry, PurgeEntry
    <2>2. UNCHANGED <<key, walks>> /\ Watch
        BY <1>3 DEF CommitEntry, SoftDeleteEntry, RestoreEntry, PurgeEntry
    <2> QED BY <2>1, <2>2, RowsKeep DEF IInv, TypeOK
<1>4. ASSUME NEW a \in Agents, ToggleAgent(a)
      PROVE  IInv'
    <2>1. hidden' \in SUBSET Agents /\ st' = st /\ UNCHANGED <<key, walks>> /\ Watch
        BY <1>4 DEF IInv, TypeOK, ToggleAgent
    <2> QED BY <2>1, RowsKeep DEF IInv, TypeOK
<1>5. CASE UNCHANGED vars
    BY <1>5 DEF vars, walks, IInv, TypeOK, WalkDescends, WalkComplete, CursorLowest,
        NothingMissed, Visible, Below, Before
<1> QED BY <1>1, <1>2, <1>3, <1>4, <1>5 DEF Next

\* The inductive invariant holds in every reachable state.
LEMMA FeedInvariant == Spec => []IInv
<1>1. Init => IInv
    BY InitIInv
<1>2. IInv /\ [Next]_vars => IInv'
    BY NextIInv
<1> QED BY <1>1, <1>2, PTL DEF Spec

\* Type correctness of Feed, for any entries, agents, keys and readers.
THEOREM FeedTypeCorrect == Spec => []TypeOK
<1>1. IInv => TypeOK
    BY DEF IInv
<1> QED BY <1>1, FeedInvariant, PTL

\* No walk of the global feed or of the search results shows an entry twice or goes
\* back up, whatever happens to the entries and their agents between two pages.
THEOREM WalksDescend == Spec => []WalkDescends
<1>1. IInv => WalkDescends
    BY DEF IInv
<1> QED BY <1>1, FeedInvariant, PTL

\* No walk misses an entry that was on the list from its beginning to its end.
THEOREM WalksComplete == Spec => []WalkComplete
<1>1. IInv => WalkComplete
    BY DEF IInv
<1> QED BY <1>1, FeedInvariant, PTL
=============================================================================
