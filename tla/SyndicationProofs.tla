------------------------- MODULE SyndicationProofs -------------------------
(***************************************************************************)
(* Proofs about Syndication: what is taken down is gone from every         *)
(* document in time, and no document loses a row, for any agents, entries, *)
(* documents, requests in flight, feed sizes and ages.                     *)
(***************************************************************************)
EXTENDS Syndication, FiniteSetTheorems, TLAPS

\* The histories are of the past, and what there is now is noted in them.
HistoryOK ==
    /\ \A a \in Agents : alive[a] <= now /\ (a \in LiveAgents => alive[a] = now)
    /\ \A e \in Entries :
          /\ live[e] <= now /\ (e \in LiveEntries => live[e] = now)
          /\ public[e] <= now /\ (Visible(e) => public[e] = now)

\* Entry e has been in the document at time t, or later
Shown(e, t) ==
    IF url.kind = "agent" THEN t <= live[e] /\ t <= alive[AgentOf[e]]
                          ELSE t <= public[e]

\* A request lasts no longer than one tick, and what it has read was so since it came.
RequestOK(q) ==
    /\ q.pc = "idle" => q = Idle
    /\ q.pc # "idle" => q.at <= now /\ now <= q.at + 1
    /\ q.pc = "found" /\ url.kind = "agent" => q.at <= alive[url.agent]
    /\ q.pc = "listed" =>
          /\ \A e \in q.items : Shown(e, q.at)
          /\ url.kind # "sitemap" => Cardinality(q.items) <= MaxFeedItems

\* What a request has not listed of what was there, the feed had no room for.
RequestWhole(q) ==
    /\ q.steady \subseteq Matching
    /\ q.pc = "listed" =>
          \A e \in q.steady \ q.items :
              /\ url.kind # "sitemap"
              /\ Cardinality(q.items) = MaxFeedItems
              /\ \A d \in q.items : d > e

\* What the copy holds was so a tick before the copy was made, or later.
CacheOK == \A e \in cache.items : Shown(e, cache.at - 1)

IInv ==
    /\ TypeOK
    /\ HistoryOK
    /\ \A p \in Procs : RequestOK(req[p]) /\ RequestWhole(req[p])
    /\ CacheOK

-----------------------------------------------------------------------------
(* Types *)

Request == [pc : {"idle", "read", "found", "listed"}, found : SUBSET Agents,
            items : SUBSET Entries, at : Nat, steady : SUBSET Entries]

\* What the type invariant says, variable by variable.
LEMMA Types ==
    ASSUME TypeOK
    PROVE  /\ agents \in [Agents -> RowState] /\ entries \in [Entries -> RowState]
           /\ now \in Nat /\ url \in URLs
           /\ req \in [Procs -> Request]
           /\ cache \in [found : SUBSET Agents, items : SUBSET Entries, at : Nat]
           /\ public \in [Entries -> Nat] /\ live \in [Entries -> Nat] /\ alive \in [Agents -> Nat]
           /\ AgentOf \in [Entries -> Agents]
BY SyndicationAssumption DEF TypeOK, SyndicationAssumption, Request

\* A document is of one of four kinds, and that of an agent is of one that may exist.
LEMMA Kinds ==
    ASSUME TypeOK
    PROVE  /\ url.kind \in {"global", "topic", "sitemap", "agent"}
           /\ url.kind = "agent" => url.agent \in Agents
BY SyndicationAssumption DEF TypeOK, SyndicationAssumption

\* A process that serves no request is as it should be.
LEMMA IdleIsOK == Idle \in Request /\ RequestOK(Idle) /\ RequestWhole(Idle)
BY DEF Idle, Request, RequestOK, RequestWhole

\* What a feed is chosen from are entries.
LEMMA MatchingEntries == Matching \subseteq Entries
BY SyndicationAssumption DEF Matching, SyndicationAssumption, LiveEntries, Visible

-----------------------------------------------------------------------------
(* Steps *)

\* The invariant holds initially.
LEMMA InitIInv == Init => IInv
<1> SUFFICES ASSUME Init
             PROVE  IInv
    OBVIOUS
<1>1. MaxAge \in Nat /\ MaxFeedItems \in Nat /\ AgentOf \in [Entries -> Agents]
    BY SyndicationAssumption DEF SyndicationAssumption
<1>2. Start \in Nat
    BY <1>1 DEF Start
<1>3. Cardinality({}) = 0
    BY FS_EmptySet
<1>4. TypeOK
    BY <1>1, <1>2, <1>3 DEF Init, TypeOK, Idle, NoCopy, RowState
<1>5. HistoryOK
    BY <1>1, <1>2 DEF Init, HistoryOK, LiveAgents, LiveEntries, Visible
<1>6. \A p \in Procs : RequestOK(req[p]) /\ RequestWhole(req[p])
    BY IdleIsOK DEF Init
<1>7. CacheOK
    BY DEF Init, CacheOK, NoCopy
<1> QED BY <1>4, <1>5, <1>6, <1>7 DEF IInv

\* While the rows and the clock stay, so does what is said of a request.
LEMMA SameRows ==
    ASSUME UNCHANGED <<rowVars, now, url>>
    PROVE  /\ HistoryOK => HistoryOK'
           /\ Matching' = Matching
           /\ \A e, t : Shown(e, t)' <=> Shown(e, t)
           /\ \A q : RequestOK(q) => RequestOK(q)'
           /\ \A q : RequestWhole(q) => RequestWhole(q)'
<1>1. HistoryOK => HistoryOK'
    BY DEF rowVars, HistoryOK, LiveAgents, LiveEntries, Visible
<1>2. Matching' = Matching
    BY DEF rowVars, Matching, LiveAgents, LiveEntries, Visible
<1>3. \A e, t : Shown(e, t)' <=> Shown(e, t)
    BY DEF rowVars, Shown
<1>4. ASSUME NEW q, RequestOK(q)
      PROVE  RequestOK(q)'
    BY <1>3, <1>4 DEF rowVars, RequestOK
<1>5. ASSUME NEW q, RequestWhole(q)
      PROVE  RequestWhole(q)'
    BY <1>2, <1>5 DEF rowVars, RequestWhole
<1> QED BY <1>1, <1>2, <1>3, <1>4, <1>5

\* A step of one process that leaves the copy alone.
LEMMA RequestStep ==
    ASSUME IInv, NEW p \in Procs, NEW q \in Request, RequestOK(q), RequestWhole(q),
           req' = [req EXCEPT ![p] = q], UNCHANGED <<rowVars, now, url, cache>>
    PROVE  IInv'
<1>1. TypeOK'
  <2>1. req' \in [Procs -> Request]
      BY Types DEF IInv
  <2> QED BY <2>1 DEF IInv, TypeOK, rowVars, Request
<1>2. HistoryOK'
    BY SameRows DEF IInv
<1>3. ASSUME NEW r \in Procs
      PROVE  RequestOK(req[r])' /\ RequestWhole(req[r])'
  <2>1. PICK n : n = req'[r]
      OBVIOUS
  <2>2. RequestOK(n) /\ RequestWhole(n)
      BY <2>1, Types DEF IInv
  <2>3. RequestOK(n)' /\ RequestWhole(n)'
      BY <2>2, SameRows
  <2>4. RequestOK(req[r])'
      BY <2>1, <2>3 DEF RequestOK, Shown
  <2>5. RequestWhole(req[r])'
      BY <2>1, <2>3 DEF RequestWhole
  <2> QED BY <2>4, <2>5
<1>4. CacheOK'
    BY SameRows DEF IInv, CacheOK
<1> QED BY <1>1, <1>2, <1>3, <1>4 DEF IInv

\* A request that comes finds, for its history, what is on the list.
LEMMA ArriveKeeps ==
    ASSUME IInv, NEW p \in Procs, Arrive(p)
    PROVE  IInv'
<1> DEFINE q == [Idle EXCEPT !.pc = "read", !.at = now, !.steady = Matching]
<1>1. now \in Nat
    BY Types DEF IInv
<1>2. q \in Request
    BY <1>1, MatchingEntries DEF Idle, Request
<1>3. RequestOK(q) /\ RequestWhole(q)
    BY <1>1 DEF Idle, RequestOK, RequestWhole
<1>4. req' = [req EXCEPT ![p] = q] /\ UNCHANGED <<rowVars, now, url, cache>>
    BY DEF Arrive
<1> QED BY <1>2, <1>3, <1>4, RequestStep

\* An error ends the request.
LEMMA ReturnKeeps ==
    ASSUME IInv, NEW p \in Procs, Return(p)
    PROVE  IInv'
<1>1. req' = [req EXCEPT ![p] = Idle] /\ UNCHANGED <<rowVars, now, url, cache>>
    BY DEF Return
<1> QED BY <1>1, IdleIsOK, RequestStep

\* The first statement of an agent's feed sees the agent live, since the request came.
LEMMA GetAgentKeeps ==
    ASSUME IInv, NEW p \in Procs, GetAgentByHandle(p)
    PROVE  IInv'
<1> DEFINE q == [req[p] EXCEPT !.pc = "found", !.found = {url.agent}]
<1>1. req[p] \in Request /\ RequestOK(req[p]) /\ RequestWhole(req[p]) /\ HistoryOK
    BY Types DEF IInv
<1>2. url.kind = "agent" /\ req[p].pc = "read" /\ url.agent \in LiveAgents /\ url.agent \in Agents
    BY DEF GetAgentByHandle, LiveAgents
<1>3. q \in Request
    BY <1>1, <1>2 DEF Request
<1>4. q.pc = "found" /\ q.at = req[p].at /\ q.steady = req[p].steady
    BY <1>1 DEF Request
<1>5. alive[url.agent] = now
    BY <1>1, <1>2 DEF HistoryOK
<1>6. RequestOK(q)
    BY <1>1, <1>2, <1>4, <1>5 DEF RequestOK
<1>7. RequestWhole(q)
    BY <1>1, <1>4 DEF RequestWhole
<1>8. req' = [req EXCEPT ![p] = q] /\ UNCHANGED <<rowVars, now, url, cache>>
    BY <1>1 DEF GetAgentByHandle, Request
<1> QED BY <1>3, <1>6, <1>7, <1>8, RequestStep

\* The first statement of the sitemap.
LEMMA ListAgentsKeeps ==
    ASSUME IInv, NEW p \in Procs, ListAgentsForSitemap(p)
    PROVE  IInv'
<1> DEFINE q == [req[p] EXCEPT !.pc = "found", !.found = LiveAgents]
<1>1. req[p] \in Request /\ RequestOK(req[p]) /\ RequestWhole(req[p])
    BY Types DEF IInv
<1>2. url.kind = "sitemap" /\ req[p].pc = "read"
    BY DEF ListAgentsForSitemap
<1>3. q \in Request
    BY <1>1 DEF Request, LiveAgents
<1>4. q.pc = "found" /\ q.at = req[p].at /\ q.steady = req[p].steady
    BY <1>1 DEF Request
<1>5. RequestOK(q)
    BY <1>1, <1>2, <1>4 DEF RequestOK
<1>6. RequestWhole(q)
    BY <1>1, <1>4 DEF RequestWhole
<1>7. req' = [req EXCEPT ![p] = q] /\ UNCHANGED <<rowVars, now, url, cache>>
    BY <1>1 DEF ListAgentsForSitemap, Request
<1> QED BY <1>3, <1>5, <1>6, <1>7, RequestStep

\* The rows that a statement selects are in the document now, the agent's own apart,
\* who was when the first statement saw him.
LEMMA SelectedShown ==
    ASSUME IInv, NEW p \in Procs, NEW e \in Matching,
           req[p].pc = IF url.kind \in {"global", "topic"} THEN "read" ELSE "found"
    PROVE  Shown(e, req[p].at)
<1>1. /\ req[p] \in Request /\ RequestOK(req[p]) /\ HistoryOK
      /\ e \in Entries /\ AgentOf[e] \in Agents /\ now \in Nat
    BY Types, MatchingEntries DEF IInv
<1>2. req[p].at <= now
    BY <1>1 DEF RequestOK
<1>3. CASE url.kind = "agent"
  <2>1. e \in LiveEntries /\ AgentOf[e] = url.agent
      BY <1>3 DEF Matching
  <2>2. req[p].at <= alive[url.agent]
      BY <1>1, <1>3 DEF RequestOK
  <2> QED BY <1>1, <1>2, <1>3, <2>1, <2>2 DEF Shown, HistoryOK
<1>4. CASE url.kind # "agent"
  <2>1. Visible(e)
      BY <1>4 DEF Matching
  <2> QED BY <1>1, <1>2, <1>4, <2>1 DEF Shown, HistoryOK
<1> QED BY <1>3, <1>4

\* The statement that lists the entries.
LEMMA ListEntriesKeeps ==
    ASSUME IInv, NEW p \in Procs, ListEntries(p)
    PROVE  IInv'
<1>1. /\ req[p] \in Request /\ RequestOK(req[p]) /\ RequestWhole(req[p])
      /\ url.kind \in {"global", "topic", "sitemap", "agent"}
    BY Types, Kinds DEF IInv
<1>2. req[p].pc = IF url.kind \in {"global", "topic"} THEN "read" ELSE "found"
    BY DEF ListEntries
<1>3. PICK S \in SUBSET Matching :
          /\ IsSelection(S)
          /\ req' = [req EXCEPT ![p].pc = "listed", ![p].items = S]
    BY DEF ListEntries
<1> DEFINE q == [req[p] EXCEPT !.pc = "listed", !.items = S]
<1>4. q \in Request
    BY <1>1, MatchingEntries DEF Request
<1>5. q.pc = "listed" /\ q.at = req[p].at /\ q.steady = req[p].steady /\ q.items = S
    BY <1>1 DEF Request
<1> HIDE DEF q
<1>6. RequestOK(q)
  <2>1. req[p].pc # "idle"
      BY <1>2
  <2>2. \A e \in S : Shown(e, req[p].at)
      BY <1>2, SelectedShown
  <2>3. url.kind # "sitemap" => Cardinality(S) <= MaxFeedItems
      BY <1>3 DEF IsSelection
  <2> QED BY <1>1, <1>5, <2>1, <2>2, <2>3 DEF RequestOK
<1>7. RequestWhole(q)
  <2>1. q.steady \subseteq Matching
      BY <1>1, <1>5 DEF RequestWhole
  <2>2. ASSUME NEW e \in q.steady \ q.items
        PROVE  /\ url.kind # "sitemap"
               /\ Cardinality(S) = MaxFeedItems
               /\ \A d \in S : d > e
    <3>1. e \in Matching \ S
        BY <1>5, <2>1
    <3> QED BY <1>3, <3>1 DEF IsSelection, Newer
  <2> QED BY <1>5, <2>1, <2>2 DEF RequestWhole
<1>8. req' = [req EXCEPT ![p] = q] /\ UNCHANGED <<rowVars, now, url, cache>>
    BY <1>1, <1>3 DEF ListEntries, Request, q
<1> QED BY <1>4, <1>6, <1>7, <1>8, RequestStep

\* The copy that is kept is no older than the request that it answers, and one tick.
LEMMA WriteFeedKeeps ==
    ASSUME IInv, NEW p \in Procs, WriteFeed(p)
    PROVE  IInv'
<1>1. /\ req[p] \in Request /\ RequestOK(req[p]) /\ req[p].pc = "listed"
      /\ now \in Nat /\ CacheOK
    BY Types DEF IInv, WriteFeed
<1>2. /\ cache' = [found |-> req[p].found, items |-> req[p].items, at |-> now]
      /\ req' = [req EXCEPT ![p] = Idle]
      /\ UNCHANGED <<rowVars, now, url>>
    BY DEF WriteFeed
<1>3. TypeOK'
  <2>1. req' \in [Procs -> Request]
      BY <1>2, Types, IdleIsOK DEF IInv
  <2>2. cache' \in [found : SUBSET Agents, items : SUBSET Entries, at : Nat]
      BY <1>1, <1>2 DEF Request
  <2>3. url.kind # "sitemap" => Cardinality(cache'.items) <= MaxFeedItems
      BY <1>1, <1>2 DEF RequestOK
  <2> QED BY <1>2, <2>1, <2>2, <2>3 DEF IInv, TypeOK, rowVars, Request
<1>4. HistoryOK'
    BY <1>2, SameRows DEF IInv
<1>5. ASSUME NEW r \in Procs
      PROVE  RequestOK(req[r])' /\ RequestWhole(req[r])'
  <2>1. PICK n : n = req'[r]
      OBVIOUS
  <2>2. RequestOK(n) /\ RequestWhole(n)
      BY <1>2, <2>1, Types, IdleIsOK DEF IInv
  <2>3. RequestOK(n)' /\ RequestWhole(n)'
      BY <1>2, <2>2, SameRows
  <2>4. RequestOK(req[r])'
      BY <2>1, <2>3 DEF RequestOK, Shown
  <2>5. RequestWhole(req[r])'
      BY <2>1, <2>3 DEF RequestWhole
  <2> QED BY <2>4, <2>5
<1>6. CacheOK'
  <2>1. ASSUME NEW e \in req[p].items
        PROVE  Shown(e, now - 1)
    <3>1. Shown(e, req[p].at) /\ req[p].at \in Nat /\ req[p].at >= now - 1
        BY <1>1 DEF RequestOK, Request
    <3>2. e \in Entries
        BY <1>1 DEF Request
    <3>3. live[e] \in Nat /\ public[e] \in Nat /\ alive[AgentOf[e]] \in Nat
        BY <3>2, Types DEF IInv
    <3> QED BY <1>1, <3>1, <3>3 DEF Shown
  <2> QED BY <1>2, <2>1 DEF CacheOK, Shown, rowVars
<1> QED BY <1>3, <1>4, <1>5, <1>6 DEF IInv

\* No copy holds nothing.
LEMMA EvictKeeps ==
    ASSUME IInv, Evict
    PROVE  IInv'
<1>1. cache' = NoCopy /\ UNCHANGED <<rowVars, now, url, req>>
    BY DEF Evict
<1>2. MaxFeedItems \in Nat /\ Cardinality({}) = 0
    BY SyndicationAssumption, FS_EmptySet DEF SyndicationAssumption
<1>3. TypeOK'
    BY <1>1, <1>2 DEF IInv, TypeOK, rowVars, NoCopy
<1>4. HistoryOK' /\ \A p \in Procs : RequestOK(req[p])' /\ RequestWhole(req[p])'
  <2>1. ASSUME NEW r \in Procs
        PROVE  RequestOK(req[r])' /\ RequestWhole(req[r])'
      BY <1>1 DEF IInv, RequestOK, RequestWhole, Shown, rowVars, Matching, LiveAgents,
                  LiveEntries, Visible
  <2> QED BY <1>1, <2>1, SameRows DEF IInv
<1>5. CacheOK'
    BY <1>1 DEF CacheOK, NoCopy
<1> QED BY <1>3, <1>4, <1>5 DEF IInv

-----------------------------------------------------------------------------
(* The rows and the clock *)

\* The histories move on, up to the clock, and never back.
Onward ==
    /\ \A a \in Agents : alive[a] <= alive'[a]
    /\ \A e \in Entries : live[e] <= live'[e] /\ public[e] <= public'[e]

\* What has been in a document since some time, has been since that time for good.
LEMMA ShownStays ==
    ASSUME IInv, TypeOK', UNCHANGED url, Onward, NEW e \in Entries, NEW t \in Int, Shown(e, t)
    PROVE  Shown(e, t)'
<1>1. /\ live[e] \in Nat /\ public[e] \in Nat /\ AgentOf[e] \in Agents
      /\ alive[AgentOf[e]] \in Nat
    BY Types DEF IInv
<1>2. live'[e] \in Nat /\ public'[e] \in Nat /\ alive'[AgentOf[e]] \in Nat
    BY <1>1 DEF TypeOK
<1> QED BY <1>1, <1>2 DEF Shown, Onward

\* Hence what is said of the copy stays true, and of each request the first half.
LEMMA ReadsStay ==
    ASSUME IInv, TypeOK', UNCHANGED <<url, cache>>, Onward
    PROVE  /\ CacheOK'
           /\ \A e \in Entries, t \in Int : Shown(e, t) => Shown(e, t)'
           /\ url.kind = "agent" => alive[url.agent] <= alive'[url.agent]
<1>1. \A e \in Entries, t \in Int : Shown(e, t) => Shown(e, t)'
    BY ShownStays
<1>2. cache.at - 1 \in Int /\ cache.items \subseteq Entries
    BY Types DEF IInv
<1>3. CacheOK'
  <2>1. ASSUME NEW e \in cache.items
        PROVE  Shown(e, cache.at - 1)'
      BY <1>1, <1>2 DEF IInv, CacheOK
  <2> QED BY <2>1 DEF CacheOK, Shown
<1> QED BY <1>1, <1>3, Kinds DEF IInv, Onward

\* A row takes another state.
LEMMA BecomesKeeps ==
    ASSUME IInv, NEW A \in [Agents -> RowState], NEW E \in [Entries -> RowState], Becomes(A, E)
    PROVE  IInv'
<1>1. /\ now \in Nat /\ AgentOf \in [Entries -> Agents] /\ req \in [Procs -> Request]
      /\ public \in [Entries -> Nat] /\ live \in [Entries -> Nat] /\ alive \in [Agents -> Nat]
    BY Types DEF IInv
<1>2. /\ UNCHANGED <<now, url, cache>> /\ agents' = A /\ entries' = E
      /\ alive' = [a \in Agents |-> IF A[a] = "live" THEN now ELSE alive[a]]
      /\ live' = [e \in Entries |-> IF E[e] = "live" THEN now ELSE live[e]]
      /\ public' = [e \in Entries |->
                      IF E[e] = "live" /\ A[AgentOf[e]] = "live" THEN now ELSE public[e]]
      /\ req' = [p \in Procs |-> [req[p] EXCEPT !.steady = @ \cap Matching']]
    BY DEF Becomes
<1>3. ASSUME NEW p \in Procs
      PROVE  /\ req'[p] \in Request
             /\ req'[p] = [req[p] EXCEPT !.steady = req[p].steady \cap Matching']
      BY <1>1, <1>2 DEF Request
<1>4. TypeOK'
  <2>1. /\ public' \in [Entries -> Nat] /\ live' \in [Entries -> Nat]
        /\ alive' \in [Agents -> Nat]
      BY <1>1, <1>2
  <2>2. req' \in [Procs -> Request]
      BY <1>2, <1>3
  <2> QED BY <1>2, <2>1, <2>2 DEF IInv, TypeOK, Request
<1>5. HistoryOK'
  <2>1. ASSUME NEW a \in Agents
        PROVE  alive'[a] <= now /\ (A[a] = "live" => alive'[a] = now)
      BY <1>1, <1>2 DEF IInv, HistoryOK
  <2>2. ASSUME NEW e \in Entries
        PROVE  /\ live'[e] <= now /\ (E[e] = "live" => live'[e] = now)
               /\ public'[e] <= now
               /\ E[e] = "live" /\ A[AgentOf[e]] = "live" => public'[e] = now
      BY <1>1, <1>2 DEF IInv, HistoryOK
  <2> QED BY <1>2, <2>1, <2>2 DEF HistoryOK, LiveAgents, LiveEntries, Visible
<1>6. Onward
    BY <1>1, <1>2 DEF Onward, IInv, HistoryOK
<1>7. ASSUME NEW p \in Procs
      PROVE  RequestOK(req[p])' /\ RequestWhole(req[p])'
  <2>1. req[p] \in Request /\ RequestOK(req[p]) /\ RequestWhole(req[p])
      BY <1>1 DEF IInv
  <2>2. /\ req'[p].pc = req[p].pc /\ req'[p].at = req[p].at /\ req'[p].items = req[p].items
        /\ req'[p].steady = req[p].steady \cap Matching'
      BY <1>3, <2>1 DEF Request
  <2>3. req[p] = Idle => req'[p] = Idle
      BY <1>3 DEF Idle
  <2>4. req[p].items \subseteq Entries /\ req[p].at \in Int
      BY <2>1 DEF Request
  <2>5. ASSUME req[p].pc = "found", url.kind = "agent"
        PROVE  req[p].at <= alive'[url.agent]
    <3>1. req[p].at <= alive[url.agent] /\ url.agent \in Agents
        BY <2>1, <2>5, Kinds DEF RequestOK, IInv
    <3>2. alive[url.agent] \in Int /\ alive'[url.agent] \in Int
        BY <1>1, <1>4, <3>1 DEF TypeOK
    <3> QED BY <1>6, <2>4, <3>1, <3>2 DEF Onward
  <2>6. ASSUME req[p].pc = "listed"
        PROVE  \A e \in req[p].items : Shown(e, req[p].at)'
    <3>1. \A e \in Entries, t \in Int : Shown(e, t) => Shown(e, t)'
        BY <1>2, <1>4, <1>6, ReadsStay
    <3>2. \A e \in req[p].items : Shown(e, req[p].at)
        BY <2>1, <2>6 DEF RequestOK
    <3>3. PICK t : t = req[p].at
        OBVIOUS
    <3> QED BY <1>2, <2>2, <2>4, <3>1, <3>2, <3>3 DEF Shown
  <2>7. RequestOK(req[p])'
      BY <1>2, <2>1, <2>2, <2>3, <2>5, <2>6 DEF RequestOK, Shown
  <2>8. RequestWhole(req[p])'
      BY <1>2, <2>1, <2>2 DEF RequestWhole
  <2> QED BY <2>7, <2>8
<1>8. CacheOK'
    BY <1>2, <1>4, <1>6, ReadsStay
<1> QED BY <1>4, <1>5, <1>7, <1>8 DEF IInv

\* The clock moves on once every request is of this tick.
LEMMA TickKeeps ==
    ASSUME IInv, Tick
    PROVE  IInv'
<1>1. /\ now \in Nat /\ AgentOf \in [Entries -> Agents] /\ req \in [Procs -> Request]
      /\ public \in [Entries -> Nat] /\ live \in [Entries -> Nat] /\ alive \in [Agents -> Nat]
    BY Types DEF IInv
<1>2. /\ UNCHANGED <<agents, entries, url, req, cache>> /\ now' = now + 1
      /\ \A p \in Procs : req[p] # Idle => req[p].at = now
      /\ alive' = [a \in Agents |-> IF a \in LiveAgents THEN now' ELSE alive[a]]
      /\ live' = [e \in Entries |-> IF e \in LiveEntries THEN now' ELSE live[e]]
      /\ public' = [e \in Entries |->
                      IF e \in LiveEntries /\ AgentOf[e] \in LiveAgents THEN now' ELSE public[e]]
    BY DEF Tick
<1>3. LiveAgents' = LiveAgents /\ LiveEntries' = LiveEntries /\ Matching' = Matching
    BY <1>2 DEF Matching, LiveAgents, LiveEntries, Visible
<1>4. TypeOK'
  <2>1. /\ public' \in [Entries -> Nat] /\ live' \in [Entries -> Nat]
        /\ alive' \in [Agents -> Nat]
      BY <1>1, <1>2
  <2> QED BY <1>1, <1>2, <2>1 DEF IInv, TypeOK
<1>5. HistoryOK'
  <2>1. ASSUME NEW a \in Agents
        PROVE  alive'[a] <= now' /\ (a \in LiveAgents => alive'[a] = now')
      BY <1>1, <1>2 DEF IInv, HistoryOK
  <2>2. ASSUME NEW e \in Entries
        PROVE  /\ live'[e] <= now' /\ (e \in LiveEntries => live'[e] = now')
               /\ public'[e] <= now' /\ (Visible(e) => public'[e] = now')
      BY <1>1, <1>2 DEF IInv, HistoryOK, Visible
  <2> QED BY <1>3, <2>1, <2>2 DEF HistoryOK, Visible
<1>6. Onward
    BY <1>1, <1>2 DEF Onward, IInv, HistoryOK
<1>7. ASSUME NEW p \in Procs
      PROVE  RequestOK(req[p])' /\ RequestWhole(req[p])'
  <2>1. req[p] \in Request /\ RequestOK(req[p]) /\ RequestWhole(req[p])
      BY <1>1 DEF IInv
  <2>2. req[p].items \subseteq Entries /\ req[p].at \in Int
      BY <2>1 DEF Request
  <2>3. req[p].pc # "idle" => req[p].at <= now' /\ now' <= req[p].at + 1
      BY <1>1, <1>2, <2>1 DEF RequestOK, Idle
  <2>4. ASSUME req[p].pc = "found", url.kind = "agent"
        PROVE  req[p].at <= alive'[url.agent]
    <3>1. req[p].at <= alive[url.agent] /\ url.agent \in Agents
        BY <2>1, <2>4, Kinds DEF RequestOK, IInv
    <3>2. alive[url.agent] \in Int /\ alive'[url.agent] \in Int
        BY <1>1, <1>4, <3>1 DEF TypeOK
    <3> QED BY <1>6, <2>2, <3>1, <3>2 DEF Onward
  <2>5. ASSUME req[p].pc = "listed"
        PROVE  \A e \in req[p].items : Shown(e, req[p].at)'
    <3>1. \A e \in Entries, t \in Int : Shown(e, t) => Shown(e, t)'
        BY <1>2, <1>4, <1>6, ReadsStay
    <3>2. \A e \in req[p].items : Shown(e, req[p].at)
        BY <2>1, <2>5 DEF RequestOK
    <3>3. PICK t : t = req[p].at
        OBVIOUS
    <3> QED BY <1>2, <2>2, <3>1, <3>2, <3>3 DEF Shown
  <2>6. RequestOK(req[p])'
      BY <1>2, <2>1, <2>3, <2>4, <2>5 DEF RequestOK, Shown
  <2>7. RequestWhole(req[p])'
      BY <1>2, <1>3, <2>1 DEF RequestWhole
  <2> QED BY <2>6, <2>7
<1>8. CacheOK'
    BY <1>2, <1>4, <1>6, ReadsStay
<1> QED BY <1>4, <1>5, <1>7, <1>8 DEF IInv

-----------------------------------------------------------------------------
(* All steps *)

\* Every step keeps the invariant.
LEMMA NextIInv == IInv /\ [Next]_vars => IInv'
<1> SUFFICES ASSUME IInv, [Next]_vars
             PROVE  IInv'
    OBVIOUS
<1> USE DEF Next
<1>1. ASSUME NEW p \in Procs,
             \/ Arrive(p) \/ Return(p) \/ WriteFeed(p)
             \/ GetAgentByHandle(p) \/ ListAgentsForSitemap(p) \/ ListEntries(p)
      PROVE  IInv'
    BY <1>1, ArriveKeeps, ReturnKeeps, WriteFeedKeeps, GetAgentKeeps, ListAgentsKeeps,
       ListEntriesKeeps
<1>2. CASE Evict
    BY <1>2, EvictKeeps
<1>3. ASSUME NEW a \in Agents,
             InsertAgent(a) \/ SoftDeleteAgent(a) \/ RestoreAgent(a) \/ PurgeAgent(a)
      PROVE  IInv'
  <2>1. PICK to \in RowState : Becomes([agents EXCEPT ![a] = to], entries)
      BY <1>3 DEF InsertAgent, SoftDeleteAgent, RestoreAgent, PurgeAgent, AgentStep, RowState
  <2>2. [agents EXCEPT ![a] = to] \in [Agents -> RowState] /\ entries \in [Entries -> RowState]
      BY Types DEF IInv
  <2> QED BY <2>1, <2>2, BecomesKeeps
<1>4. ASSUME NEW e \in Entries,
             InsertEntry(e) \/ SoftDeleteEntry(e) \/ RestoreEntry(e) \/ PurgeEntry(e)
      PROVE  IInv'
  <2>1. PICK to \in RowState : Becomes(agents, [entries EXCEPT ![e] = to])
      BY <1>4 DEF InsertEntry, SoftDeleteEntry, RestoreEntry, PurgeEntry, EntryStep, RowState
  <2>2. agents \in [Agents -> RowState] /\ [entries EXCEPT ![e] = to] \in [Entries -> RowState]
      BY Types DEF IInv
  <2> QED BY <2>1, <2>2, BecomesKeeps
<1>5. CASE Tick
    BY <1>5, TickKeeps
<1>6. CASE UNCHANGED vars
    BY <1>6 DEF vars, IInv, TypeOK, HistoryOK, RequestOK, RequestWhole, CacheOK, Shown,
                Matching, LiveAgents, LiveEntries, Visible
<1> QED BY <1>1, <1>2, <1>3, <1>4, <1>5, <1>6

\* The invariant holds always.
LEMMA Invariant == Spec => []IInv
BY InitIInv, NextIInv, PTL DEF Spec

\* Every variable has its type, and no feed is longer than it may be.
THEOREM TypeCorrect == Spec => []TypeOK
<1>1. IInv => TypeOK
    BY DEF IInv
<1> QED BY <1>1, Invariant, PTL

\* What has been binned, of an entry or of its agent, is gone from every document that
\* is still handed out once max-age and one tick are over: a request takes no longer
\* than a tick from its first statement to the copy that the cache makes.
THEOREM TakenDown == Spec => []TakenDownInTime
<1>1. ASSUME IInv
      PROVE  TakenDownInTime
  <2> SUFFICES ASSUME Fresh, NEW e \in cache.items
               PROVE  IF url.kind = "agent" THEN Lately(live[e]) /\ Lately(alive[AgentOf[e]])
                                            ELSE Lately(public[e])
      BY DEF TakenDownInTime
  <2>1. /\ now \in Nat /\ cache.at \in Nat /\ e \in Entries /\ AgentOf[e] \in Agents
        /\ MaxAge \in Nat
      BY <1>1, Types, SyndicationAssumption DEF IInv, SyndicationAssumption
  <2>2. live[e] \in Nat /\ public[e] \in Nat /\ alive[AgentOf[e]] \in Nat
      BY <1>1, <2>1, Types DEF IInv
  <2>3. now - cache.at <= MaxAge
      BY DEF Fresh
  <2>4. Shown(e, cache.at - 1)
      BY <1>1 DEF IInv, CacheOK
  <2> QED BY <2>1, <2>2, <2>3, <2>4 DEF Shown, Lately
<1> QED BY <1>1, Invariant, PTL

\* What was there to be listed all along is listed, unless the feed is full of newer rows.
THEOREM Whole == Spec => []NothingLost
<1>1. IInv => NothingLost
    BY DEF IInv, NothingLost, RequestWhole
<1> QED BY <1>1, Invariant, PTL

=============================================================================
