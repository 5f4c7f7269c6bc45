--------------------------- MODULE OffsetsProofs ---------------------------
(***************************************************************************)
(* Proofs about Offsets: how much a walk by offset misses, and how much it *)
(* shows twice, for any entries, readers and page sizes.                   *)
(***************************************************************************)
EXTENDS Offsets, FiniteSetTheorems, TLAPS

\* By how much m is more than n
Over(m, n) == IF m > n THEN m - n ELSE 0

\* B is the top of the list L in the order of the keys K.
Top(B, L, K) == B \in SUBSET L /\ \A d \in B, e \in L \ B : K[d] > K[e]

\* Of the top of the list L, a walk that has shown the rows S up to offset o has missed
\* at most n of the rows T, besides those that lie below the offset.
SkipsOK(L, K, S, o, T, n) ==
    \A B \in SUBSET L : Top(B, L, K) =>
        Cardinality((T \cap B) \ S) <= n + Over(Cardinality(B), o)

\* It has shown at most n rows twice, or once and will again: those below the top of the
\* list, besides those that lie above the offset.
RepeatsOK(L, K, S, o, G, n) ==
    /\ Cardinality(G) <= n
    /\ \A B \in SUBSET L : Top(B, L, K) =>
        Cardinality(S \cap (L \ B)) + Cardinality(G) <= n + Over(o, Cardinality(B))

KeyOf(l) == [e \in Ids |-> SortKey(l, e)]

\* Both, for the list l that reader r walks
BoundsOK(r, l, S, o, G) ==
    /\ SkipsOK(On(l), KeyOf(l), S, o, steady[r], left[r])
    /\ RepeatsOK(On(l), KeyOf(l), S, o, G, entered[r])

\* A page that has been read, and not yet counted, may count as shown or not.
WalkOK(r, w) ==
    /\ steady[r] \subseteq On(w.list)
    /\ w.pc # "ended" => BoundsOK(r, w.list, w.shown, w.offset, w.again)
    /\ w.pc = "listed" =>
          /\ BoundsOK(r, w.list, w.shown \cup w.page, w.offset + Limit,
                      w.again \cup (w.shown \cap w.page))
          /\ w.list = "entries" /\ w.offset = 0 /\ Cardinality(w.page) < Limit =>
                steady[r] \subseteq w.page
    /\ w.pc = "ended" =>
          /\ Cardinality(w.again) <= entered[r]
          /\ w.counted => Cardinality(steady[r] \ w.shown) <= left[r]

\* No two rows of the bin have the same stamp.
StampsOK ==
    \A d \in Ids : \A e \in Ids \ {d} : st[d] = "binned" /\ st[e] = "binned" =>
        removed[d] # removed[e]

IInv == TypeOK /\ StampsOK /\ \A r \in Readers : WalkOK(r, walk[r])

-----------------------------------------------------------------------------
(* Sizes *)

\* The sizes of two subsets of a finite set, and of their union.
LEMMA Sizes ==
    ASSUME NEW U, IsFiniteSet(U), NEW A \in SUBSET U, NEW B \in SUBSET U
    PROVE  /\ Cardinality(A) \in Nat /\ Cardinality(B) \in Nat /\ Cardinality(A \cup B) \in Nat
           /\ A \subseteq B => Cardinality(A) <= Cardinality(B)
           /\ Cardinality(A \cup B) <= Cardinality(A) + Cardinality(B)
           /\ A \cap B = {} => Cardinality(A \cup B) = Cardinality(A) + Cardinality(B)
<1>1. IsFiniteSet(A) /\ IsFiniteSet(B) /\ IsFiniteSet(A \cap B)
    BY FS_Subset
<1>2. Cardinality(A) \in Nat /\ Cardinality(B) \in Nat /\ Cardinality(A \cap B) \in Nat
    BY <1>1, FS_CardinalityType
<1>3. /\ IsFiniteSet(A \cup B)
      /\ Cardinality(A \cup B) = Cardinality(A) + Cardinality(B) - Cardinality(A \cap B)
    BY <1>1, FS_Union
<1>4. Cardinality(A \cup B) \in Nat
    BY <1>3, FS_CardinalityType
<1>5. A \subseteq B => Cardinality(A) <= Cardinality(B)
    BY <1>1, FS_Subset
<1>6. A \cap B = {} => Cardinality(A \cap B) = 0
    BY FS_EmptySet
<1> QED BY <1>2, <1>3, <1>4, <1>5, <1>6

\* A set is as large as two parts that make it up.
LEMMA Parts ==
    ASSUME NEW U, IsFiniteSet(U), NEW C \in SUBSET U, NEW A, NEW B, C = A \cup B, A \cap B = {}
    PROVE  /\ Cardinality(A) \in Nat /\ Cardinality(B) \in Nat
           /\ Cardinality(C) = Cardinality(A) + Cardinality(B)
<1>1. A \in SUBSET U /\ B \in SUBSET U
    OBVIOUS
<1> QED BY <1>1, Sizes

\* A set that two others cover is no larger than both.
LEMMA Cover ==
    ASSUME NEW U, IsFiniteSet(U), NEW C, NEW A \in SUBSET U, NEW B \in SUBSET U,
           C \subseteq A \cup B
    PROVE  /\ Cardinality(A) \in Nat /\ Cardinality(B) \in Nat /\ Cardinality(C) \in Nat
           /\ Cardinality(C) <= Cardinality(A) + Cardinality(B)
<1>1. A \cup B \in SUBSET U /\ C \in SUBSET U
    OBVIOUS
<1>2. /\ Cardinality(A) \in Nat /\ Cardinality(B) \in Nat /\ Cardinality(A \cup B) \in Nat
      /\ Cardinality(A \cup B) <= Cardinality(A) + Cardinality(B)
    BY Sizes
<1>3. Cardinality(C) \in Nat /\ Cardinality(C) <= Cardinality(A \cup B)
    BY <1>1, Sizes
<1> QED BY <1>2, <1>3

\* What one more element does to the size of a set.
LEMMA OneMore ==
    ASSUME NEW A, IsFiniteSet(A), NEW x
    PROVE  /\ Cardinality(A) \in Nat /\ Cardinality(A \cup {x}) \in Nat
           /\ Cardinality(A \cup {x}) <= Cardinality(A) + 1
           /\ x \notin A => Cardinality(A \cup {x}) = Cardinality(A) + 1
<1>1. Cardinality(A) \in Nat
    BY FS_CardinalityType
<1>2. Cardinality(A \cup {x}) = IF x \in A THEN Cardinality(A) ELSE Cardinality(A) + 1
    BY FS_AddElement
<1> QED BY <1>1, <1>2

\* Of two tops of a list, one is part of the other.
LEMMA TopsNest ==
    ASSUME NEW L, NEW K, \A d \in L : K[d] \in Int,
           NEW B, NEW C, Top(B, L, K), Top(C, L, K)
    PROVE  B \subseteq C \/ C \subseteq B
<1> SUFFICES ASSUME NEW b \in B \ C, NEW c \in C \ B
             PROVE  FALSE
    OBVIOUS
<1>1. K[b] > K[c] /\ K[c] > K[b] /\ K[b] \in Int /\ K[c] \in Int
    BY DEF Top
<1> QED BY <1>1

-----------------------------------------------------------------------------
(* A row comes onto the list, leaves it, or moves *)

\* The top of a list that x has come onto is, but for x, the top of the list before.
LEMMA TopBefore ==
    ASSUME NEW L, NEW x, x \notin L, NEW K, NEW J, \A d \in L : J[d] = K[d],
           NEW B, Top(B, L \cup {x}, J)
    PROVE  Top(B \ {x}, L, K)
<1>1. ASSUME NEW d \in B \ {x}, NEW e \in L \ (B \ {x})
      PROVE  K[d] > K[e]
    <2>1. d \in L /\ e \in (L \cup {x}) \ B /\ J[d] > J[e]
        BY <1>1 DEF Top
    <2> QED BY <1>1, <2>1
<1> QED BY <1>1 DEF Top

\* The top of a list that x has left was a top before, with x or without.
LEMMA TopAfter ==
    ASSUME NEW L, NEW x \in L, NEW K, NEW J, \A d \in L \ {x} : J[d] = K[d],
           \A d \in L : K[d] \in Int, \A d \in L \ {x} : K[d] # K[x],
           NEW B, Top(B, L \ {x}, J)
    PROVE  Top(B, L, K) \/ Top(B \cup {x}, L, K)
<1>1. /\ B \in SUBSET (L \ {x})
      /\ \A d \in B, e \in (L \ {x}) \ B : K[d] > K[e]
    BY DEF Top
<1>2. CASE \A d \in B : K[d] > K[x]
    <2>1. \A d \in B, e \in L \ B : K[d] > K[e]
        BY <1>1, <1>2
    <2> QED BY <1>1, <2>1 DEF Top
<1>3. CASE \E d \in B : ~ (K[d] > K[x])
    <2>1. PICK d \in B : ~ (K[d] > K[x])
        BY <1>3
    <2>2. d \in L \ {x} /\ K[d] \in Int /\ K[x] \in Int /\ K[x] > K[d]
        BY <1>1, <2>1
    <2>3. \A e \in (L \ {x}) \ B : K[x] > K[e]
        BY <1>1, <2>2
    <2>4. \A c \in B \cup {x}, e \in L \ (B \cup {x}) : K[c] > K[e]
        BY <1>1, <2>3
    <2> QED BY <1>1, <2>4 DEF Top
<1> QED BY <1>2, <1>3

\* A row that comes is no row missed.
LEMMA EnterSkips ==
    ASSUME NEW L, IsFiniteSet(L), NEW x, x \notin L, NEW K, NEW J, \A d \in L : J[d] = K[d],
           NEW S, NEW T \in SUBSET L, NEW o \in Nat, NEW n \in Nat, SkipsOK(L, K, S, o, T, n)
    PROVE  SkipsOK(L \cup {x}, J, S, o, T, n)
<1> SUFFICES ASSUME NEW B \in SUBSET (L \cup {x}), Top(B, L \cup {x}, J)
             PROVE  Cardinality((T \cap B) \ S) <= n + Over(Cardinality(B), o)
    BY DEF SkipsOK
<1> DEFINE C == B \ {x}
<1>1. Top(C, L, K) /\ C \in SUBSET L
    BY TopBefore
<1>2. Cardinality((T \cap C) \ S) <= n + Over(Cardinality(C), o)
    BY <1>1 DEF SkipsOK
<1>3. (T \cap B) \ S = (T \cap C) \ S
    OBVIOUS
<1>4. IsFiniteSet(L \cup {x})
    BY FS_AddElement
<1>5. Cardinality(C) \in Nat /\ Cardinality(B) \in Nat /\ Cardinality(C) <= Cardinality(B)
    BY <1>4, Sizes
<1>6. Cardinality((T \cap C) \ S) \in Nat
    BY FS_Subset, FS_CardinalityType
<1> HIDE DEF C
<1> QED BY <1>2, <1>3, <1>5, <1>6 DEF Over

\* It may be a row shown again, or push one below the offset: one, in all.
LEMMA EnterRepeats ==
    ASSUME NEW L, IsFiniteSet(L), NEW x, x \notin L, NEW K, NEW J, \A d \in L : J[d] = K[d],
           NEW S, NEW G, IsFiniteSet(G), NEW o \in Nat, NEW n \in Nat,
           RepeatsOK(L, K, S, o, G, n)
    PROVE  RepeatsOK(L \cup {x}, J, S, o, G, n + 1)
<1>1. Cardinality(G) \in Nat /\ Cardinality(G) <= n
    BY FS_CardinalityType DEF RepeatsOK
<1>2. ASSUME NEW B \in SUBSET (L \cup {x}), Top(B, L \cup {x}, J)
      PROVE  Cardinality(S \cap ((L \cup {x}) \ B)) + Cardinality(G) <= n + 1 + Over(o, Cardinality(B))
  <2> DEFINE C == B \ {x}
             Q == S \cap (L \ C)
  <2>1. Top(C, L, K) /\ C \in SUBSET L
      BY <1>2, TopBefore
  <2>2. Cardinality(Q) + Cardinality(G) <= n + Over(o, Cardinality(C))
      BY <2>1 DEF RepeatsOK
  <2>3. IsFiniteSet(C) /\ IsFiniteSet(Q)
      BY <2>1, FS_Subset
  <2>4. Cardinality(C) \in Nat /\ Cardinality(Q) \in Nat
      BY <2>3, FS_CardinalityType
  <2>5. CASE x \in B
    <3>1. S \cap ((L \cup {x}) \ B) = Q /\ B = C \cup {x}
        BY <2>5
    <3>2. Cardinality(B) = Cardinality(C) + 1
        BY <2>3, <3>1, OneMore
    <3> DEFINE N == Cardinality(S \cap ((L \cup {x}) \ B))
    <3>3. N = Cardinality(Q)
        BY <3>1
    <3> HIDE DEF C, Q, N
    <3>4. N + Cardinality(G) <= n + 1 + Over(o, Cardinality(B))
        BY <1>1, <2>2, <2>4, <3>2, <3>3 DEF Over
    <3> QED BY <3>4 DEF N
  <2>6. CASE x \notin B
    <3>1. S \cap ((L \cup {x}) \ B) \subseteq Q \cup {x} /\ B = C
        BY <2>6
    <3>2. /\ IsFiniteSet(Q \cup {x}) /\ Cardinality(Q \cup {x}) \in Nat
          /\ Cardinality(Q \cup {x}) <= Cardinality(Q) + 1
        BY <2>3, OneMore, FS_AddElement
    <3>3. /\ Cardinality(S \cap ((L \cup {x}) \ B)) \in Nat
          /\ Cardinality(S \cap ((L \cup {x}) \ B)) <= Cardinality(Q \cup {x})
        BY <3>1, <3>2, FS_Subset, FS_CardinalityType
    <3> DEFINE N == Cardinality(S \cap ((L \cup {x}) \ B))
    <3>4. N \in Nat /\ N <= Cardinality(Q) + 1
        BY <2>4, <3>2, <3>3
    <3> HIDE DEF C, Q, N
    <3>5. N + Cardinality(G) <= n + 1 + Over(o, Cardinality(B))
        BY <1>1, <2>2, <2>4, <3>1, <3>4 DEF Over
    <3> QED BY <3>5 DEF N
  <2> QED BY <2>5, <2>6
<1> QED BY <1>1, <1>2 DEF RepeatsOK

\* A row that leaves may pull one above the offset: one more that is missed.
LEMMA LeaveSkips ==
    ASSUME NEW L, IsFiniteSet(L), NEW x \in L, NEW K, NEW J, \A d \in L \ {x} : J[d] = K[d],
           \A d \in L : K[d] \in Int, \A d \in L \ {x} : K[d] # K[x],
           NEW S, NEW T \in SUBSET L, NEW o \in Nat, NEW n \in Nat, SkipsOK(L, K, S, o, T, n)
    PROVE  SkipsOK(L \ {x}, J, S, o, T \cap (L \ {x}), n + 1)
<1> SUFFICES ASSUME NEW B \in SUBSET (L \ {x}), Top(B, L \ {x}, J)
             PROVE  Cardinality(((T \cap (L \ {x})) \cap B) \ S)
                        <= n + 1 + Over(Cardinality(B), o)
    BY DEF SkipsOK
<1> DEFINE M == ((T \cap (L \ {x})) \cap B) \ S
<1>1. PICK C \in {B, B \cup {x}} : Top(C, L, K)
    BY TopAfter
<1>2. Cardinality((T \cap C) \ S) <= n + Over(Cardinality(C), o)
    BY <1>1 DEF SkipsOK, Top
<1>3. M \subseteq (T \cap C) \ S
    BY <1>1
<1>4. /\ IsFiniteSet((T \cap C) \ S) /\ IsFiniteSet(B)
      /\ Cardinality(B) \in Nat /\ Cardinality((T \cap C) \ S) \in Nat
    BY FS_Subset, FS_CardinalityType
<1>5. Cardinality(M) \in Nat /\ Cardinality(M) <= Cardinality((T \cap C) \ S)
    BY <1>3, <1>4, FS_Subset, FS_CardinalityType
<1>6. /\ Cardinality(C) \in Nat
      /\ Cardinality(C) = Cardinality(B) \/ Cardinality(C) = Cardinality(B) + 1
    BY <1>1, <1>4, OneMore
<1> HIDE DEF M
<1>7. Cardinality(M) <= n + 1 + Over(Cardinality(B), o)
    BY <1>2, <1>4, <1>5, <1>6 DEF Over
<1> QED BY <1>7 DEF M

\* It brings nothing back.
LEMMA LeaveRepeats ==
    ASSUME NEW L, IsFiniteSet(L), NEW x \in L, NEW K, NEW J, \A d \in L \ {x} : J[d] = K[d],
           \A d \in L : K[d] \in Int, \A d \in L \ {x} : K[d] # K[x],
           NEW S, NEW G, IsFiniteSet(G), NEW o \in Nat, NEW n \in Nat,
           RepeatsOK(L, K, S, o, G, n)
    PROVE  RepeatsOK(L \ {x}, J, S, o, G, n)
<1>1. Cardinality(G) \in Nat /\ Cardinality(G) <= n
    BY FS_CardinalityType DEF RepeatsOK
<1>2. ASSUME NEW B \in SUBSET (L \ {x}), Top(B, L \ {x}, J)
      PROVE  Cardinality(S \cap ((L \ {x}) \ B)) + Cardinality(G) <= n + Over(o, Cardinality(B))
  <2> DEFINE Q == S \cap ((L \ {x}) \ B)
  <2>1. PICK C \in {B, B \cup {x}} : Top(C, L, K)
      BY <1>2, TopAfter
  <2>2. Cardinality(S \cap (L \ C)) + Cardinality(G) <= n + Over(o, Cardinality(C))
      BY <2>1 DEF RepeatsOK, Top
  <2>3. Q \subseteq S \cap (L \ C)
      BY <2>1
  <2>4. /\ IsFiniteSet(S \cap (L \ C)) /\ IsFiniteSet(B)
        /\ Cardinality(B) \in Nat /\ Cardinality(S \cap (L \ C)) \in Nat
      BY FS_Subset, FS_CardinalityType
  <2>5. Cardinality(Q) \in Nat /\ Cardinality(Q) <= Cardinality(S \cap (L \ C))
      BY <2>3, <2>4, FS_Subset, FS_CardinalityType
  <2>6. /\ Cardinality(C) \in Nat
        /\ Cardinality(C) = Cardinality(B) \/ Cardinality(C) = Cardinality(B) + 1
      BY <2>1, <2>4, OneMore
  <2> HIDE DEF Q
  <2>7. Cardinality(Q) + Cardinality(G) <= n + Over(o, Cardinality(B))
      BY <1>1, <2>2, <2>4, <2>5, <2>6 DEF Over
  <2> QED BY <2>7 DEF Q
<1> QED BY <1>1, <1>2 DEF RepeatsOK

\* Of the rows of L, which have the keys K, only x gets another key in J.
OnlyMoved(L, x, K, J) ==
    /\ \A d \in L \ {x} : J[d] = K[d]
    /\ \A d \in L : K[d] \in Int
    /\ \A d \in L \ {x} : K[d] # K[x]

\* The top of a list in which x has moved was, but for x, the top of the list before.
LEMMA TopMoved ==
    ASSUME NEW L, NEW x \in L, NEW K, NEW J, OnlyMoved(L, x, K, J), NEW B, Top(B, L, J)
    PROVE  \E D \in SUBSET L :
              /\ Top(D, L, K)
              /\ \/ D = B
                 \/ x \in B /\ D = B \ {x}
                 \/ x \notin B /\ D = B \cup {x}
<1> DEFINE C == B \ {x}
<1>1. Top(C, L \ {x}, J)
    BY DEF Top
<1>2. Top(C, L, K) \/ Top(C \cup {x}, L, K)
    BY <1>1, TopAfter DEF OnlyMoved
<1>3. C \in SUBSET L /\ C \cup {x} \in SUBSET L /\ (x \in B => C \cup {x} = B) /\ (x \notin B => C = B)
    BY DEF Top
<1> QED BY <1>2, <1>3

\* A row that moves may be one missed, or pull one above the offset: one, in all.
LEMMA MoveSkips ==
    ASSUME NEW L, IsFiniteSet(L), NEW x \in L, NEW K, NEW J, OnlyMoved(L, x, K, J),
           NEW S, NEW T \in SUBSET L, NEW o \in Nat, NEW n \in Nat, SkipsOK(L, K, S, o, T, n)
    PROVE  SkipsOK(L, J, S, o, T, n + 1)
<1> SUFFICES ASSUME NEW B \in SUBSET L, Top(B, L, J)
             PROVE  Cardinality((T \cap B) \ S) <= n + 1 + Over(Cardinality(B), o)
    BY DEF SkipsOK
<1>1. PICK D \in SUBSET L :
         /\ Top(D, L, K)
         /\ \/ D = B
            \/ x \in B /\ D = B \ {x}
            \/ x \notin B /\ D = B \cup {x}
    BY TopMoved
<1> DEFINE M == (T \cap B) \ S
           N == (T \cap D) \ S
<1>2. Cardinality(N) <= n + Over(Cardinality(D), o)
    BY <1>1 DEF SkipsOK
<1>3. IsFiniteSet(B) /\ IsFiniteSet(D) /\ IsFiniteSet(M) /\ IsFiniteSet(N)
    BY FS_Subset
<1>4. /\ Cardinality(B) \in Nat /\ Cardinality(D) \in Nat
      /\ Cardinality(M) \in Nat /\ Cardinality(N) \in Nat
    BY <1>3, FS_CardinalityType
<1>5. CASE D = B
    <2>1. M = N
        BY <1>5
    <2> HIDE DEF M, N
    <2>2. Cardinality(M) <= n + 1 + Over(Cardinality(B), o)
        BY <1>2, <1>4, <1>5, <2>1 DEF Over
    <2> QED BY <2>2 DEF M
<1>6. CASE x \in B /\ D = B \ {x}
    <2>1. M \subseteq N \cup {x} /\ B = D \cup {x} /\ x \notin D
        BY <1>6
    <2>2. /\ IsFiniteSet(N \cup {x}) /\ Cardinality(N \cup {x}) \in Nat
          /\ Cardinality(N \cup {x}) <= Cardinality(N) + 1
          /\ Cardinality(B) = Cardinality(D) + 1
        BY <1>3, <2>1, OneMore, FS_AddElement
    <2>3. Cardinality(M) <= Cardinality(N \cup {x})
        BY <2>1, <2>2, FS_Subset
    <2> HIDE DEF M, N
    <2>4. Cardinality(M) <= n + 1 + Over(Cardinality(B), o)
        BY <1>2, <1>4, <2>2, <2>3 DEF Over
    <2> QED BY <2>4 DEF M
<1>7. CASE x \notin B /\ D = B \cup {x}
    <2>1. M \subseteq N
        BY <1>7
    <2>2. Cardinality(M) <= Cardinality(N) /\ Cardinality(D) = Cardinality(B) + 1
        BY <1>3, <1>7, <2>1, FS_Subset, OneMore
    <2> HIDE DEF M, N
    <2>3. Cardinality(M) <= n + 1 + Over(Cardinality(B), o)
        BY <1>2, <1>4, <2>2 DEF Over
    <2> QED BY <2>3 DEF M
<1> QED BY <1>1, <1>5, <1>6, <1>7

\* It may be shown again, or push one below the offset: one, in all.
LEMMA MoveRepeats ==
    ASSUME NEW L, IsFiniteSet(L), NEW x \in L, NEW K, NEW J, OnlyMoved(L, x, K, J),
           NEW S, NEW G, IsFiniteSet(G), NEW o \in Nat, NEW n \in Nat,
           RepeatsOK(L, K, S, o, G, n)
    PROVE  RepeatsOK(L, J, S, o, G, n + 1)
<1>1. Cardinality(G) \in Nat /\ Cardinality(G) <= n
    BY FS_CardinalityType DEF RepeatsOK
<1>2. ASSUME NEW B \in SUBSET L, Top(B, L, J)
      PROVE  Cardinality(S \cap (L \ B)) + Cardinality(G) <= n + 1 + Over(o, Cardinality(B))
  <2>1. PICK D \in SUBSET L :
           /\ Top(D, L, K)
           /\ \/ D = B
              \/ x \in B /\ D = B \ {x}
              \/ x \notin B /\ D = B \cup {x}
      BY <1>2, TopMoved
  <2> DEFINE M == S \cap (L \ B)
             N == S \cap (L \ D)
  <2>2. Cardinality(N) + Cardinality(G) <= n + Over(o, Cardinality(D))
      BY <2>1 DEF RepeatsOK
  <2>3. IsFiniteSet(B) /\ IsFiniteSet(D) /\ IsFiniteSet(M) /\ IsFiniteSet(N)
      BY FS_Subset
  <2>4. /\ Cardinality(B) \in Nat /\ Cardinality(D) \in Nat
        /\ Cardinality(M) \in Nat /\ Cardinality(N) \in Nat
      BY <2>3, FS_CardinalityType
  <2>5. CASE D = B
    <3>1. M = N
        BY <2>5
    <3> HIDE DEF M, N
    <3>2. Cardinality(M) + Cardinality(G) <= n + 1 + Over(o, Cardinality(B))
        BY <1>1, <2>2, <2>4, <2>5, <3>1 DEF Over
    <3> QED BY <3>2 DEF M
  <2>6. CASE x \in B /\ D = B \ {x}
    <3>1. M \subseteq N /\ B = D \cup {x} /\ x \notin D
        BY <2>6
    <3>2. Cardinality(M) <= Cardinality(N) /\ Cardinality(B) = Cardinality(D) + 1
        BY <2>3, <3>1, FS_Subset, OneMore
    <3> HIDE DEF M, N
    <3>3. Cardinality(M) + Cardinality(G) <= n + 1 + Over(o, Cardinality(B))
        BY <1>1, <2>2, <2>4, <3>2 DEF Over
    <3> QED BY <3>3 DEF M
  <2>7. CASE x \notin B /\ D = B \cup {x}
    <3>1. M \subseteq N \cup {x}
        BY <2>7
    <3>2. /\ IsFiniteSet(N \cup {x}) /\ Cardinality(N \cup {x}) \in Nat
          /\ Cardinality(N \cup {x}) <= Cardinality(N) + 1
          /\ Cardinality(D) = Cardinality(B) + 1
        BY <2>3, <2>7, OneMore, FS_AddElement
    <3>3. Cardinality(M) <= Cardinality(N \cup {x})
        BY <3>1, <3>2, FS_Subset
    <3> HIDE DEF M, N
    <3>4. Cardinality(M) + Cardinality(G) <= n + 1 + Over(o, Cardinality(B))
        BY <1>1, <2>2, <2>4, <3>2, <3>3 DEF Over
    <3> QED BY <3>4 DEF M
  <2> QED BY <2>1, <2>5, <2>6, <2>7
<1> QED BY <1>1, <1>2 DEF RepeatsOK

-----------------------------------------------------------------------------
(* A page is read *)

\* P is the page at offset o of the list L, and A are the rows above it.
IsCut(A, P, L, K, o) ==
    /\ P \in SUBSET L /\ A \in SUBSET (L \ P)
    /\ Cardinality(A) = Smaller(o, Cardinality(L))
    /\ Cardinality(P) = Smaller(Limit, Cardinality(L) - Cardinality(A))
    /\ Top(A, L, K) /\ Top(A \cup P, L, K)

\* A page that is not full is the last, and so is one that has fewer rows above it than
\* its offset says.
LEMMA CutSizes ==
    ASSUME NEW L, IsFiniteSet(L), NEW K, NEW o \in Nat, NEW A, NEW P, IsCut(A, P, L, K, o)
    PROVE  /\ Cardinality(A) \in Nat /\ Cardinality(P) \in Nat
           /\ Cardinality(A) <= o /\ Cardinality(P) <= Limit
           /\ A \cup P = L \/ (Cardinality(A) = o /\ Cardinality(P) = Limit)
           /\ Cardinality(A) = o \/ (A = L /\ P = {})
<1>1. Limit \in Nat
    BY OffsetsAssumption DEF OffsetsAssumption
<1>2. /\ P \in SUBSET L /\ A \in SUBSET L /\ A \cap P = {} /\ A \cup P \in SUBSET L
      /\ Cardinality(A) = Smaller(o, Cardinality(L))
      /\ Cardinality(P) = Smaller(Limit, Cardinality(L) - Cardinality(A))
    BY DEF IsCut
<1>3. Cardinality(L) \in Nat
    BY FS_CardinalityType
<1>4. /\ Cardinality(A) \in Nat /\ Cardinality(P) \in Nat
      /\ Cardinality(A \cup P) = Cardinality(A) + Cardinality(P)
    BY <1>2, Sizes
<1>5. Cardinality(A) <= o /\ Cardinality(P) <= Limit
    BY <1>1, <1>2, <1>3, <1>4 DEF Smaller
<1>6. CASE Cardinality(A) # o
    <2>1. Cardinality(A) = Cardinality(L)
        BY <1>2, <1>3, <1>6 DEF Smaller
    <2>2. A = L
        BY <1>2, <2>1, FS_Subset
    <2>3. P = {}
        BY <1>2, <2>2
    <2> QED BY <1>4, <1>5, <2>2, <2>3
<1>7. CASE Cardinality(A) = o /\ Cardinality(P) # Limit
    <2>1. Cardinality(P) = Cardinality(L) - Cardinality(A)
        BY <1>2, <1>7 DEF Smaller
    <2>2. Cardinality(A \cup P) = Cardinality(L)
        BY <1>3, <1>4, <2>1
    <2>3. A \cup P = L
        BY <1>2, <2>2, FS_Subset
    <2> QED BY <1>4, <1>5, <1>7, <2>3
<1> QED BY <1>4, <1>5, <1>6, <1>7

\* What has been missed of the list is bounded as before, once its next page is shown.
LEMMA PageSkips ==
    ASSUME NEW L, IsFiniteSet(L), NEW K, \A d \in L : K[d] \in Int,
           NEW o \in Nat, NEW A, NEW P, IsCut(A, P, L, K, o),
           NEW S, NEW T \in SUBSET L, NEW n \in Nat, SkipsOK(L, K, S, o, T, n)
    PROVE  SkipsOK(L, K, S \cup P, o + Limit, T, n)
<1> SUFFICES ASSUME NEW B \in SUBSET L, Top(B, L, K)
             PROVE  Cardinality((T \cap B) \ (S \cup P))
                        <= n + Over(Cardinality(B), o + Limit)
    BY DEF SkipsOK
<1> DEFINE M == (T \cap B) \ (S \cup P)
<1>1. Limit \in Nat
    BY OffsetsAssumption DEF OffsetsAssumption
<1>2. /\ A \in SUBSET L /\ P \in SUBSET L /\ A \cap P = {} /\ A \cup P \in SUBSET L
      /\ Top(A, L, K) /\ Top(A \cup P, L, K)
    BY DEF IsCut
<1>3. /\ Cardinality(A) \in Nat /\ Cardinality(P) \in Nat
      /\ Cardinality(A) <= o /\ Cardinality(P) <= Limit
      /\ A \cup P = L \/ (Cardinality(A) = o /\ Cardinality(P) = Limit)
    BY CutSizes
<1>p. Cardinality(A \cup P) = Cardinality(A) + Cardinality(P)
    BY <1>2, Parts
<1>4. /\ M \in SUBSET L /\ (T \cap A) \ S \in SUBSET L /\ (T \cap B) \ S \in SUBSET L
      /\ B \ (A \cup P) \in SUBSET L
    OBVIOUS
<1>5. /\ Cardinality(M) \in Nat /\ Cardinality((T \cap A) \ S) \in Nat
      /\ Cardinality((T \cap B) \ S) \in Nat
      /\ Cardinality(B \ (A \cup P)) \in Nat /\ Cardinality(B) \in Nat
    BY <1>4, Sizes
<1>6. Cardinality((T \cap A) \ S) <= n
  <2>1. Cardinality((T \cap A) \ S) <= n + Over(Cardinality(A), o)
      BY <1>2 DEF SkipsOK
  <2> QED BY <1>3, <1>5, <2>1 DEF Over
<1>7. CASE B \subseteq A
  <2>1. Cardinality((T \cap B) \ S) <= n + Over(Cardinality(B), o)
      BY DEF SkipsOK
  <2>2. Cardinality(B) <= Cardinality(A)
      BY <1>2, <1>7, Sizes
  <2>3. M \subseteq (T \cap B) \ S
      OBVIOUS
  <2>4. Cardinality(M) <= Cardinality((T \cap B) \ S)
      BY <1>4, <2>3, Sizes
  <2> HIDE DEF M
  <2>5. Cardinality(M) <= n + Over(Cardinality(B), o + Limit)
      BY <1>1, <1>3, <1>5, <2>1, <2>2, <2>4 DEF Over
  <2> QED BY <2>5 DEF M
<1>8. CASE B \subseteq A \cup P
  <2>1. M \subseteq (T \cap A) \ S
      BY <1>8
  <2>2. Cardinality(M) <= Cardinality((T \cap A) \ S)
      BY <1>4, <2>1, Sizes
  <2> HIDE DEF M
  <2>3. Cardinality(M) <= n + Over(Cardinality(B), o + Limit)
      BY <1>1, <1>5, <1>6, <2>2 DEF Over
  <2> QED BY <2>3 DEF M
<1>9. CASE A \cup P \subseteq B /\ ~ (B \subseteq A \cup P)
  <2>1. M \subseteq ((T \cap A) \ S) \cup (B \ (A \cup P))
      OBVIOUS
  <2>2. ((T \cap A) \ S) \cup (B \ (A \cup P)) \in SUBSET L
      BY <1>4
  <2>3. /\ Cardinality(M) <= Cardinality(((T \cap A) \ S) \cup (B \ (A \cup P)))
        /\ Cardinality(((T \cap A) \ S) \cup (B \ (A \cup P))) \in Nat
      BY <1>4, <2>1, <2>2, Sizes
  <2>4. Cardinality(((T \cap A) \ S) \cup (B \ (A \cup P)))
            <= Cardinality((T \cap A) \ S) + Cardinality(B \ (A \cup P))
      BY <1>4, Sizes
  <2>5. A \cup P # L
      BY <1>9
  <2>6. Cardinality(A) = o /\ Cardinality(P) = Limit
      BY <1>3, <2>5
  <2>7. (A \cup P) \cup (B \ (A \cup P)) = B /\ (A \cup P) \cap (B \ (A \cup P)) = {}
      BY <1>9
  <2>8. Cardinality(B) = Cardinality(A \cup P) + Cardinality(B \ (A \cup P))
    <3> DEFINE F == A \cup P
               Q == B \ (A \cup P)
    <3>1. B = F \cup Q /\ F \cap Q = {}
        BY <2>7
    <3> HIDE DEF F, Q
    <3>2. Cardinality(B) = Cardinality(F) + Cardinality(Q)
        BY <3>1, Parts
    <3> QED BY <3>2 DEF F, Q
  <2> HIDE DEF M
  <2>9. Cardinality(M) <= n + Over(Cardinality(B), o + Limit)
      BY <1>1, <1>3, <1>p, <1>5, <1>6, <2>3, <2>4, <2>6, <2>8 DEF Over
  <2> QED BY <2>9 DEF M
<1>10. (B \subseteq A \/ A \subseteq B) /\ (B \subseteq A \cup P \/ A \cup P \subseteq B)
    BY <1>2, TopsNest
<1> QED BY <1>7, <1>8, <1>9, <1>10

\* And so is what it has shown twice.
LEMMA PageRepeats ==
    ASSUME NEW L, IsFiniteSet(L), NEW K, \A d \in L : K[d] \in Int,
           NEW o \in Nat, NEW A, NEW P, IsCut(A, P, L, K, o),
           NEW S, NEW G, IsFiniteSet(G), NEW n \in Nat, RepeatsOK(L, K, S, o, G, n)
    PROVE  RepeatsOK(L, K, S \cup P, o + Limit, G \cup (S \cap P), n)
<1> DEFINE g == Cardinality(G)
           H == G \cup (S \cap P)
           D(B) == S \cap (L \ B)
<1>1. Limit \in Nat /\ g \in Nat /\ g <= n
    BY OffsetsAssumption, FS_CardinalityType DEF OffsetsAssumption, RepeatsOK
<1>2. /\ A \in SUBSET L /\ P \in SUBSET L /\ A \cap P = {} /\ A \cup P \in SUBSET L
      /\ Top(A, L, K) /\ Top(A \cup P, L, K)
    BY DEF IsCut
<1>3. /\ Cardinality(A) \in Nat /\ Cardinality(P) \in Nat
      /\ Cardinality(A) <= o /\ Cardinality(P) <= Limit
      /\ Cardinality(A) = o \/ (A = L /\ P = {})
    BY CutSizes
<1>4. \A B : D(B) \in SUBSET L
    OBVIOUS
<1>5. /\ S \cap P \in SUBSET L /\ Cardinality(S \cap P) \in Nat
      /\ IsFiniteSet(S \cap P) /\ IsFiniteSet(L \cup G)
    BY <1>2, Sizes, FS_Subset, FS_Union
<1>6. Cardinality(H) \in Nat /\ Cardinality(H) <= g + Cardinality(S \cap P)
  <2>1. IsFiniteSet(G \cup (S \cap P))
      BY <1>5, FS_Union
  <2> QED BY <2>1, Cover
<1>7. Cardinality(D(A)) \in Nat /\ Cardinality(D(A)) + g <= n + Over(o, Cardinality(A))
    BY <1>2, <1>4, Sizes DEF RepeatsOK
<1>8. Cardinality(H) <= n
  <2>1. CASE Cardinality(A) = o
    <3>1. S \cap P \subseteq D(A)
        BY <1>2
    <3>2. Cardinality(S \cap P) <= Cardinality(D(A))
        BY <1>4, <1>5, <3>1, Sizes
    <3> HIDE DEF g, H, D
    <3> QED BY <1>1, <1>3, <1>5, <1>6, <1>7, <2>1, <3>2 DEF Over
  <2>2. CASE P = {}
    <3>1. Cardinality(S \cap P) = 0
        BY <2>2, FS_EmptySet
    <3> HIDE DEF g, H
    <3> QED BY <1>1, <1>6, <3>1
  <2> QED BY <1>3, <2>1, <2>2
<1>9. ASSUME NEW B \in SUBSET L, Top(B, L, K)
      PROVE  Cardinality((S \cup P) \cap (L \ B)) + Cardinality(H)
                 <= n + Over(o + Limit, Cardinality(B))
  <2> DEFINE N == Cardinality((S \cup P) \cap (L \ B))
  <2>1. N \in Nat /\ Cardinality(B) \in Nat
      BY Sizes
  <2>2. CASE B \subseteq A
    <3> DEFINE R == P \ S
    <3>1. (S \cup P) \cap (L \ B) = D(B) \cup R /\ R \in SUBSET L
        BY <1>2, <2>2
    <3>2. N <= Cardinality(D(B)) + Cardinality(R) /\ Cardinality(D(B)) \in Nat /\ Cardinality(R) \in Nat
        BY <1>4, <3>1, Sizes
    <3>3. P = R \cup (S \cap P) /\ R \cap (S \cap P) = {}
        OBVIOUS
    <3>4. Cardinality(P) = Cardinality(R) + Cardinality(S \cap P)
        BY <1>2, <3>3, Parts
    <3>5. Cardinality(D(B)) + g <= n + Over(o, Cardinality(B))
        BY <1>9 DEF RepeatsOK
    <3>6. Cardinality(B) <= Cardinality(A)
        BY <1>2, <2>2, Sizes
    <3> HIDE DEF g, H, D, N, R
    <3>7. N + Cardinality(H) <= n + Over(o + Limit, Cardinality(B))
        BY <1>1, <1>3, <1>5, <1>6, <2>1, <3>2, <3>4, <3>5, <3>6 DEF Over
    <3> QED BY <3>7 DEF N
  <2>3. CASE A \subseteq B /\ B \subseteq A \cup P
    <3> DEFINE R == P \ B
               C == P \cap B
    <3>1. (S \cup P) \cap (L \ B) = R \cup D(A \cup P) /\ R \in SUBSET L /\ C \in SUBSET L
        BY <1>2, <2>3
    <3>2. /\ N <= Cardinality(R) + Cardinality(D(A \cup P))
          /\ Cardinality(D(A \cup P)) \in Nat /\ Cardinality(R) \in Nat /\ Cardinality(C) \in Nat
        BY <1>4, <3>1, Sizes
    <3>3. D(A) = D(A \cup P) \cup (S \cap P) /\ D(A \cup P) \cap (S \cap P) = {}
        BY <1>2
    <3>4. Cardinality(D(A)) = Cardinality(D(A \cup P)) + Cardinality(S \cap P)
        BY <1>4, <1>5, <3>3, Sizes
    <3>5. P = R \cup C /\ R \cap C = {} /\ B = A \cup C /\ A \cap C = {}
        BY <1>2, <2>3
    <3>6. Cardinality(P) = Cardinality(R) + Cardinality(C)
        BY <1>2, <3>5, Parts
    <3>7. Cardinality(B) = Cardinality(A) + Cardinality(C)
        BY <1>2, <3>1, <3>5, Sizes
    <3> HIDE DEF g, H, D, N, R, C
    <3>8. N + Cardinality(H) <= n + Over(o + Limit, Cardinality(B))
        BY <1>1, <1>3, <1>5, <1>6, <1>7, <2>1, <3>2, <3>4, <3>6, <3>7 DEF Over
    <3> QED BY <3>8 DEF N
  <2>4. CASE A \cup P \subseteq B
    <3>1. (S \cup P) \cap (L \ B) = D(B)
        BY <2>4
    <3>2. D(B) \cup (S \cap P) \subseteq D(A) /\ D(B) \cap (S \cap P) = {}
        BY <1>2, <2>4
    <3>3. N + Cardinality(S \cap P) <= Cardinality(D(A))
      <4> DEFINE E == D(B) \cup (S \cap P)
      <4>1. Cardinality(E) <= Cardinality(D(A))
          BY <1>4, <3>2, Sizes
      <4>2. Cardinality(E) = Cardinality(D(B)) + Cardinality(S \cap P)
          BY <1>4, <1>5, <3>2, Parts
      <4> QED BY <3>1, <4>1, <4>2
    <3>4. CASE Cardinality(A) = o
        <4> HIDE DEF g, H, D, N
        <4>1. N + Cardinality(H) <= n + Over(o + Limit, Cardinality(B))
            BY <1>1, <1>3, <1>5, <1>6, <1>7, <2>1, <3>3, <3>4 DEF Over
        <4> QED BY <4>1 DEF N
    <3>5. CASE A = L /\ P = {}
        <4>1. Cardinality(B) = Cardinality(A)
            BY <2>4, <3>5
        <4> HIDE DEF g, H, D, N
        <4>2. N + Cardinality(H) <= n + Over(o + Limit, Cardinality(B))
            BY <1>1, <1>3, <1>5, <1>6, <1>7, <2>1, <3>3, <4>1 DEF Over
        <4> QED BY <4>2 DEF N
    <3> QED BY <1>3, <3>4, <3>5
  <2>5. (B \subseteq A \/ A \subseteq B) /\ (B \subseteq A \cup P \/ A \cup P \subseteq B)
      BY <1>2, <1>9, TopsNest
  <2> QED BY <2>2, <2>3, <2>4, <2>5
<1> QED BY <1>8, <1>9 DEF RepeatsOK

-----------------------------------------------------------------------------
(* Types *)

Walk == [list : Lists, pc : {"ready", "listed", "ended"}, offset : Nat, page : SUBSET Ids,
         shown : SUBSET Ids, again : SUBSET Ids, counted : BOOLEAN]

\* What the type invariant says, variable by variable.
LEMMA Types ==
    ASSUME TypeOK
    PROVE  /\ st \in [Ids -> RowState] /\ removed \in [Ids -> Nat] /\ clock \in Nat
           /\ walk \in [Readers -> Walk] /\ steady \in [Readers -> SUBSET Ids]
           /\ left \in [Readers -> Nat] /\ entered \in [Readers -> Nat]
           /\ IsFiniteSet(Ids) /\ Ids \subseteq Nat /\ Limit \in Nat
BY OffsetsAssumption DEF TypeOK, Walk, OffsetsAssumption

\* The rows of a list are finitely many, and their keys are numbers.
LEMMA Rows ==
    ASSUME TypeOK, NEW l \in Lists
    PROVE  /\ On(l) \in SUBSET Ids /\ IsFiniteSet(On(l))
           /\ \A e \in Ids : KeyOf(l)[e] = SortKey(l, e) /\ KeyOf(l)[e] \in Int
<1>1. On(l) \in SUBSET Ids
    BY DEF On
<1>2. \A e \in Ids : KeyOf(l)[e] = SortKey(l, e) /\ SortKey(l, e) \in Int
    BY Types DEF KeyOf, SortKey
<1> QED BY <1>1, <1>2, Types, FS_Subset

\* No two rows of a list have the same key.
LEMMA KeysDiffer ==
    ASSUME TypeOK, StampsOK, NEW l \in Lists, NEW d \in On(l), NEW e \in On(l), d # e
    PROVE  KeyOf(l)[d] # KeyOf(l)[e]
<1>1. d \in Ids /\ e \in Ids
    BY Rows
<1>2. KeyOf(l)[d] = SortKey(l, d) /\ KeyOf(l)[e] = SortKey(l, e)
    BY <1>1, Rows
<1> QED BY <1>1, <1>2 DEF StampsOK, On, SortKey, Lists

\* A walk that begins has missed nothing, and shown nothing.
LEMMA FreshBounds ==
    ASSUME NEW L, IsFiniteSet(L), NEW K, NEW T \in SUBSET L
    PROVE  SkipsOK(L, K, {}, 0, T, 0) /\ RepeatsOK(L, K, {}, 0, {}, 0)
<1>1. ASSUME NEW B \in SUBSET L
      PROVE  /\ Cardinality((T \cap B) \ {}) <= 0 + Over(Cardinality(B), 0)
             /\ Cardinality({} \cap (L \ B)) + Cardinality({}) <= 0 + Over(0, Cardinality(B))
  <2>1. (T \cap B) \ {} \in SUBSET L /\ (T \cap B) \ {} \subseteq B /\ {} \cap (L \ B) = {}
      OBVIOUS
  <2>2. /\ Cardinality((T \cap B) \ {}) \in Nat /\ Cardinality(B) \in Nat
        /\ Cardinality((T \cap B) \ {}) <= Cardinality(B) /\ Cardinality({}) = 0
      BY <2>1, Sizes, FS_EmptySet
  <2> QED BY <2>1, <2>2 DEF Over
<1>2. Cardinality({}) <= 0
    BY FS_EmptySet
<1> QED BY <1>1, <1>2 DEF SkipsOK, RepeatsOK

\* So it may begin anywhere.
LEMMA FirstPageOK ==
    ASSUME TypeOK, NEW l \in Lists, NEW r \in Readers,
           steady[r] = On(l), left[r] = 0, entered[r] = 0
    PROVE  WalkOK(r, FirstPage(l)) /\ FirstPage(l) \in Walk
<1>1. BoundsOK(r, l, {}, 0, {})
    BY Rows, FreshBounds DEF BoundsOK
<1>2. FirstPage(l) \in Walk
    BY DEF FirstPage, Walk, Lists
<1> QED BY <1>1, <1>2 DEF WalkOK, FirstPage

-----------------------------------------------------------------------------
(* Readers *)

\* A reader's step leaves the rows and the histories alone, and so what is said of a walk.
LEMMA SameRows ==
    ASSUME UNCHANGED <<rowVars, steady, left, entered>>
    PROVE  /\ \A l : On(l)' = On(l) /\ KeyOf(l)' = KeyOf(l)
           /\ \A r, w : WalkOK(r, w) => WalkOK(r, w)'
<1>1. \A l : On(l)' = On(l) /\ KeyOf(l)' = KeyOf(l)
    BY DEF rowVars, On, KeyOf, SortKey
<1>2. \A r, l, S, o, G : BoundsOK(r, l, S, o, G) => BoundsOK(r, l, S, o, G)'
    BY <1>1 DEF BoundsOK, SkipsOK, RepeatsOK
<1>3. \A r, w : WalkOK(r, w) => WalkOK(r, w)'
    BY <1>1, <1>2 DEF WalkOK
<1> QED BY <1>1, <1>3

\* A step of one reader.
LEMMA ReaderStep ==
    ASSUME IInv, NEW r \in Readers, NEW w \in Walk, WalkOK(r, w),
           walk' = [walk EXCEPT ![r] = w], UNCHANGED <<rowVars, steady, left, entered>>
    PROVE  IInv'
<1>1. TypeOK'
  <2>1. walk' \in [Readers -> Walk]
      BY Types DEF IInv
  <2> QED BY <2>1 DEF IInv, TypeOK, rowVars, Walk
<1>2. StampsOK'
    BY DEF IInv, StampsOK, rowVars
<1>3. ASSUME NEW q \in Readers
      PROVE  WalkOK(q, walk[q])'
  <2>1. PICK v : v = walk'[q]
      OBVIOUS
  <2>2. WalkOK(q, v)
      BY <2>1, Types DEF IInv
  <2>3. WalkOK(q, v)'
      BY <2>2, SameRows
  <2> QED BY <2>1, <2>3 DEF WalkOK, BoundsOK
<1> QED BY <1>1, <1>2, <1>3 DEF IInv

\* A page: the reader has not shown it yet.
LEMMA ListRowsKeeps ==
    ASSUME IInv, NEW r \in Readers, ListRows(r)
    PROVE  IInv'
<1> DEFINE l == walk[r].list
           o == walk[r].offset
           S == walk[r].shown
           G == walk[r].again
<1>1. /\ walk[r] \in Walk /\ WalkOK(r, walk[r]) /\ walk[r].pc = "ready" /\ TypeOK
      /\ UNCHANGED <<rowVars, steady, left, entered>>
    BY Types DEF IInv, ListRows
<1>2. PICK P \in SUBSET On(l) :
          /\ IsPage(P, On(l), l, o)
          /\ walk' = [walk EXCEPT ![r].pc = "listed", ![r].page = P]
    BY DEF ListRows
<1>3. /\ l \in Lists /\ o \in Nat /\ S \in SUBSET Ids /\ G \in SUBSET Ids
      /\ steady[r] \in SUBSET On(l) /\ left[r] \in Nat /\ entered[r] \in Nat
    BY <1>1, Types DEF Walk, WalkOK
<1>4. On(l) \in SUBSET Ids /\ IsFiniteSet(On(l)) /\ IsFiniteSet(G)
    BY <1>1, <1>3, Rows, Types, FS_Subset
<1>5. \A e \in On(l) : KeyOf(l)[e] = SortKey(l, e) /\ KeyOf(l)[e] \in Int
    BY <1>1, <1>3, Rows
<1>6. PICK A \in SUBSET (On(l) \ P) :
          /\ Cardinality(A) = Smaller(o, Cardinality(On(l)))
          /\ Cardinality(P) = Smaller(Limit, Cardinality(On(l)) - Cardinality(A))
          /\ \A d \in A, e \in On(l) \ A : SortKey(l, d) > SortKey(l, e)
          /\ \A d \in P, e \in On(l) \ (A \cup P) : SortKey(l, d) > SortKey(l, e)
    BY <1>2 DEF IsPage
<1>7. IsCut(A, P, On(l), KeyOf(l), o)
  <2>1. Top(A, On(l), KeyOf(l))
      BY <1>5, <1>6 DEF Top
  <2>2. Top(A \cup P, On(l), KeyOf(l))
      BY <1>5, <1>6 DEF Top
  <2> QED BY <1>6, <2>1, <2>2 DEF IsCut
<1> DEFINE v == [walk[r] EXCEPT !.pc = "listed", !.page = P]
<1>8. /\ v \in Walk /\ v.pc = "listed" /\ v.page = P /\ v.list = l /\ v.offset = o
      /\ v.shown = S /\ v.again = G
    BY <1>1, <1>2, <1>4 DEF Walk
<1>9. walk' = [walk EXCEPT ![r] = v]
    BY <1>1, <1>2 DEF Walk
<1>10. BoundsOK(r, l, S, o, G)
    BY <1>1 DEF WalkOK
<1>11. BoundsOK(r, l, S \cup P, o + Limit, G \cup (S \cap P))
  <2>1. SkipsOK(On(l), KeyOf(l), S \cup P, o + Limit, steady[r], left[r])
      BY <1>3, <1>4, <1>5, <1>7, <1>10, PageSkips DEF BoundsOK
  <2>2. RepeatsOK(On(l), KeyOf(l), S \cup P, o + Limit, G \cup (S \cap P), entered[r])
      BY <1>3, <1>4, <1>5, <1>7, <1>10, PageRepeats DEF BoundsOK
  <2> QED BY <2>1, <2>2 DEF BoundsOK
<1>12. o = 0 /\ Cardinality(P) < Limit => steady[r] \subseteq P
  <2> SUFFICES ASSUME o = 0, Cardinality(P) < Limit
               PROVE  steady[r] \subseteq P
      OBVIOUS
  <2>1. /\ Cardinality(A) \in Nat /\ Cardinality(A) <= o
        /\ A \cup P = On(l) \/ Cardinality(P) = Limit
      BY <1>3, <1>4, <1>7, CutSizes
  <2>2. Cardinality(A) = 0 /\ A \cup P = On(l)
      BY <2>1, Types, <1>1
  <2>3. A = {}
      BY <1>4, <1>6, <2>2, FS_Subset, FS_EmptySet
  <2> QED BY <1>3, <2>2, <2>3
<1> HIDE DEF v, l, o, S, G
<1>13. WalkOK(r, v)
    BY <1>3, <1>8, <1>10, <1>11, <1>12 DEF WalkOK
<1> QED BY <1>1, <1>8, <1>9, <1>13, ReaderStep

\* The whole list is its own top.
LEMMA AtTheEnd ==
    ASSUME TypeOK, NEW r \in Readers, NEW l \in Lists, NEW S, NEW o \in Nat, NEW G,
           steady[r] \subseteq On(l), Cardinality(On(l)) <= o, BoundsOK(r, l, S, o, G)
    PROVE  Cardinality(steady[r] \ S) <= left[r]
<1>1. Top(On(l), On(l), KeyOf(l))
    BY DEF Top
<1>2. Cardinality((steady[r] \cap On(l)) \ S) <= left[r] + Over(Cardinality(On(l)), o)
    BY <1>1 DEF BoundsOK, SkipsOK
<1>3. (steady[r] \cap On(l)) \ S = steady[r] \ S
    OBVIOUS
<1>4. Cardinality(On(l)) \in Nat /\ left[r] \in Nat
    BY Rows, Types, FS_CardinalityType
<1>5. Over(Cardinality(On(l)), o) = 0
    BY <1>4 DEF Over
<1> QED BY <1>2, <1>3, <1>4, <1>5

\* The answer goes out, and the walk goes on or ends: it ends where the total says so,
\* which is that of the list, or of its first page when that is not full.
LEMMA TurnKeeps ==
    ASSUME IInv, NEW r \in Readers, walk[r].pc = "listed", NEW total, NEW counted \in BOOLEAN,
           \/ ~ counted
           \/ total = Cardinality(On(walk[r].list))
           \/ /\ walk[r].list = "entries" /\ walk[r].offset = 0
              /\ Cardinality(walk[r].page) < Limit,
           Turn(r, total, counted), UNCHANGED <<rowVars, steady, left, entered>>
    PROVE  IInv'
<1> DEFINE w == walk[r]
           l == w.list
           o == w.offset + Limit
           S == w.shown \cup w.page
           G == w.again \cup (w.shown \cap w.page)
           v == [w EXCEPT !.pc = IF o < total THEN "ready" ELSE "ended",
                          !.offset = IF o < total THEN o ELSE @,
                          !.page = {}, !.shown = S, !.again = G,
                          !.counted = @ /\ counted]
<1>1. w \in Walk /\ WalkOK(r, w) /\ TypeOK /\ Limit \in Nat
    BY Types DEF IInv
<1>2. /\ l \in Lists /\ w.offset \in Nat /\ o \in Nat /\ S \in SUBSET Ids /\ G \in SUBSET Ids
      /\ w.counted \in BOOLEAN
    BY <1>1 DEF Walk
<1>3. steady[r] \subseteq On(l) /\ BoundsOK(r, l, S, o, G)
    BY <1>1 DEF WalkOK
<1>4. /\ v.list = l /\ v.pc = IF o < total THEN "ready" ELSE "ended"
      /\ v.offset = IF o < total THEN o ELSE w.offset
      /\ v.page = {} /\ v.shown = S /\ v.again = G /\ v.counted = (w.counted /\ counted)
    BY <1>1 DEF Walk
<1>5. v \in Walk
    BY <1>1, <1>2 DEF Walk
<1>6. walk' = [walk EXCEPT ![r] = v]
    BY <1>1, Types DEF IInv, Turn, NextOffset, Walk
<1>7. ASSUME ~ (o < total), v.counted
      PROVE  Cardinality(steady[r] \ S) <= left[r]
  <2>1. CASE total = Cardinality(On(l))
    <3>1. Cardinality(On(l)) <= o
        BY <1>1, <1>2, <1>7, <2>1, Rows, FS_CardinalityType
    <3> QED BY <1>1, <1>2, <1>3, <3>1, AtTheEnd
  <2>2. CASE l = "entries" /\ w.offset = 0 /\ Cardinality(w.page) < Limit
    <3>1. steady[r] \subseteq w.page
        BY <1>1, <2>2 DEF WalkOK
    <3>2. steady[r] \ S = {}
        BY <3>1
    <3>3. left[r] \in Nat /\ Cardinality(steady[r] \ S) = 0
        BY <1>1, <3>2, Types, FS_EmptySet
    <3> QED BY <3>3
  <2> QED BY <1>4, <1>7, <2>1, <2>2
<1>8. Cardinality(G) <= entered[r]
    BY <1>3 DEF BoundsOK, RepeatsOK
<1> HIDE DEF v, S, G, o, l, w
<1>9. WalkOK(r, v)
    BY <1>3, <1>4, <1>7, <1>8 DEF WalkOK
<1> QED BY <1>5, <1>6, <1>9, ReaderStep

\* The total is read.
LEMMA CountRowsKeeps ==
    ASSUME IInv, NEW r \in Readers, CountRows(r)
    PROVE  IInv'
<1>1. walk[r].pc = "listed" /\ UNCHANGED <<rowVars, steady, left, entered>>
    BY DEF CountRows
<1>2. CASE walk[r].list = "entries" /\ walk[r].offset = 0 /\ Cardinality(walk[r].page) < Limit
    <2>1. Turn(r, Cardinality(walk[r].page), TRUE)
        BY <1>2 DEF CountRows
    <2> QED BY <1>1, <1>2, <2>1, TurnKeeps
<1>3. CASE ~ (walk[r].list = "entries" /\ walk[r].offset = 0 /\ Cardinality(walk[r].page) < Limit)
    <2>1. Turn(r, Cardinality(On(walk[r].list)), TRUE)
        BY <1>3 DEF CountRows
    <2> QED BY <1>1, <2>1, TurnKeeps
<1> QED BY <1>2, <1>3

\* The total is not read: the walk ends uncounted, or the page was not shown.
LEMMA CountFailsKeeps ==
    ASSUME IInv, NEW r \in Readers, CountFails(r)
    PROVE  IInv'
<1>1. walk[r].pc = "listed" /\ UNCHANGED <<rowVars, steady, left, entered>>
    BY DEF CountFails
<1>2. CASE walk[r].list = "entries"
    <2>1. Turn(r, Cardinality(walk[r].page), FALSE)
        BY <1>2 DEF CountFails
    <2> QED BY <1>1, <2>1, TurnKeeps
<1>3. CASE walk[r].list # "entries"
    <2> DEFINE v == [walk[r] EXCEPT !.pc = "ready", !.page = {}]
    <2>1. walk[r] \in Walk /\ WalkOK(r, walk[r])
        BY Types DEF IInv
    <2>2. /\ v \in Walk /\ v.pc = "ready" /\ v.list = walk[r].list /\ v.shown = walk[r].shown
          /\ v.offset = walk[r].offset /\ v.again = walk[r].again
        BY <2>1 DEF Walk
    <2>3. walk' = [walk EXCEPT ![r] = v]
        BY <1>3, <2>1 DEF CountFails, Walk
    <2> HIDE DEF v
    <2>4. WalkOK(r, v)
        BY <1>1, <2>1, <2>2 DEF WalkOK
    <2> QED BY <1>1, <2>2, <2>3, <2>4, ReaderStep
<1> QED BY <1>2, <1>3

\* A new walk.
LEMMA RestartKeeps ==
    ASSUME IInv, NEW r \in Readers, Restart(r)
    PROVE  IInv'
<1>1. PICK l \in Lists : walk' = [walk EXCEPT ![r] = FirstPage(l)]
    BY DEF Restart
<1>2. /\ steady' = [steady EXCEPT ![r] = On(walk'[r].list)]
      /\ left' = [left EXCEPT ![r] = 0] /\ entered' = [entered EXCEPT ![r] = 0]
      /\ UNCHANGED rowVars /\ TypeOK
    BY DEF IInv, Restart
<1>3. FirstPage(l) \in Walk /\ FirstPage(l).list = l
    BY DEF FirstPage, Walk, Lists
<1>4. walk'[r] = FirstPage(l) /\ steady'[r] = On(l) /\ left'[r] = 0 /\ entered'[r] = 0
    BY <1>1, <1>2, <1>3, Types
<1>5. TypeOK'
  <2>1. walk' \in [Readers -> Walk]
      BY <1>1, <1>2, <1>3, Types
  <2>2. steady' \in [Readers -> SUBSET Ids]
      BY <1>2, <1>4, Types DEF On
  <2>3. left' \in [Readers -> Nat] /\ entered' \in [Readers -> Nat]
      BY <1>2, Types
  <2> QED BY <1>2, <2>1, <2>2, <2>3 DEF TypeOK, rowVars, Walk
<1>6. StampsOK'
    BY <1>2 DEF IInv, StampsOK, rowVars
<1>7. On(l)' = On(l) /\ \A k : On(k)' = On(k) /\ KeyOf(k)' = KeyOf(k)
    BY <1>2 DEF rowVars, On, KeyOf, SortKey
<1>8. ASSUME NEW q \in Readers
      PROVE  WalkOK(q, walk[q])'
  <2>1. CASE q = r
    <3>1. (steady[q] = On(l) /\ left[q] = 0 /\ entered[q] = 0)'
        BY <1>4, <1>7, <2>1
    <3>2. WalkOK(q, FirstPage(l))'
      <4>1. SkipsOK(On(l), KeyOf(l), {}, 0, On(l), 0) /\ RepeatsOK(On(l), KeyOf(l), {}, 0, {}, 0)
          BY <1>2, Rows, FreshBounds
      <4>2. BoundsOK(q, l, {}, 0, {})'
          BY <1>7, <3>1, <4>1 DEF BoundsOK
      <4> QED BY <3>1, <4>2 DEF WalkOK, FirstPage
    <3> QED BY <1>4, <2>1, <3>2 DEF WalkOK, BoundsOK
  <2>2. CASE q # r
    <3>1. /\ walk'[q] = walk[q] /\ steady'[q] = steady[q]
          /\ left'[q] = left[q] /\ entered'[q] = entered[q]
        BY <1>1, <1>2, <2>2, Types
    <3>2. WalkOK(q, walk[q])
        BY DEF IInv
    <3> QED BY <1>7, <3>1, <3>2 DEF WalkOK, BoundsOK
  <2> QED BY <2>1, <2>2
<1> QED BY <1>5, <1>6, <1>8 DEF IInv

-----------------------------------------------------------------------------
(* The rows *)

\* What a step may do to a list: nothing; one row comes; one row leaves; one row gets
\* another key.
Stays(l) == On(l)' = On(l) /\ KeyOf(l)' = KeyOf(l)
Comes(l, x) ==
    /\ x \in Ids \ On(l) /\ On(l)' = On(l) \cup {x}
    /\ \A e \in On(l) : KeyOf(l)'[e] = KeyOf(l)[e]
Leaves(l, x) ==
    /\ x \in On(l) /\ On(l)' = On(l) \ {x}
    /\ \A e \in On(l) \ {x} : KeyOf(l)'[e] = KeyOf(l)[e]
Moves(l, x) ==
    /\ x \in On(l) /\ On(l)' = On(l)
    /\ \A e \in On(l) : (KeyOf(l)'[e] = KeyOf(l)[e]) <=> e # x

\* What the step makes of the histories of a walk along it.
LEMMA Watched ==
    ASSUME TypeOK, UNCHANGED walk, Watch, NEW r \in Readers, NEW l \in Lists,
           walk[r].list = l, steady[r] \subseteq On(l)
    PROVE  /\ Stays(l) => steady'[r] = steady[r] /\ left'[r] = left[r] /\ entered'[r] = entered[r]
           /\ \A x : Comes(l, x) =>
                 steady'[r] = steady[r] /\ left'[r] = left[r] /\ entered'[r] = entered[r] + 1
           /\ \A x : Leaves(l, x) =>
                 /\ steady'[r] = steady[r] \cap (On(l) \ {x})
                 /\ left'[r] = left[r] + 1 /\ entered'[r] = entered[r]
           /\ \A x : Moves(l, x) =>
                 /\ steady'[r] = steady[r]
                 /\ left'[r] = left[r] + 1 /\ entered'[r] = entered[r] + 1
<1>1. /\ On(walk[r].list) = On(l) /\ On(walk[r].list)' = On(l)'
      /\ Kept(walk[r].list) = {e \in On(l) \cap On(l)' : KeyOf(l)'[e] = KeyOf(l)[e]}
    BY DEF On, Kept, KeyOf, SortKey
<1>2. /\ steady'[r] = steady[r] \cap On(l)'
      /\ left'[r] = left[r] + Cardinality(On(l) \ Kept(walk[r].list))
      /\ entered'[r] = entered[r] + Cardinality(On(l)' \ Kept(walk[r].list))
    BY <1>1 DEF Watch
<1>3. left[r] \in Nat /\ entered[r] \in Nat
    BY Types
<1>4. Cardinality({}) = 0 /\ \A x : Cardinality({x}) = 1
    BY FS_EmptySet, FS_Singleton
<1> DEFINE P == Kept(walk[r].list)
<1>5. ASSUME Stays(l)
      PROVE  steady'[r] = steady[r] /\ left'[r] = left[r] /\ entered'[r] = entered[r]
    <2>1. On(l) \ P = {} /\ On(l)' \ P = {} /\ steady[r] \cap On(l)' = steady[r]
        BY <1>1, <1>5 DEF Stays
    <2>2. Cardinality(On(l) \ P) = 0 /\ Cardinality(On(l)' \ P) = 0
        BY <1>4, <2>1
    <2>3. left'[r] = left[r] + 0 /\ entered'[r] = entered[r] + 0
        BY <1>2, <2>2
    <2> QED BY <1>2, <1>3, <2>1, <2>3
<1>6. ASSUME NEW x, Comes(l, x)
      PROVE  steady'[r] = steady[r] /\ left'[r] = left[r] /\ entered'[r] = entered[r] + 1
    <2>1. On(l) \ P = {} /\ On(l)' \ P = {x} /\ steady[r] \cap On(l)' = steady[r]
        BY <1>1, <1>6 DEF Comes
    <2>2. Cardinality(On(l) \ P) = 0 /\ Cardinality(On(l)' \ P) = 1
        BY <1>4, <2>1
    <2>3. left'[r] = left[r] + 0 /\ entered'[r] = entered[r] + 1
        BY <1>2, <2>2
    <2> QED BY <1>2, <1>3, <2>1, <2>3
<1>7. ASSUME NEW x, Leaves(l, x)
      PROVE  /\ steady'[r] = steady[r] \cap (On(l) \ {x})
             /\ left'[r] = left[r] + 1 /\ entered'[r] = entered[r]
    <2>1. On(l) \ P = {x} /\ On(l)' \ P = {} /\ On(l)' = On(l) \ {x}
        BY <1>1, <1>7 DEF Leaves
    <2>2. Cardinality(On(l) \ P) = 1 /\ Cardinality(On(l)' \ P) = 0
        BY <1>4, <2>1
    <2>3. left'[r] = left[r] + 1 /\ entered'[r] = entered[r] + 0
        BY <1>2, <2>2
    <2> QED BY <1>2, <1>3, <2>1, <2>3
<1>8. ASSUME NEW x, Moves(l, x)
      PROVE  /\ steady'[r] = steady[r]
             /\ left'[r] = left[r] + 1 /\ entered'[r] = entered[r] + 1
    <2>1. On(l) \ P = {x} /\ On(l)' \ P = {x} /\ steady[r] \cap On(l)' = steady[r]
        BY <1>1, <1>8 DEF Moves
    <2>2. Cardinality(On(l) \ P) = 1 /\ Cardinality(On(l)' \ P) = 1
        BY <1>4, <2>1
    <2>3. left'[r] = left[r] + 1 /\ entered'[r] = entered[r] + 1
        BY <1>2, <2>2
    <2> QED BY <1>2, <1>3, <2>1, <2>3
<1> QED BY <1>5, <1>6, <1>7, <1>8

\* The bounds grow with the list's comings and goings.
LEMMA BoundsMove ==
    ASSUME TypeOK, StampsOK, UNCHANGED walk, Watch, NEW r \in Readers, NEW l \in Lists,
           walk[r].list = l, steady[r] \subseteq On(l),
           Stays(l) \/ \E x \in Ids : Comes(l, x) \/ Leaves(l, x) \/ Moves(l, x),
           NEW S, NEW o \in Nat, NEW G \in SUBSET Ids, BoundsOK(r, l, S, o, G)
    PROVE  BoundsOK(r, l, S, o, G)'
<1>1. /\ left[r] \in Nat /\ entered[r] \in Nat /\ IsFiniteSet(G) /\ IsFiniteSet(On(l))
      /\ \A e \in On(l) : KeyOf(l)[e] \in Int
    BY Types, Rows, FS_Subset
<1>2. /\ SkipsOK(On(l), KeyOf(l), S, o, steady[r], left[r])
      /\ RepeatsOK(On(l), KeyOf(l), S, o, G, entered[r])
    BY DEF BoundsOK
<1>3. CASE Stays(l)
    BY <1>2, <1>3, Watched DEF Stays, BoundsOK
<1>4. ASSUME NEW x \in Ids, Comes(l, x)
      PROVE  BoundsOK(r, l, S, o, G)'
    <2>1. PICK L, K, J : L = On(l) /\ K = KeyOf(l) /\ J = KeyOf(l)'
        OBVIOUS
    <2>2. /\ On(l)' = L \cup {x} /\ x \notin L /\ \A e \in L : J[e] = K[e]
        BY <1>4, <2>1 DEF Comes
    <2>3. SkipsOK(L \cup {x}, J, S, o, steady[r], left[r])
        BY <1>1, <1>2, <2>1, <2>2, EnterSkips
    <2>4. RepeatsOK(L \cup {x}, J, S, o, G, entered[r] + 1)
        BY <1>1, <1>2, <2>1, <2>2, EnterRepeats
    <2>5. steady'[r] = steady[r] /\ left'[r] = left[r] /\ entered'[r] = entered[r] + 1
        BY <1>4, Watched
    <2> QED BY <2>1, <2>2, <2>3, <2>4, <2>5 DEF BoundsOK
<1>5. ASSUME NEW x \in Ids, Leaves(l, x)
      PROVE  BoundsOK(r, l, S, o, G)'
    <2>1. PICK L, K, J : L = On(l) /\ K = KeyOf(l) /\ J = KeyOf(l)'
        OBVIOUS
    <2>2. /\ On(l)' = L \ {x} /\ x \in L /\ \A e \in L \ {x} : J[e] = K[e]
        BY <1>5, <2>1 DEF Leaves
    <2>3. \A e \in L \ {x} : K[e] # K[x]
        BY <2>1, <2>2, KeysDiffer
    <2>4. SkipsOK(L \ {x}, J, S, o, steady[r] \cap (L \ {x}), left[r] + 1)
        BY <1>1, <1>2, <2>1, <2>2, <2>3, LeaveSkips
    <2>5. RepeatsOK(L \ {x}, J, S, o, G, entered[r])
        BY <1>1, <1>2, <2>1, <2>2, <2>3, LeaveRepeats
    <2>6. /\ steady'[r] = steady[r] \cap (L \ {x})
          /\ left'[r] = left[r] + 1 /\ entered'[r] = entered[r]
        BY <1>5, <2>1, Watched
    <2> QED BY <2>1, <2>2, <2>4, <2>5, <2>6 DEF BoundsOK
<1>6. ASSUME NEW x \in Ids, Moves(l, x)
      PROVE  BoundsOK(r, l, S, o, G)'
    <2>1. PICK L, K, J : L = On(l) /\ K = KeyOf(l) /\ J = KeyOf(l)'
        OBVIOUS
    <2>2. /\ On(l)' = L /\ x \in L /\ \A e \in L \ {x} : J[e] = K[e]
        BY <1>6, <2>1 DEF Moves
    <2>3. \A e \in L \ {x} : K[e] # K[x]
        BY <2>1, <2>2, KeysDiffer
    <2>4. OnlyMoved(L, x, K, J)
        BY <1>1, <2>1, <2>2, <2>3 DEF OnlyMoved
    <2>5. SkipsOK(L, J, S, o, steady[r], left[r] + 1)
        BY <1>1, <1>2, <2>1, <2>2, <2>4, MoveSkips
    <2>6. RepeatsOK(L, J, S, o, G, entered[r] + 1)
        BY <1>1, <1>2, <2>1, <2>2, <2>4, MoveRepeats
    <2>7. steady'[r] = steady[r] /\ left'[r] = left[r] + 1 /\ entered'[r] = entered[r] + 1
        BY <1>6, Watched
    <2> QED BY <2>1, <2>2, <2>5, <2>6, <2>7 DEF BoundsOK
<1> QED BY <1>3, <1>4, <1>5, <1>6

\* So each walk stays within its bounds.
LEMMA WalkMoves ==
    ASSUME TypeOK, StampsOK, UNCHANGED walk, Watch, NEW r \in Readers,
           WalkOK(r, walk[r]),
           \A l \in Lists : Stays(l) \/ \E x \in Ids : Comes(l, x) \/ Leaves(l, x) \/ Moves(l, x)
    PROVE  /\ WalkOK(r, walk[r])'
           /\ steady'[r] \in SUBSET Ids /\ left'[r] \in Nat /\ entered'[r] \in Nat
<1>1. walk[r] \in Walk /\ IsFiniteSet(Ids) /\ Limit \in Nat
    BY Types
<1>2. PICK w \in Walk, l \in Lists : w = walk[r] /\ l = w.list
    BY <1>1 DEF Walk
<1>3. /\ w.offset \in Nat /\ w.shown \in SUBSET Ids /\ w.page \in SUBSET Ids
      /\ w.again \in SUBSET Ids /\ steady[r] \in SUBSET Ids /\ left[r] \in Nat /\ entered[r] \in Nat
    BY <1>2, Types DEF Walk
<1>4. steady[r] \subseteq On(l) /\ walk[r].list = l /\ WalkOK(r, w)
    BY <1>2 DEF WalkOK
<1>5. ASSUME NEW S, NEW o \in Nat, NEW G \in SUBSET Ids, BoundsOK(r, l, S, o, G)
      PROVE  BoundsOK(r, l, S, o, G)'
    BY <1>4, <1>5, BoundsMove
<1>6. /\ steady'[r] \subseteq steady[r] /\ steady'[r] \subseteq On(l)'
      /\ left'[r] \in Nat /\ entered'[r] \in Nat
      /\ left[r] <= left'[r] /\ entered[r] <= entered'[r]
    <2>1. steady'[r] \subseteq On(l)'
        BY <1>4 DEF Watch, On
    <2>2. \/ steady'[r] = steady[r] /\ left'[r] = left[r] /\ entered'[r] = entered[r]
          \/ steady'[r] = steady[r] /\ left'[r] = left[r] /\ entered'[r] = entered[r] + 1
          \/ \E x : /\ steady'[r] = steady[r] \cap (On(l) \ {x})
                    /\ left'[r] = left[r] + 1 /\ entered'[r] = entered[r]
          \/ steady'[r] = steady[r] /\ left'[r] = left[r] + 1 /\ entered'[r] = entered[r] + 1
        BY <1>4, Watched
    <2>3. steady'[r] \subseteq steady[r]
        BY <2>2
    <2>4. /\ left'[r] \in Nat /\ entered'[r] \in Nat
          /\ left[r] <= left'[r] /\ entered[r] <= entered'[r]
        BY <1>3, <2>2
    <2> QED BY <2>1, <2>3, <2>4
<1>7. w.pc # "ended" => BoundsOK(r, l, w.shown, w.offset, w.again)'
    BY <1>2, <1>3, <1>4, <1>5 DEF WalkOK
<1>8. w.pc = "listed" =>
          BoundsOK(r, l, w.shown \cup w.page, w.offset + Limit, w.again \cup (w.shown \cap w.page))'
  <2>1. w.offset + Limit \in Nat /\ w.again \cup (w.shown \cap w.page) \in SUBSET Ids
      BY <1>1, <1>3
  <2> QED BY <1>2, <1>4, <1>5, <2>1 DEF WalkOK
<1>9. ASSUME w.pc = "ended"
      PROVE  /\ Cardinality(w.again) <= entered'[r]
             /\ w.counted => Cardinality(steady'[r] \ w.shown) <= left'[r]
  <2>1. /\ Cardinality(w.again) <= entered[r]
        /\ w.counted => Cardinality(steady[r] \ w.shown) <= left[r]
      BY <1>4, <1>9 DEF WalkOK
  <2>2. /\ steady[r] \ w.shown \in SUBSET Ids /\ steady'[r] \ w.shown \in SUBSET Ids
        /\ steady'[r] \ w.shown \subseteq steady[r] \ w.shown
      BY <1>3, <1>6
  <2>3. /\ Cardinality(steady[r] \ w.shown) \in Nat /\ Cardinality(steady'[r] \ w.shown) \in Nat
        /\ Cardinality(steady'[r] \ w.shown) <= Cardinality(steady[r] \ w.shown)
        /\ Cardinality(w.again) \in Nat
      BY <1>1, <1>3, <2>2, Sizes
  <2> QED BY <1>3, <1>6, <2>1, <2>3
<1>10. WalkOK(r, w)'
  <2>1. w.pc = "listed" /\ w.list = "entries" /\ w.offset = 0 /\ Cardinality(w.page) < Limit =>
            steady'[r] \subseteq w.page
      BY <1>4, <1>6 DEF WalkOK
  <2> QED BY <1>2, <1>6, <1>7, <1>8, <1>9, <2>1 DEF WalkOK
<1> QED BY <1>2, <1>3, <1>6, <1>10 DEF WalkOK, BoundsOK

\* A step of the rows.
LEMMA RowsStep ==
    ASSUME IInv, st' \in [Ids -> RowState], removed' \in [Ids -> Nat], clock' \in Nat,
           StampsOK', UNCHANGED walk, Watch,
           \A l \in Lists : Stays(l) \/ \E x \in Ids : Comes(l, x) \/ Leaves(l, x) \/ Moves(l, x)
    PROVE  IInv'
<1>1. ASSUME NEW r \in Readers
      PROVE  /\ WalkOK(r, walk[r])'
             /\ steady'[r] \in SUBSET Ids /\ left'[r] \in Nat /\ entered'[r] \in Nat
    BY WalkMoves DEF IInv
<1>2. /\ steady' \in [Readers -> SUBSET Ids]
      /\ left' \in [Readers -> Nat] /\ entered' \in [Readers -> Nat]
    BY <1>1 DEF Watch
<1>3. TypeOK'
    BY <1>2 DEF IInv, TypeOK
<1> QED BY <1>1, <1>3 DEF IInv

\* An entry is posted: it comes onto the agent's list.
LEMMA InsertKeeps ==
    ASSUME IInv, NEW e \in Ids, InsertEntry(e)
    PROVE  IInv'
<1>1. /\ st \in [Ids -> RowState] /\ removed \in [Ids -> Nat] /\ clock \in Nat
      /\ st[e] = "none" /\ st' = [st EXCEPT ![e] = "live"]
      /\ UNCHANGED <<removed, clock, walk>> /\ Watch
    BY Types DEF IInv, InsertEntry
<1>2. st' \in [Ids -> RowState] /\ StampsOK'
    BY <1>1 DEF IInv, StampsOK, RowState
<1>3. \A l : KeyOf(l)' = KeyOf(l)
    BY <1>1 DEF KeyOf, SortKey
<1>4. On("entries")' = On("entries") \cup {e} /\ e \notin On("entries") /\ On("bin")' = On("bin")
    BY <1>1 DEF On
<1>5. Stays("bin") /\ Comes("entries", e)
    BY <1>3, <1>4 DEF Stays, Comes
<1>6. \A l \in Lists : Stays(l) \/ \E x \in Ids : Comes(l, x) \/ Leaves(l, x) \/ Moves(l, x)
    BY <1>5 DEF Lists
<1> QED BY <1>1, <1>2, <1>6, RowsStep

\* An entry is binned: it leaves the one list for the other, or, if it is there already,
\* it moves.
LEMMA SoftDeleteKeeps ==
    ASSUME IInv, NEW e \in Ids, SoftDeleteEntry(e)
    PROVE  IInv'
<1>1. PICK s \in 1..(clock + 1) :
         /\ st \in [Ids -> RowState] /\ removed \in [Ids -> Nat] /\ clock \in Nat
         /\ st[e] \in {"live", "binned"} /\ st' = [st EXCEPT ![e] = "binned"]
         /\ clock' = clock + 1 /\ \A d \in Ids : removed[d] # s
         /\ removed' = [removed EXCEPT ![e] = s] /\ UNCHANGED walk /\ Watch
    BY Types DEF IInv, SoftDeleteEntry
<1>2. st' \in [Ids -> RowState] /\ removed' \in [Ids -> Nat] /\ clock' \in Nat
    BY <1>1 DEF RowState
<1>3. StampsOK'
    BY <1>1 DEF IInv, StampsOK
<1>4. /\ KeyOf("entries")' = KeyOf("entries")
      /\ \A d \in Ids \ {e} : KeyOf("bin")'[d] = KeyOf("bin")[d]
      /\ KeyOf("bin")'[e] # KeyOf("bin")[e]
    BY <1>1 DEF KeyOf, SortKey
<1>5. ASSUME st[e] = "live"
      PROVE  \A l \in Lists : Stays(l) \/ \E x \in Ids : Comes(l, x) \/ Leaves(l, x) \/ Moves(l, x)
    <2>1. /\ On("entries")' = On("entries") \ {e} /\ e \in On("entries")
          /\ On("bin")' = On("bin") \cup {e} /\ e \notin On("bin") /\ On("bin") \subseteq Ids
        BY <1>1, <1>5 DEF On
    <2>2. Leaves("entries", e) /\ Comes("bin", e)
        BY <1>4, <2>1 DEF Leaves, Comes
    <2> QED BY <2>2 DEF Lists
<1>6. ASSUME st[e] = "binned"
      PROVE  \A l \in Lists : Stays(l) \/ \E x \in Ids : Comes(l, x) \/ Leaves(l, x) \/ Moves(l, x)
    <2>1. /\ On("entries")' = On("entries")
          /\ On("bin")' = On("bin") /\ e \in On("bin") /\ On("bin") \subseteq Ids
        BY <1>1, <1>6 DEF On
    <2>2. Stays("entries") /\ Moves("bin", e)
        BY <1>4, <2>1 DEF Stays, Moves
    <2> QED BY <2>2 DEF Lists
<1>7. \A l \in Lists : Stays(l) \/ \E x \in Ids : Comes(l, x) \/ Leaves(l, x) \/ Moves(l, x)
    BY <1>1, <1>5, <1>6 DEF Lists
<1> QED BY <1>1, <1>2, <1>3, <1>7, RowsStep

\* An entry is restored: it goes back, without a stamp.
LEMMA RestoreKeeps ==
    ASSUME IInv, NEW e \in Ids, RestoreEntry(e)
    PROVE  IInv'
<1>1. /\ st \in [Ids -> RowState] /\ removed \in [Ids -> Nat] /\ clock \in Nat
      /\ st[e] = "binned" /\ st' = [st EXCEPT ![e] = "live"]
      /\ removed' = [removed EXCEPT ![e] = 0] /\ UNCHANGED <<clock, walk>> /\ Watch
    BY Types DEF IInv, RestoreEntry
<1>2. st' \in [Ids -> RowState] /\ removed' \in [Ids -> Nat]
    BY <1>1 DEF RowState
<1>3. StampsOK'
    BY <1>1 DEF IInv, StampsOK
<1>4. /\ KeyOf("entries")' = KeyOf("entries")
      /\ \A d \in Ids \ {e} : KeyOf("bin")'[d] = KeyOf("bin")[d]
    BY <1>1 DEF KeyOf, SortKey
<1>5. /\ On("bin")' = On("bin") \ {e} /\ e \in On("bin") /\ On("bin") \subseteq Ids
      /\ On("entries")' = On("entries") \cup {e} /\ e \notin On("entries")
    BY <1>1 DEF On
<1>6. Comes("entries", e) /\ Leaves("bin", e)
    BY <1>4, <1>5 DEF Leaves, Comes
<1>7. \A l \in Lists : Stays(l) \/ \E x \in Ids : Comes(l, x) \/ Leaves(l, x) \/ Moves(l, x)
    BY <1>6 DEF Lists
<1> QED BY <1>1, <1>2, <1>3, <1>7, RowsStep

\* An entry is purged: it leaves the bin, or the agent's list.
LEMMA PurgeKeeps ==
    ASSUME IInv, NEW e \in Ids, PurgeEntry(e)
    PROVE  IInv'
<1>1. /\ st \in [Ids -> RowState] /\ removed \in [Ids -> Nat] /\ clock \in Nat
      /\ st[e] \in {"live", "binned"} /\ st' = [st EXCEPT ![e] = "purged"]
      /\ UNCHANGED <<removed, clock, walk>> /\ Watch
    BY Types DEF IInv, PurgeEntry
<1>2. st' \in [Ids -> RowState] /\ StampsOK'
    BY <1>1 DEF IInv, StampsOK, RowState
<1>3. \A l : KeyOf(l)' = KeyOf(l)
    BY <1>1 DEF KeyOf, SortKey
<1>4. PICK l \in Lists, k \in Lists :
         k # l /\ st[e] = IF l = "entries" THEN "live" ELSE "binned"
    BY <1>1 DEF Lists
<1>5. On(l)' = On(l) \ {e} /\ e \in On(l) /\ On(k)' = On(k)
    BY <1>1, <1>4 DEF On, Lists
<1>6. Leaves(l, e) /\ Stays(k)
    BY <1>3, <1>5 DEF Stays, Leaves
<1>7. \A j \in Lists : Stays(j) \/ \E x \in Ids : Comes(j, x) \/ Leaves(j, x) \/ Moves(j, x)
    BY <1>4, <1>6 DEF Lists
<1> QED BY <1>1, <1>2, <1>7, RowsStep

-----------------------------------------------------------------------------
(* All steps *)

\* The invariant holds initially.
LEMMA InitIInv == Init => IInv
<1> SUFFICES ASSUME Init
             PROVE  IInv
    OBVIOUS
<1>1. Ids \subseteq Nat
    BY OffsetsAssumption DEF OffsetsAssumption
<1>2. st \in [Ids -> RowState] /\ removed \in [Ids -> Nat] /\ clock \in Nat
    BY <1>1 DEF Init, RowState
<1>3. StampsOK
    BY <1>1 DEF Init, StampsOK
<1>4. walk \in [Readers -> Walk]
  <2>1. \A l \in Lists : FirstPage(l) \in Walk
      BY DEF FirstPage, Walk
  <2> QED BY <2>1 DEF Init
<1>5. /\ steady \in [Readers -> SUBSET Ids] /\ left \in [Readers -> Nat]
      /\ entered \in [Readers -> Nat]
    BY DEF Init, On
<1>6. TypeOK
    BY <1>2, <1>4, <1>5 DEF TypeOK, Walk
<1>7. ASSUME NEW r \in Readers
      PROVE  WalkOK(r, walk[r])
    <2>1. PICK l \in Lists : walk[r] = FirstPage(l)
        BY DEF Init
    <2>2. steady[r] = On(l) /\ left[r] = 0 /\ entered[r] = 0
        BY <2>1 DEF Init, FirstPage
    <2> QED BY <1>6, <2>1, <2>2, FirstPageOK
<1> QED BY <1>3, <1>6, <1>7 DEF IInv

\* Every step keeps the invariant.
LEMMA NextIInv == IInv /\ [Next]_vars => IInv'
<1> SUFFICES ASSUME IInv, [Next]_vars
             PROVE  IInv'
    OBVIOUS
<1>1. ASSUME NEW r \in Readers, ListRows(r) \/ CountRows(r) \/ CountFails(r) \/ Restart(r)
      PROVE  IInv'
    BY <1>1, ListRowsKeeps, CountRowsKeeps, CountFailsKeeps, RestartKeeps
<1>2. ASSUME NEW e \in Ids,
             InsertEntry(e) \/ SoftDeleteEntry(e) \/ RestoreEntry(e) \/ PurgeEntry(e)
      PROVE  IInv'
    BY <1>2, InsertKeeps, SoftDeleteKeeps, RestoreKeeps, PurgeKeeps
<1>3. CASE UNCHANGED vars
  <2>1. UNCHANGED <<rowVars, steady, left, entered>> /\ walk' = walk
      BY <1>3 DEF vars, rowVars
  <2>2. TypeOK' /\ StampsOK'
      BY <1>3 DEF vars, IInv, TypeOK, StampsOK
  <2>3. ASSUME NEW r \in Readers
        PROVE  WalkOK(r, walk[r])'
      BY <2>1, SameRows DEF IInv, WalkOK, BoundsOK
  <2> QED BY <2>2, <2>3 DEF IInv
<1> QED BY <1>1, <1>2, <1>3 DEF Next

\* The invariant holds always.
LEMMA Invariant == Spec => []IInv
BY InitIInv, NextIInv, PTL DEF Spec

\* Every variable has its type.
THEOREM TypeCorrect == Spec => []TypeOK
<1>1. IInv => TypeOK
    BY DEF IInv
<1> QED BY <1>1, Invariant, PTL

\* A walk by offset that has ended, and whose totals were counted, has missed no more of
\* what was there all along than rows have left their place meanwhile, whatever is posted,
\* binned, binned twice, restored and purged.
THEOREM SkipsAreBounded == Spec => []SkipsBounded
<1>1. IInv => SkipsBounded
    BY DEF IInv, SkipsBounded, Ended, Missed, WalkOK
<1> QED BY <1>1, Invariant, PTL

\* It shows no more rows a second time than have come to a place meanwhile, onto the list
\* or within it.
THEOREM RepeatsAreBounded == Spec => []RepeatsBounded
<1>1. ASSUME IInv, NEW r \in Readers
      PROVE  Cardinality(walk[r].again) <= entered[r]
    BY <1>1 DEF IInv, WalkOK, BoundsOK, RepeatsOK
<1>2. IInv => RepeatsBounded
    BY <1>1 DEF RepeatsBounded
<1> QED BY <1>2, Invariant, PTL

=============================================================================
