--------------------------- MODULE RedisCacheProofs ---------------------------
(***************************************************************************)
(* Theorems about the two parts of redis_cache.py: ResultCache, with the   *)
(* reads of ServingReads, for all articles, tickers, sizes and bounds, and *)
(* RateLimiter, for every limit and window.                                *)
(*                                                                         *)
(* The first part is about NewestOf, the trimming of a sorted set and      *)
(* ORDER BY ... LIMIT of a query; the second about the steps of            *)
(* cache_results; the third about the rate limiter: no window is overfull  *)
(* while Redis keeps the key, and only a client that has not rested is     *)
(* refused.                                                                *)
(***************************************************************************)
EXTENDS ServingReads, RateLimiter, FiniteSetTheorems, FunctionTheorems, TLAPS

Pairs == Nat \X Nat
Above(S, m) == {k \in S : Newer(k, m)}
-----------------------------------------------------------------------------
\* Newer is a strict total order of the members.
LEMMA NewerIsOrder ==
    ASSUME NEW a \in Pairs, NEW b \in Pairs, NEW c \in Pairs
    PROVE  /\ ~Newer(a, a)
           /\ Newer(a, b) => ~Newer(b, a)
           /\ Newer(a, b) /\ Newer(b, c) => Newer(a, c)
           /\ a = b \/ Newer(a, b) \/ Newer(b, a)
BY DEF Pairs, Newer

\* Of two members of a set, fewer lie above the newer one.
LEMMA FewerAbove ==
    ASSUME NEW S \in SUBSET Pairs, IsFiniteSet(S),
           NEW a \in S, NEW b \in S, Newer(a, b)
    PROVE  /\ Cardinality(Above(S, a)) < Cardinality(Above(S, b))
           /\ Cardinality(Above(S, b)) < Cardinality(S)
<1>1. Above(S, a) \subseteq Above(S, b) \ {a}
  <2> SUFFICES ASSUME NEW k \in S, Newer(k, a)  PROVE Newer(k, b) /\ k # a
    BY DEF Above
  <2> QED  BY NewerIsOrder
<1>2. a \in Above(S, b) /\ b \notin Above(S, b)
  BY NewerIsOrder DEF Above
<1>3. IsFiniteSet(Above(S, b)) /\ IsFiniteSet(S \ {b})
  BY FS_Subset, FS_Difference DEF Above
<1>4. Cardinality(Above(S, b) \ {a}) = Cardinality(Above(S, b)) - 1 /\ IsFiniteSet(Above(S, b) \ {a})
  BY <1>2, <1>3, FS_RemoveElement
<1>5. Cardinality(Above(S, a)) <= Cardinality(Above(S, b) \ {a})
  BY <1>1, <1>4, FS_Subset
<1>6. Cardinality(Above(S, b)) <= Cardinality(S \ {b})
  BY <1>2, <1>3, FS_Subset DEF Above
<1>7. Cardinality(S \ {b}) = Cardinality(S) - 1
  BY FS_RemoveElement
<1>8. /\ Cardinality(Above(S, a)) \in Nat /\ Cardinality(Above(S, b)) \in Nat
      /\ Cardinality(S) \in Nat
  <2>1. IsFiniteSet(Above(S, a))
    BY <1>1, <1>4, FS_Subset
  <2> QED  BY <2>1, <1>3, FS_CardinalityType
<1> QED  BY <1>4, <1>5, <1>6, <1>7, <1>8

\* Fewer lie above a member than the set has members.
LEMMA AboveBound ==
    ASSUME NEW S \in SUBSET Pairs, IsFiniteSet(S), NEW a \in S
    PROVE  /\ IsFiniteSet(Above(S, a))
           /\ Cardinality(Above(S, a)) \in Nat
           /\ Cardinality(Above(S, a)) < Cardinality(S)
<1>1. a \notin Above(S, a)
  BY NewerIsOrder DEF Above
<1>2. IsFiniteSet(S \ {a}) /\ Cardinality(S \ {a}) = Cardinality(S) - 1
  BY FS_RemoveElement
<1>3. Above(S, a) \subseteq S \ {a}
  BY <1>1 DEF Above
<1>4. IsFiniteSet(Above(S, a)) /\ Cardinality(Above(S, a)) <= Cardinality(S \ {a})
  BY <1>2, <1>3, FS_Subset
<1>5. Cardinality(Above(S, a)) \in Nat /\ Cardinality(S) \in Nat
  BY <1>4, FS_CardinalityType
<1> QED  BY <1>2, <1>4, <1>5

\* There are n places below n.
LEMMA PlacesBelow ==
    ASSUME NEW n \in Nat
    PROVE  IsFiniteSet(0 .. n - 1) /\ Cardinality(0 .. n - 1) = n
<1>1. n - 1 \in Int
  OBVIOUS
<1>2. IsFiniteSet(0 .. n - 1) /\ Cardinality(0 .. n - 1) = IF 0 > n - 1 THEN 0 ELSE n - 1 - 0 + 1
  BY <1>1, FS_Interval
<1> QED  BY <1>2

\* A member of a set that is not among the n newest has exactly these n above
\* it, and they are n.
LEMMA LeftOutBelow ==
    ASSUME NEW S \in SUBSET Pairs, IsFiniteSet(S), NEW n \in Nat,
           NEW m \in S \ NewestOf(S, n)
    PROVE  /\ Above(NewestOf(S, n), m) = NewestOf(S, n)
           /\ Cardinality(NewestOf(S, n)) = n
<1> DEFINE N == Cardinality(S)
           T == NewestOf(S, n)
           rank == [k \in S |-> Cardinality(Above(S, k))]
           place == [k \in T |-> rank[k]]
<1>1. T = {k \in S : rank[k] < n}
  BY DEF NewestOf, Above
<1>2. N \in Nat
  BY FS_CardinalityType
<1>3. \A k \in S : rank[k] \in Nat /\ rank[k] < N
  BY AboveBound
<1>4. \A j, k \in S : Newer(j, k) => rank[j] < rank[k]
  BY FewerAbove
<1>5. rank[m] \in Nat /\ n <= rank[m] /\ n < N
  BY <1>1, <1>2, <1>3
<1> HIDE DEF rank, T
<1>6. \A j, k \in S : rank[j] = rank[k] => j = k
  <2> SUFFICES ASSUME NEW j \in S, NEW k \in S, rank[j] = rank[k], j # k
               PROVE  FALSE
    OBVIOUS
  <2>1. Newer(j, k) \/ Newer(k, j)
    BY NewerIsOrder
  <2> QED  BY <2>1, <1>3, <1>4
<1>7. \A k \in T : Newer(k, m)
  <2> SUFFICES ASSUME NEW k \in T, ~Newer(k, m)  PROVE FALSE
    OBVIOUS
  <2>1. k \in S /\ rank[k] < n /\ rank[k] \in Nat
    BY <1>1, <1>3
  <2>2. k # m
    BY <2>1, <1>5
  <2>3. Newer(m, k)
    BY <2>1, <2>2, NewerIsOrder
  <2>4. rank[m] < rank[k]
    BY <2>1, <2>3, <1>4
  <2> QED  BY <2>1, <2>4, <1>5
<1>8. \E f \in Bijection(S, 0 .. N - 1) : \A k \in S : f[k] = rank[k]
  <2>1. rank \in [S -> 0 .. N - 1]
    BY <1>2, <1>3 DEF rank
  <2>2. rank \in Injection(S, 0 .. N - 1)
    BY <2>1, <1>6 DEF Injection, IsInjective
  <2>3. IsFiniteSet(0 .. N - 1) /\ Cardinality(0 .. N - 1) = N
    BY <1>2, PlacesBelow
  <2>4. rank \in Surjection(S, 0 .. N - 1)
    BY <2>2, <2>3, FS_Injection
  <2> QED  BY <2>2, <2>4 DEF Bijection
<1>9. place \in Bijection(T, 0 .. n - 1)
  <2>1. place \in [T -> 0 .. n - 1]
    BY <1>1, <1>3
  <2>2. \A j, k \in T : place[j] = place[k] => j = k
    BY <1>1, <1>6
  <2>3. \A i \in 0 .. n - 1 : \E k \in T : place[k] = i
    <3> SUFFICES ASSUME NEW i \in 0 .. n - 1  PROVE \E k \in T : place[k] = i
      OBVIOUS
    <3>1. i \in 0 .. N - 1
      BY <1>2, <1>5
    <3>2. PICK f \in Bijection(S, 0 .. N - 1) : \A k \in S : f[k] = rank[k]
      BY <1>8
    <3>3. PICK k \in S : f[k] = i
      BY <3>1, <3>2 DEF Bijection, Surjection
    <3>4. rank[k] = i /\ i < n
      BY <3>2, <3>3
    <3> QED  BY <3>4, <1>1
  <2> HIDE DEF place
  <2> QED  BY <2>1, <2>2, <2>3 DEF Bijection, Injection, IsInjective, Surjection
<1>10. Cardinality(T) = n
  <2>1. IsFiniteSet(0 .. n - 1) /\ Cardinality(0 .. n - 1) = n
    BY PlacesBelow
  <2>2. IsFiniteSet(T)
    BY <1>1, FS_Subset
  <2>3. ExistsBijection(T, 0 .. n - 1)
    BY <1>9 DEF ExistsBijection
  <2> QED  BY <2>1, <2>2, <2>3, FS_Bijection
<1>11. Above(T, m) = T
  BY <1>7 DEF Above
<1> QED  BY <1>10, <1>11 DEF T

\* What lies above one of the newest is among them.
LEMMA NewestUpwardClosed ==
    ASSUME NEW S \in SUBSET Pairs, IsFiniteSet(S), NEW n \in Nat,
           NEW m \in NewestOf(S, n)
    PROVE  Above(S, m) \subseteq NewestOf(S, n)
<1> SUFFICES ASSUME NEW k \in S, Newer(k, m)
             PROVE  Cardinality(Above(S, k)) < n
  BY DEF Above, NewestOf
<1>1. m \in S /\ Cardinality(Above(S, m)) < n
  BY DEF NewestOf, Above
<1>2. Cardinality(Above(S, k)) < Cardinality(Above(S, m))
  BY <1>1, FewerAbove
<1>3. Cardinality(Above(S, k)) \in Nat /\ Cardinality(Above(S, m)) \in Nat
  BY <1>1, AboveBound
<1> QED  BY <1>1, <1>2, <1>3

\* The n newest of the m newest are the n newest, for n <= m: a page of the
\* trimmed list is a page of the whole list.
LEMMA PageOfTrimmed ==
    ASSUME NEW S \in SUBSET Pairs, IsFiniteSet(S),
           NEW n \in Nat, NEW l \in Nat, n <= l
    PROVE  NewestOf(NewestOf(S, l), n) = NewestOf(S, n)
<1> DEFINE T == NewestOf(S, l)
<1>1. T \subseteq S
  BY DEF NewestOf
<1>2. \A m \in T : Above(T, m) = Above(S, m)
  <2> SUFFICES ASSUME NEW m \in T  PROVE Above(T, m) = Above(S, m)
    OBVIOUS
  <2>1. Above(S, m) \subseteq T
    BY NewestUpwardClosed
  <2> QED  BY <2>1, <1>1 DEF Above
<1>3. NewestOf(S, n) \subseteq T
  <2> SUFFICES ASSUME NEW m \in S, Cardinality(Above(S, m)) < n
               PROVE  Cardinality(Above(S, m)) < l
    BY DEF NewestOf, Above
  <2>1. Cardinality(Above(S, m)) \in Nat
    BY AboveBound
  <2> QED  BY <2>1
<1>4. NewestOf(T, n) = {m \in T : Cardinality(Above(T, m)) < n}
  BY DEF NewestOf, Above
<1>5. NewestOf(S, n) = {m \in S : Cardinality(Above(S, m)) < n}
  BY DEF NewestOf, Above
<1> HIDE DEF T
<1>6. NewestOf(T, n) = NewestOf(S, n)
  BY <1>1, <1>2, <1>3, <1>4, <1>5
<1> QED  BY <1>6 DEF T

\* Trimming, adding and trimming again is adding and trimming once.
LEMMA TrimOnce ==
    ASSUME NEW S \in SUBSET Pairs, IsFiniteSet(S),
           NEW B \in SUBSET Pairs, IsFiniteSet(B), NEW n \in Nat
    PROVE  NewestOf(NewestOf(S, n) \union B, n) = NewestOf(S \union B, n)
<1> DEFINE T == NewestOf(S, n)
           U == T \union B
           W == S \union B
<1>1. T \subseteq S /\ T = {m \in S : Cardinality(Above(S, m)) < n}
  BY DEF NewestOf, Above
<1>2. NewestOf(U, n) = {m \in U : Cardinality(Above(U, m)) < n}
  BY DEF NewestOf, Above
<1>3. NewestOf(W, n) = {m \in W : Cardinality(Above(W, m)) < n}
  BY DEF NewestOf, Above
<1>4. W \in SUBSET Pairs /\ IsFiniteSet(W) /\ U \subseteq W /\ IsFiniteSet(U)
  <2>1. IsFiniteSet(W)
    BY FS_Union
  <2> QED  BY <1>1, <2>1, FS_Subset
<1> HIDE DEF T
<1>5. ASSUME NEW m \in W
      PROVE  /\ IsFiniteSet(Above(W, m)) /\ Cardinality(Above(W, m)) \in Nat
             /\ IsFiniteSet(Above(U, m)) /\ Cardinality(Above(U, m)) \in Nat
             /\ Cardinality(Above(U, m)) <= Cardinality(Above(W, m))
  <2>1. IsFiniteSet(Above(W, m)) /\ Cardinality(Above(W, m)) \in Nat
    BY <1>4, AboveBound
  <2>2. Above(U, m) \subseteq Above(W, m)
    BY <1>4 DEF Above
  <2> QED  BY <2>1, <2>2, FS_Subset, FS_CardinalityType
<1>6. ASSUME NEW m \in NewestOf(W, n)  PROVE m \in NewestOf(U, n)
  <2>1. m \in W /\ Cardinality(Above(W, m)) < n
    BY <1>3
  <2>2. Cardinality(Above(U, m)) < n
    BY <2>1, <1>5
  <2>3. CASE m \in S
    <3>1. Above(S, m) \subseteq Above(W, m)
      BY DEF Above
    <3>2. Cardinality(Above(S, m)) <= Cardinality(Above(W, m))
      BY <3>1, <2>1, <1>5, FS_Subset
    <3>3. Cardinality(Above(S, m)) \in Nat
      BY <2>3, AboveBound
    <3>4. Cardinality(Above(S, m)) < n
      BY <3>2, <3>3, <2>1, <1>5
    <3>5. m \in T
      BY <3>4, <2>3, <1>1
    <3> QED  BY <3>5, <2>2, <1>2
  <2>4. CASE m \in B
    BY <2>2, <2>4, <1>2
  <2> QED  BY <2>1, <2>3, <2>4
<1>7. ASSUME NEW m \in NewestOf(U, n)  PROVE m \in NewestOf(W, n)
  <2>1. m \in U /\ m \in W /\ Cardinality(Above(U, m)) < n
    BY <1>2, <1>4
  <2>2. Above(W, m) \subseteq U
    <3> SUFFICES ASSUME NEW k \in S \ T, Newer(k, m)  PROVE FALSE
      BY <2>1 DEF Above
    <3>1. Above(T, k) = T /\ Cardinality(T) = n
      BY LeftOutBelow DEF T
    <3>2. T \subseteq Above(U, m)
      <4> SUFFICES ASSUME NEW j \in T  PROVE Newer(j, m)
        BY DEF Above
      <4>1. Newer(j, k)
        BY <3>1 DEF Above
      <4>2. j \in Pairs /\ k \in Pairs /\ m \in Pairs
        BY <1>1, <1>4, <2>1
      <4> QED  BY <4>1, <4>2, NewerIsOrder
    <3>3. IsFiniteSet(Above(U, m)) /\ Cardinality(Above(U, m)) \in Nat
      BY <2>1, <1>5
    <3>4. Cardinality(T) <= Cardinality(Above(U, m))
      BY <3>2, <3>3, FS_Subset
    <3> QED  BY <3>1, <3>3, <3>4, <2>1
  <2>3. Above(W, m) = Above(U, m)
    BY <2>2, <1>4 DEF Above
  <2> QED  BY <2>1, <2>3, <1>3
<1>8. NewestOf(U, n) = NewestOf(W, n)
  BY <1>6, <1>7
<1> QED  BY <1>8 DEF T
-----------------------------------------------------------------------------
\* Pairing with one call number does not change the size of a set.
LEMMA PairedSize ==
    ASSUME NEW I, IsFiniteSet(I), NEW c
    PROVE  IsFiniteSet(I \X {c}) /\ Cardinality(I \X {c}) = Cardinality(I)
<1>1. IsFiniteSet({c}) /\ Cardinality({c}) = 1
  BY FS_Singleton
<1>2. IsFiniteSet(I \X {c}) /\ Cardinality(I \X {c}) = Cardinality(I) * Cardinality({c})
  BY <1>1, FS_Product
<1>3. Cardinality(I) \in Nat
  BY FS_CardinalityType
<1> QED  BY <1>1, <1>2, <1>3

\* The table is finite, and so is all that is counted.
LEMMA Finite ==
    ASSUME TypeOK, CountedStored, NEW t \in Tickers
    PROVE  /\ IsFiniteSet(stored) /\ stored \in SUBSET Pairs
           /\ IsFiniteSet(Rows(t)) /\ Cardinality(Rows(t)) \in Nat
           /\ IsFiniteSet(EarlierRows(t)) /\ Cardinality(EarlierRows(t)) \in Nat
           /\ IsFiniteSet(counted[t]) /\ Cardinality(counted[t]) \in Nat
           /\ IsFiniteSet(Items(t)) /\ Cardinality(Items(t)) \in Nat
           /\ IsFiniteSet(ItemRows(t)) /\ Cardinality(ItemRows(t)) = Cardinality(Items(t))
<1>1. IsFiniteSet(Articles) /\ IsFiniteSet(0 .. call)
  <2>1. MaxArticle \in Int /\ call \in Int
    BY DataAssumption DEF TypeOK
  <2> QED  BY <2>1, FS_Interval DEF Articles
<1>2. IsFiniteSet(stored)
  <2>1. IsFiniteSet(Articles \X (0 .. call))
    BY <1>1, FS_Product
  <2> QED  BY <2>1, FS_Subset DEF TypeOK
<1>3. stored \in SUBSET Pairs
  BY DEF TypeOK, Pairs, Articles
<1>4. IsFiniteSet(Rows(t))
  BY <1>2, FS_Subset DEF Rows
<1>5. IsFiniteSet(EarlierRows(t))
  BY <1>4, FS_Subset DEF EarlierRows
<1>6. IsFiniteSet(counted[t])
  BY <1>4, FS_Subset DEF CountedStored
<1>7. IsFiniteSet(Items(t))
  <2>1. Items(t) \subseteq Articles
    BY DEF Items, TypeOK
  <2> QED  BY <1>1, <2>1, FS_Subset
<1>8. IsFiniteSet(ItemRows(t)) /\ Cardinality(ItemRows(t)) = Cardinality(Items(t))
  BY <1>7, PairedSize DEF ItemRows
<1> QED  BY <1>2, <1>3, <1>4, <1>5, <1>6, <1>7, <1>8, FS_CardinalityType

\* While a batch is in hand, its rows and the earlier ones are rows of a ticker.
LEMMA BatchRows ==
    ASSUME TypeOK, CountedStored, pc # "idle", NEW t \in Tickers
    PROVE  /\ ItemRows(t) \subseteq Rows(t)
           /\ Cardinality(EarlierRows(t)) + Cardinality(Items(t)) <= Cardinality(Rows(t))
<1>1. ItemRows(t) \subseteq Rows(t)
  <2>1. batch \X {call} \subseteq stored
    BY DEF TypeOK, BatchMembers
  <2> QED  BY <2>1 DEF ItemRows, Items, Rows
<1>2. EarlierRows(t) \intersect ItemRows(t) = {}
  <2> SUFFICES ASSUME NEW m \in EarlierRows(t), m \in ItemRows(t)  PROVE FALSE
    OBVIOUS
  <2>1. m[2] < call /\ m[2] = call /\ call \in Nat
    BY DEF EarlierRows, ItemRows, TypeOK
  <2> QED  BY <2>1
<1>3. /\ IsFiniteSet(EarlierRows(t)) /\ Cardinality(EarlierRows(t)) \in Nat
      /\ IsFiniteSet(ItemRows(t)) /\ Cardinality(ItemRows(t)) = Cardinality(Items(t))
      /\ Cardinality(Items(t)) \in Nat
      /\ IsFiniteSet(Rows(t)) /\ Cardinality(Rows(t)) \in Nat
  BY Finite
<1>4. Cardinality(EarlierRows(t) \union ItemRows(t)) =
        Cardinality(EarlierRows(t)) + Cardinality(ItemRows(t))
          - Cardinality(EarlierRows(t) \intersect ItemRows(t))
  BY <1>3, FS_Union
<1>5. Cardinality(EarlierRows(t) \intersect ItemRows(t)) = 0
  BY <1>2, FS_EmptySet
<1>6. EarlierRows(t) \union ItemRows(t) \subseteq Rows(t)
  BY <1>1 DEF EarlierRows
<1>7. Cardinality(EarlierRows(t) \union ItemRows(t)) <= Cardinality(Rows(t))
  BY <1>3, <1>6, FS_Subset
<1> QED  BY <1>1, <1>3, <1>4, <1>5, <1>7

\* A key counts no more than the table shows, whether it lives or not.
LEMMA CountWithinRows ==
    ASSUME TypeOK, CountedStored, TickerCountBounds, NEW t \in Tickers
    PROVE  ticker[t].count \in Nat /\ ticker[t].count <= Cardinality(Rows(t))
<1>1. ticker[t].count \in Nat
  BY DEF TypeOK, Hashes
<1>2. Cardinality(Rows(t)) \in Nat
  BY Finite
<1>3. ticker[t].count > 0 => ticker[t].count <= Cardinality(Rows(t))
  BY DEF TickerCountBounds, Rows
<1> QED  BY <1>1, <1>2, <1>3

\* Writing to the table, with or without an error, leaves the invariant.
LEMMA WriteStep ==
    ASSUME IndInv, NEW B \in Batches, Write(B) \/ WriteFails(B)
    PROVE  IndInv'
<1> USE DEF IndInv
<1>1. /\ pc = "idle" /\ call' = call + 1 /\ call \in Nat
      /\ stored \subseteq stored' /\ stored' \subseteq stored \union (B \X {call + 1})
      /\ UNCHANGED <<latest, added, channel, ticker, counted, toRead, existing>>
  BY DEF Write, WriteFails, Take, listVars, tickerVars, TypeOK
<1>2. /\ B \in SUBSET Articles
      /\ \/ pc' = "list" /\ batch' = B /\ stored' = stored \union (B \X {call + 1})
         \/ pc' = "idle" /\ batch' = batch
  BY DEF Write, WriteFails, Take, Batches
<1>3. TypeOK'
  <2>1. stored' \in SUBSET (Articles \X (0 .. call'))
    BY <1>1, <1>2 DEF TypeOK
  <2>2. toRead' = {}
    BY <1>1 DEF TypeOK
  <2>3. pc' # "idle" => BatchMembers' \subseteq stored'
    BY <1>1, <1>2 DEF BatchMembers
  <2> QED  BY <1>1, <1>2, <2>1, <2>2, <2>3 DEF TypeOK
<1>4. ListIsTrimmed'
  BY <1>1 DEF ListIsTrimmed, Newest
<1>5. \A t \in Tickers : Rows(t) \subseteq Rows(t)'
  BY <1>1 DEF Rows
<1>6. CountedStored'
  BY <1>1, <1>5 DEF CountedStored
<1>7. \A t \in Tickers : EarlierRows(t)' = Rows(t)
  <2>1. \A m \in stored : m[2] \in Nat /\ m[2] < call'
    BY <1>1 DEF TypeOK
  <2>2. \A m \in stored' : m \in stored \/ m[2] = call'
    BY <1>1
  <2>3. call' \in Nat
    BY <1>1
  <2> QED  BY <1>1, <2>1, <2>2, <2>3 DEF EarlierRows, Rows
<1>8. CountsEarlier'
  <2>1. toRead' = {} /\ pc' # "count"
    BY <1>1, <1>2 DEF TypeOK
  <2>2. \A t \in Tickers : ticker[t].count <= Cardinality(Rows(t))
    BY CountWithinRows
  <2> QED  BY <1>1, <1>7, <2>1, <2>2 DEF CountsEarlier
<1>9. TickerCountBounds'
  <2> SUFFICES ASSUME NEW t \in Tickers, ticker'[t].count > 0
               PROVE  /\ Cardinality(counted'[t]) <= ticker'[t].count
                      /\ ticker'[t].count <= Cardinality(Rows(t)')
    BY DEF TickerCountBounds, Rows
  <2>1. /\ Cardinality(counted[t]) <= ticker[t].count
        /\ ticker[t].count <= Cardinality(Rows(t))
    BY <1>1 DEF TickerCountBounds, Rows
  <2>2. IsFiniteSet(Rows(t)')
    <3>1. IsFiniteSet(B \X {call + 1})
      <4>1. MaxArticle \in Int
        BY DataAssumption
      <4>2. IsFiniteSet(B)
        <5>1. IsFiniteSet(Articles)
          BY <4>1, FS_Interval DEF Articles
        <5> QED  BY <5>1, <1>2, FS_Subset
      <4> QED  BY <4>2, PairedSize
    <3>2. IsFiniteSet(stored \union (B \X {call + 1}))
      BY <3>1, Finite, FS_Union
    <3>3. Rows(t)' \subseteq stored \union (B \X {call + 1})
      BY <1>1 DEF Rows
    <3> QED  BY <3>2, <3>3, FS_Subset
  <2>3. Cardinality(Rows(t)) <= Cardinality(Rows(t)')
    BY <1>5, <2>2, FS_Subset
  <2>4. Cardinality(Rows(t)) \in Nat /\ Cardinality(Rows(t)') \in Nat /\ ticker[t].count \in Nat
    BY <2>2, Finite, FS_CardinalityType, CountWithinRows
  <2> QED  BY <1>1, <2>1, <2>3, <2>4
<1> QED  BY <1>3, <1>4, <1>6, <1>8, <1>9

\* So does the first pipeline, executed once or again.
LEMMA ListStep ==
    ASSUME IndInv, ListResults \/ ListRepeated
    PROVE  IndInv'
<1> USE DEF IndInv
<1>1. /\ pc = "list" /\ toRead = {} /\ BatchMembers \subseteq stored
      /\ latest' = Newest(latest \union BatchMembers)
      /\ added' = BatchMembers \union (IF latest = {} THEN {} ELSE added)
      /\ channel' = channel \union BatchMembers
      /\ UNCHANGED <<batch, call, stored, ticker, counted, existing>>
  BY DEF ListResults, ListRepeated, ListPipeline, tickerVars, TypeOK
<1>2. \/ pc' = "count" /\ toRead' = BatchTickers
      \/ pc' = "list" /\ toRead' = {}
  BY <1>1 DEF ListResults, ListRepeated
<1>3. TypeOK'
  <2>1. added' \subseteq stored /\ channel' \subseteq stored
    BY <1>1 DEF TypeOK
  <2>2. BatchTickers \subseteq Tickers
    BY DEF BatchTickers
  <2>3. BatchMembers' = BatchMembers
    BY <1>1 DEF BatchMembers
  <2> QED  BY <1>1, <1>2, <2>1, <2>2, <2>3 DEF TypeOK
<1>4. ListIsTrimmed'
  <2>1. /\ added \in SUBSET Pairs /\ IsFiniteSet(added)
        /\ BatchMembers \in SUBSET Pairs /\ IsFiniteSet(BatchMembers)
    <3>1. IsFiniteSet(stored) /\ stored \in SUBSET Pairs
      <4>1. IsFiniteSet(Articles) /\ IsFiniteSet(0 .. call)
        <5>1. MaxArticle \in Int /\ call \in Int
          BY DataAssumption DEF TypeOK
        <5> QED  BY <5>1, FS_Interval DEF Articles
      <4>2. IsFiniteSet(Articles \X (0 .. call))
        BY <4>1, FS_Product
      <4> QED  BY <4>2, FS_Subset DEF TypeOK, Pairs, Articles
    <3>2. added \subseteq stored
      BY DEF TypeOK
    <3> QED  BY <1>1, <3>1, <3>2, FS_Subset
  <2>2. MaxLatest \in Nat
    BY SizeAssumption
  <2>3. CASE latest = {}
    <3>1. latest' = Newest(BatchMembers) /\ added' = BatchMembers
      BY <1>1, <2>3
    <3> QED  BY <3>1 DEF ListIsTrimmed, Newest
  <2>4. CASE latest # {}
    <3>1. latest = NewestOf(added, MaxLatest) /\ added' = added \union BatchMembers
      BY <1>1, <2>4 DEF ListIsTrimmed, Newest
    <3>2. NewestOf(NewestOf(added, MaxLatest) \union BatchMembers, MaxLatest)
            = NewestOf(added \union BatchMembers, MaxLatest)
      BY <2>1, <2>2, TrimOnce
    <3>3. latest' = NewestOf(added', MaxLatest)
      BY <1>1, <3>1, <3>2 DEF Newest
    <3> QED  BY <3>3 DEF ListIsTrimmed, Newest
  <2> QED  BY <2>3, <2>4
<1>5. CountedStored'
  BY <1>1 DEF CountedStored, Rows
<1>6. CountsEarlier'
  <2>1. \A t \in Tickers : EarlierRows(t)' = EarlierRows(t)
    BY <1>1 DEF EarlierRows, Rows
  <2>2. \A t \in Tickers : ticker[t].count <= Cardinality(EarlierRows(t))
    BY <1>1 DEF CountsEarlier
  <2>3. BatchTickers' = BatchTickers
    BY <1>1 DEF BatchTickers, Items
  <2> QED  BY <1>1, <1>2, <2>1, <2>2, <2>3 DEF CountsEarlier
<1>7. TickerCountBounds'
  BY <1>1 DEF TickerCountBounds
<1> QED  BY <1>3, <1>4, <1>5, <1>6, <1>7

\* So does an HGET.
LEMMA ReadStep ==
    ASSUME IndInv, NEW t \in Tickers, ReadCount(t)
    PROVE  IndInv'
<1> USE DEF IndInv
<1>1. /\ pc = "count" /\ t \in toRead
      /\ existing' = [existing EXCEPT ![t] = ticker[t].count]
      /\ toRead' = toRead \ {t}
      /\ UNCHANGED <<pc, batch, call, stored, latest, added, channel, ticker, counted>>
  BY DEF ReadCount, Existing, listVars, tickerVars
<1>2. TypeOK'
  <2>1. ticker[t].count \in Nat
    BY CountWithinRows
  <2>2. BatchMembers' = BatchMembers
    BY <1>1 DEF BatchMembers
  <2> QED  BY <1>1, <2>1, <2>2 DEF TypeOK
<1>3. ListIsTrimmed' /\ CountedStored' /\ TickerCountBounds'
  BY <1>1 DEF ListIsTrimmed, Newest, CountedStored, Rows, TickerCountBounds
<1>4. CountsEarlier'
  <2>1. \A u \in Tickers : /\ EarlierRows(u)' = EarlierRows(u)
                           /\ ItemRows(u)' = ItemRows(u)
    BY <1>1 DEF EarlierRows, Rows, ItemRows, Items
  <2>2. BatchTickers' = BatchTickers
    BY <1>1 DEF BatchTickers, Items
  <2>3. existing'[t] = ticker[t].count /\ \A u \in Tickers \ {t} : existing'[u] = existing[u]
    BY <1>1 DEF TypeOK
  <2>4. ticker[t].count <= Cardinality(EarlierRows(t))
    BY <1>1 DEF CountsEarlier
  <2>5. ticker[t].count > 0 => Cardinality(counted[t] \ ItemRows(t)) <= ticker[t].count
    <3> SUFFICES ASSUME ticker[t].count > 0
                 PROVE  Cardinality(counted[t] \ ItemRows(t)) <= ticker[t].count
      OBVIOUS
    <3>1. Cardinality(counted[t]) <= ticker[t].count /\ ticker[t].count \in Nat
      BY CountWithinRows DEF TickerCountBounds
    <3>2. IsFiniteSet(counted[t]) /\ Cardinality(counted[t]) \in Nat
      BY Finite
    <3>3. /\ Cardinality(counted[t] \ ItemRows(t)) <= Cardinality(counted[t])
          /\ IsFiniteSet(counted[t] \ ItemRows(t))
      BY <3>2, FS_Subset
    <3>4. Cardinality(counted[t] \ ItemRows(t)) \in Nat
      BY <3>3, FS_CardinalityType
    <3> QED  BY <3>1, <3>2, <3>3, <3>4
  <2> SUFFICES ASSUME NEW u \in Tickers
               PROVE  /\ u \in toRead' =>
                            ticker[u].count <= Cardinality(EarlierRows(u))
                      /\ u \in BatchTickers \ toRead' =>
                            /\ existing'[u] <= Cardinality(EarlierRows(u))
                            /\ ticker[u].count > 0 =>
                                  Cardinality(counted[u] \ ItemRows(u)) <= existing'[u]
    BY <1>1, <2>1, <2>2 DEF CountsEarlier
  <2>6. CASE u = t
    BY <1>1, <2>3, <2>4, <2>5, <2>6
  <2>7. CASE u # t
    BY <1>1, <2>3, <2>7 DEF CountsEarlier
  <2> QED  BY <2>6, <2>7
<1> QED  BY <1>2, <1>3, <1>4

\* What the second pipeline writes for a ticker of the batch: a count of the
\* batch and of what was read, that covers what has been counted and exceeds
\* nothing stored.
LEMMA NewCounts ==
    ASSUME IndInv, pc = "count", toRead = {}, NEW t \in BatchTickers,
           NEW C, C = ItemRows(t) \union (IF ticker[t].count = 0 THEN {} ELSE counted[t])
    PROVE  /\ NewAggregates(t) \in Hashes
           /\ NewAggregates(t).count = existing[t] + Cardinality(Items(t))
           /\ C \subseteq Rows(t)
           /\ Cardinality(C) <= NewAggregates(t).count
           /\ NewAggregates(t).count <= Cardinality(Rows(t))
           /\ Cardinality(C \ ItemRows(t)) <= existing[t]
<1> USE DEF IndInv
<1>1. t \in Tickers
  BY DEF BatchTickers
<1>2. /\ existing[t] \in Nat /\ existing[t] <= Cardinality(EarlierRows(t))
      /\ ticker[t].count > 0 => Cardinality(counted[t] \ ItemRows(t)) <= existing[t]
      /\ ticker[t].count \in Nat
  BY <1>1 DEF CountsEarlier, TypeOK, Hashes
<1>3. /\ IsFiniteSet(Items(t)) /\ Cardinality(Items(t)) \in Nat
      /\ IsFiniteSet(ItemRows(t)) /\ Cardinality(ItemRows(t)) = Cardinality(Items(t))
      /\ IsFiniteSet(counted[t])
      /\ Cardinality(EarlierRows(t)) \in Nat /\ Cardinality(Rows(t)) \in Nat
  BY <1>1, Finite
<1>4. /\ ItemRows(t) \subseteq Rows(t)
      /\ Cardinality(EarlierRows(t)) + Cardinality(Items(t)) <= Cardinality(Rows(t))
  BY <1>1, BatchRows
<1>5. NewAggregates(t) \in Hashes /\ NewAggregates(t).count = existing[t] + Cardinality(Items(t))
  <2>1. Cardinality(Items(t) \intersect Positive) \in Nat
    BY <1>3, FS_Intersection, FS_CardinalityType
  <2> QED  BY <1>2, <1>3, <2>1 DEF NewAggregates, Hashes
<1>6. C \subseteq Rows(t)
  BY <1>1, <1>4 DEF CountedStored
<1>7. Cardinality(C \ ItemRows(t)) <= existing[t] /\ Cardinality(C \ ItemRows(t)) \in Nat
      /\ IsFiniteSet(C \ ItemRows(t))
  <2>1. CASE ticker[t].count = 0
    <3>1. C \ ItemRows(t) = {}
      BY <2>1
    <3>2. IsFiniteSet(C \ ItemRows(t)) /\ Cardinality(C \ ItemRows(t)) = 0
      BY <3>1, FS_EmptySet
    <3> QED  BY <3>2, <1>2
  <2>2. CASE ticker[t].count # 0
    <3>1. C \ ItemRows(t) = counted[t] \ ItemRows(t)
      BY <2>2
    <3>2. ticker[t].count > 0
      BY <1>2, <2>2
    <3>3. IsFiniteSet(C \ ItemRows(t)) /\ Cardinality(C \ ItemRows(t)) \in Nat
      BY <1>3, <3>1, FS_Difference, FS_CardinalityType
    <3> QED  BY <1>2, <3>1, <3>2, <3>3
  <2> QED  BY <2>1, <2>2
<1>8. Cardinality(C) <= existing[t] + Cardinality(Items(t))
  <2>1. C = ItemRows(t) \union (C \ ItemRows(t))
    OBVIOUS
  <2>2. Cardinality(ItemRows(t) \union (C \ ItemRows(t))) =
          Cardinality(ItemRows(t)) + Cardinality(C \ ItemRows(t))
            - Cardinality(ItemRows(t) \intersect (C \ ItemRows(t)))
    BY <1>3, <1>7, FS_Union
  <2>3. ItemRows(t) \intersect (C \ ItemRows(t)) = {}
    OBVIOUS
  <2>4. Cardinality(ItemRows(t) \intersect (C \ ItemRows(t))) = 0
    BY <2>3, FS_EmptySet
  <2>5. Cardinality(C) = Cardinality(ItemRows(t) \union (C \ ItemRows(t)))
    BY <2>1
  <2> QED  BY <2>2, <2>4, <2>5, <1>2, <1>3, <1>7
<1>9. existing[t] + Cardinality(Items(t)) <= Cardinality(Rows(t))
  BY <1>2, <1>3, <1>4
<1> QED  BY <1>5, <1>6, <1>7, <1>8, <1>9

\* The second pipeline, executed once or again, leaves the invariant.
LEMMA SetStep ==
    ASSUME IndInv, SetTickers \/ SetRepeated
    PROVE  IndInv'
<1> USE DEF IndInv
<1> DEFINE C(t) == ItemRows(t) \union (IF ticker[t].count = 0 THEN {} ELSE counted[t])
<1>1. /\ pc = "count" /\ toRead = {} /\ toRead' = {}
      /\ UNCHANGED <<call, stored, latest, added, channel>>
      /\ \/ pc' = "idle" /\ batch' = {} /\ existing' = [t \in Tickers |-> 0]
         \/ pc' = "count" /\ batch' = batch /\ existing' = existing
  BY DEF SetTickers, SetRepeated, SetPipeline, listVars
<1>2. \A t \in Tickers :
         /\ t \in BatchTickers => ticker'[t] = NewAggregates(t) /\ counted'[t] = C(t)
         /\ t \notin BatchTickers =>
               /\ ticker'[t] = ticker[t]
               /\ counted'[t] = IF ticker[t].count = 0 THEN {} ELSE counted[t]
  <2> SUFFICES ASSUME NEW t \in Tickers
               PROVE  /\ t \in BatchTickers => ticker'[t] = NewAggregates(t) /\ counted'[t] = C(t)
                      /\ t \notin BatchTickers =>
                            /\ ticker'[t] = ticker[t]
                            /\ counted'[t] = IF ticker[t].count = 0 THEN {} ELSE counted[t]
    OBVIOUS
  <2>1. /\ ticker'[t] = IF t \in BatchTickers THEN NewAggregates(t) ELSE ticker[t]
        /\ counted'[t] = {m \in BatchMembers : m[1] \in Items(t)}
                           \union (IF ticker[t].count = 0 THEN {} ELSE counted[t])
    BY DEF SetTickers, SetRepeated, SetPipeline
  <2>2. {m \in BatchMembers : m[1] \in Items(t)} = ItemRows(t)
    BY DEF BatchMembers, ItemRows, Items
  <2>3. t \notin BatchTickers => ItemRows(t) = {}
    BY DEF BatchTickers, ItemRows
  <2> QED  BY <2>1, <2>2, <2>3
<1>3. /\ DOMAIN ticker' = Tickers /\ ticker' = [t \in Tickers |-> ticker'[t]]
      /\ counted' = [t \in Tickers |-> counted'[t]]
  BY DEF SetTickers, SetRepeated, SetPipeline
<1>4. \A t \in BatchTickers :
         /\ NewAggregates(t) \in Hashes
         /\ NewAggregates(t).count = existing[t] + Cardinality(Items(t))
         /\ C(t) \subseteq Rows(t)
         /\ Cardinality(C(t)) <= NewAggregates(t).count
         /\ NewAggregates(t).count <= Cardinality(Rows(t))
         /\ Cardinality(C(t) \ ItemRows(t)) <= existing[t]
  BY <1>1, NewCounts
<1> HIDE DEF C
<1>5. \A t \in Tickers : counted'[t] \subseteq Rows(t)
  BY <1>2, <1>4 DEF CountedStored
<1>6. TypeOK'
  <2>1. \A t \in Tickers : ticker'[t] \in Hashes
    BY <1>2, <1>4 DEF TypeOK
  <2>2. \A t \in Tickers : counted'[t] \in SUBSET (Articles \X Nat)
    BY <1>5 DEF Rows, TypeOK
  <2>3. existing' \in [Tickers -> Nat]
    BY <1>1 DEF TypeOK
  <2>4. pc' # "idle" => BatchMembers' \subseteq stored'
    BY <1>1 DEF TypeOK, BatchMembers
  <2> QED  BY <1>1, <1>3, <2>1, <2>2, <2>3, <2>4 DEF TypeOK
<1>7. ListIsTrimmed'
  BY <1>1 DEF ListIsTrimmed, Newest
<1>8. CountedStored'
  BY <1>1, <1>5 DEF CountedStored, Rows
<1>9. CountsEarlier'
  <2>1. CASE pc' = "idle"
    BY <1>1, <2>1 DEF CountsEarlier
  <2>2. CASE pc' = "count"
    <3>1. batch' = batch /\ existing' = existing
      BY <1>1, <2>2
    <3>2. \A t \in Tickers : /\ EarlierRows(t)' = EarlierRows(t)
                             /\ ItemRows(t)' = ItemRows(t)
      BY <1>1, <3>1 DEF EarlierRows, Rows, ItemRows, Items
    <3>3. BatchTickers' = BatchTickers /\ BatchTickers \subseteq Tickers
      BY <3>1 DEF BatchTickers, Items
    <3>4. \A t \in BatchTickers :
             /\ existing[t] <= Cardinality(EarlierRows(t))
             /\ Cardinality(counted'[t] \ ItemRows(t)) <= existing[t]
      BY <1>1, <1>2, <1>4, <3>3 DEF CountsEarlier
    <3> QED  BY <1>1, <2>2, <3>1, <3>2, <3>3, <3>4 DEF CountsEarlier
  <2> QED  BY <1>1, <2>1, <2>2
<1>10. TickerCountBounds'
  <2>1. \A t \in Tickers : ticker'[t].count > 0 =>
             /\ Cardinality(counted'[t]) <= ticker'[t].count
             /\ ticker'[t].count <= Cardinality(Rows(t))
    <3> SUFFICES ASSUME NEW t \in Tickers, ticker'[t].count > 0
                 PROVE  /\ Cardinality(counted'[t]) <= ticker'[t].count
                        /\ ticker'[t].count <= Cardinality(Rows(t))
      OBVIOUS
    <3>1. CASE t \in BatchTickers
      BY <1>2, <1>4, <3>1
    <3>2. CASE t \notin BatchTickers
      <4>1. ticker'[t] = ticker[t]
        BY <1>2, <3>2
      <4>2. ticker[t].count # 0
        BY <4>1
      <4>3. counted'[t] = counted[t]
        BY <1>2, <3>2, <4>2
      <4> QED  BY <4>1, <4>3 DEF TickerCountBounds, Rows
    <3> QED  BY <3>1, <3>2
  <2> QED  BY <1>1, <2>1 DEF TickerCountBounds, Rows
<1> QED  BY <1>6, <1>7, <1>8, <1>9, <1>10

\* So do failures, expiries and evictions.
LEMMA LossStep ==
    ASSUME IndInv, Fail \/ ExpireLatest \/ (\E t \in Tickers : ExpireTicker(t))
    PROVE  IndInv'
<1> USE DEF IndInv
<1>1. CASE Fail
  <2>1. /\ pc' = "idle" /\ batch' = {} /\ toRead' = {}
        /\ existing' = [t \in Tickers |-> 0]
        /\ UNCHANGED <<call, stored, latest, added, channel, ticker, counted>>
    BY <1>1 DEF Fail, listVars, tickerVars
  <2>2. TypeOK'
    BY <2>1 DEF TypeOK
  <2>3. ListIsTrimmed' /\ CountedStored' /\ TickerCountBounds' /\ CountsEarlier'
    BY <2>1 DEF ListIsTrimmed, Newest, CountedStored, Rows, TickerCountBounds, CountsEarlier
  <2> QED  BY <2>2, <2>3
<1>2. CASE ExpireLatest
  <2>1. /\ latest' = {}
        /\ UNCHANGED <<pc, batch, call, stored, added, channel, ticker, counted, toRead, existing>>
    BY <1>2 DEF ExpireLatest, tickerVars
  <2>2. TypeOK'
    BY <2>1 DEF TypeOK, BatchMembers
  <2>3. ListIsTrimmed' /\ CountedStored' /\ TickerCountBounds'
    BY <2>1 DEF ListIsTrimmed, CountedStored, Rows, TickerCountBounds
  <2>4. CountsEarlier'
    BY <2>1 DEF CountsEarlier, EarlierRows, Rows, ItemRows, Items, BatchTickers
  <2> QED  BY <2>2, <2>3, <2>4
<1>3. ASSUME NEW t \in Tickers, ExpireTicker(t)  PROVE IndInv'
  <2>1. /\ ticker' = [ticker EXCEPT ![t] = NoHash]
        /\ UNCHANGED <<pc, batch, call, stored, latest, added, channel, toRead, existing, counted>>
    BY <1>3 DEF ExpireTicker, listVars
  <2>2. NoHash \in Hashes /\ NoHash.count = 0
    BY DEF NoHash, Hashes
  <2>3. \A u \in Tickers : ticker'[u].count = 0 \/ ticker'[u] = ticker[u]
    BY <2>1, <2>2 DEF TypeOK
  <2>4. TypeOK'
    BY <2>1, <2>2 DEF TypeOK, BatchMembers
  <2>5. ListIsTrimmed' /\ CountedStored'
    BY <2>1 DEF ListIsTrimmed, Newest, CountedStored, Rows
  <2>6. TickerCountBounds'
    BY <2>1, <2>3 DEF TickerCountBounds
  <2>7. CountsEarlier'
    <3>1. \A u \in Tickers : /\ EarlierRows(u)' = EarlierRows(u)
                             /\ ItemRows(u)' = ItemRows(u)
                             /\ Cardinality(EarlierRows(u)) \in Nat
      BY <2>1, Finite DEF EarlierRows, Rows, ItemRows, Items
    <3>2. BatchTickers' = BatchTickers
      BY <2>1 DEF BatchTickers, Items
    <3>3. \A u \in Tickers : ticker[u].count <= Cardinality(EarlierRows(u)) =>
                             ticker'[u].count <= Cardinality(EarlierRows(u))
      BY <2>3, <3>1
    <3> SUFFICES ASSUME NEW u \in Tickers
                 PROVE  /\ pc = "list" \/ u \in toRead =>
                              ticker'[u].count <= Cardinality(EarlierRows(u))
                        /\ pc = "count" /\ u \in BatchTickers \ toRead =>
                              /\ existing[u] <= Cardinality(EarlierRows(u))
                              /\ ticker'[u].count > 0 =>
                                    Cardinality(counted[u] \ ItemRows(u)) <= existing[u]
      BY <2>1, <3>1, <3>2 DEF CountsEarlier
    <3>4. pc = "list" \/ u \in toRead => ticker'[u].count <= Cardinality(EarlierRows(u))
      BY <3>3 DEF CountsEarlier
    <3>5. ticker'[u].count > 0 => ticker'[u] = ticker[u]
      BY <2>3
    <3> QED  BY <3>4, <3>5 DEF CountsEarlier
  <2> QED  BY <2>4, <2>5, <2>6, <2>7
<1> QED  BY <1>1, <1>2, <1>3

\* Every step preserves the invariant.
LEMMA Step == IndInv /\ [Next]_vars => IndInv'
<1> SUFFICES ASSUME IndInv, [Next]_vars  PROVE IndInv'
  OBVIOUS
<1>1. CASE \E B \in Batches : Write(B) \/ WriteFails(B)
  BY <1>1, WriteStep
<1>2. CASE ListResults \/ ListRepeated
  BY <1>2, ListStep
<1>3. CASE \E t \in Tickers : ReadCount(t)
  BY <1>3, ReadStep
<1>4. CASE SetTickers \/ SetRepeated
  BY <1>4, SetStep
<1>5. CASE Fail \/ ExpireLatest \/ \E t \in Tickers : ExpireTicker(t)
  BY <1>5, LossStep
<1>6. CASE UNCHANGED vars
  <2>1. UNCHANGED <<pc, batch, call, stored, latest, added, channel, ticker, counted, toRead, existing>>
    BY <1>6 DEF vars
  <2>2. TypeOK'
    BY <2>1 DEF IndInv, TypeOK, BatchMembers
  <2>3. ListIsTrimmed' /\ CountedStored' /\ TickerCountBounds'
    BY <2>1 DEF IndInv, ListIsTrimmed, Newest, CountedStored, Rows, TickerCountBounds
  <2>4. CountsEarlier'
    BY <2>1 DEF IndInv, CountsEarlier, EarlierRows, Rows, ItemRows, Items, BatchTickers
  <2> QED  BY <2>2, <2>3, <2>4 DEF IndInv
<1> QED  BY <1>1, <1>2, <1>3, <1>4, <1>5, <1>6 DEF Next

\* The invariant holds at the start.
LEMMA Start == Init => IndInv
<1> SUFFICES ASSUME Init  PROVE IndInv
  OBVIOUS
<1>1. /\ pc = "idle" /\ batch = {} /\ call = 0 /\ stored = {} /\ toRead = {}
      /\ latest = {} /\ added = {} /\ channel = {}
      /\ ticker = [t \in Tickers |-> NoHash] /\ existing = [t \in Tickers |-> 0]
      /\ counted = [t \in Tickers |-> {}]
  BY DEF Init
<1>2. NoHash \in Hashes /\ NoHash.count = 0
  BY DEF NoHash, Hashes
<1>3. TypeOK
  BY <1>1, <1>2 DEF TypeOK
<1>4. ListIsTrimmed /\ CountedStored /\ CountsEarlier
  BY <1>1 DEF ListIsTrimmed, CountedStored, CountsEarlier
<1>5. TickerCountBounds
  BY <1>1, <1>2 DEF TickerCountBounds
<1> QED  BY <1>3, <1>4, <1>5 DEF IndInv
-----------------------------------------------------------------------------
\* The invariant of cache_results holds in every reachable state, however
\* often its pipelines are repeated and whatever Redis forgets.
THEOREM Invariance == Spec => []IndInv
<1>1. Init => IndInv
  BY Start
<1>2. IndInv /\ [Next]_vars => IndInv'
  BY Step
<1> QED  BY <1>1, <1>2, PTL DEF Spec

\* article_count lies between what its key has counted and the rows that name
\* the ticker.
THEOREM TickerCountBoundsHolds == Spec => []TickerCountBounds
<1>1. IndInv => TickerCountBounds
  BY DEF IndInv
<1> QED  BY <1>1, Invariance, PTL

\* Whatever GET /v1/sentiment/latest, GET /v1/sentiment/ticker and the channel
\* show is in the database.
THEOREM ServedIsStoredHolds == Spec => []ServedIsStored
<1>1. IndInv => ServedIsStored
  <2> SUFFICES ASSUME IndInv  PROVE ServedIsStored
    OBVIOUS
  <2>1. channel \union GetLatest(MaxPage) \subseteq stored
    <3>1. channel \subseteq stored /\ added \subseteq stored
      BY DEF IndInv, TypeOK
    <3>2. latest # {} => latest \subseteq added
      BY DEF IndInv, ListIsTrimmed, Newest, NewestOf
    <3> QED  BY <3>1, <3>2 DEF GetLatest, QueryRecent, NewestOf
  <2>2. ASSUME NEW t \in Tickers, GetTicker(t).source # "404"
        PROVE  \E m \in stored : t \in TickersOf[m[1]]
    <3>1. ticker[t].count \in Nat /\ ticker[t].count <= Cardinality(Rows(t))
      BY CountWithinRows DEF IndInv
    <3>2. IsFiniteSet(Rows(t)) /\ Cardinality(Rows(t)) \in Nat
      BY Finite DEF IndInv
    <3>3. CASE ticker[t].count > 0
      <4>1. Cardinality(Rows(t)) # 0
        BY <3>1, <3>2, <3>3
      <4>2. Rows(t) # {}
        BY <4>1, FS_EmptySet
      <4> QED  BY <4>2 DEF Rows
    <3>4. CASE ticker[t].count = 0 /\ QueryByTicker(t) # {}
      BY <3>4 DEF QueryByTicker, NewestOf
    <3>5. CASE ticker[t].count = 0 /\ QueryByTicker(t) = {}
      BY <2>2, <3>5 DEF GetTicker
    <3> QED  BY <3>1, <3>3, <3>4, <3>5
  <2> QED  BY <2>1, <2>2 DEF ServedIsStored
<1> QED  BY <1>1, Invariance, PTL

\* A page of the latest results leaves out only what is older than all it
\* shows, and only when it is full.
THEOREM PageIsTopHolds == Spec => []PageIsTop
<1>1. IndInv => PageIsTop
  <2> SUFFICES ASSUME IndInv, NEW n \in 1 .. MaxPage
               PROVE  LET page  == GetLatest(n)
                          known == IF latest # {} THEN added ELSE {m \in stored : m[1] \in Recent}
                      IN  /\ page \subseteq known
                          /\ \A m \in known \ page : Cardinality({k \in page : Newer(k, m)}) = n
    BY DEF PageIsTop
  <2> DEFINE page == GetLatest(n)
             known == IF latest # {} THEN added ELSE {m \in stored : m[1] \in Recent}
  <2>1. n \in Nat /\ MaxLatest \in Nat /\ n <= MaxLatest
    BY PageAssumption, SizeAssumption
  <2>2. IsFiniteSet(stored) /\ stored \in SUBSET Pairs
    <3>1. IsFiniteSet(Articles) /\ IsFiniteSet(0 .. call)
      <4>1. MaxArticle \in Int /\ call \in Int
        BY DataAssumption DEF IndInv, TypeOK
      <4> QED  BY <4>1, FS_Interval DEF Articles
    <3>2. IsFiniteSet(Articles \X (0 .. call))
      BY <3>1, FS_Product
    <3> QED  BY <3>2, FS_Subset DEF IndInv, TypeOK, Pairs, Articles
  <2>3. known \in SUBSET Pairs /\ IsFiniteSet(known)
    <3>1. known \subseteq stored
      BY DEF IndInv, TypeOK
    <3> QED  BY <2>2, <3>1, FS_Subset
  <2>4. page = NewestOf(known, n)
    <3>1. CASE latest # {}
      <4>1. page = NewestOf(NewestOf(known, MaxLatest), n)
        BY <3>1 DEF GetLatest, IndInv, ListIsTrimmed, Newest
      <4> HIDE DEF known
      <4>2. NewestOf(NewestOf(known, MaxLatest), n) = NewestOf(known, n)
        BY <2>1, <2>3, PageOfTrimmed
      <4> QED  BY <4>1, <4>2
    <3>2. CASE latest = {}
      BY <3>2 DEF GetLatest, QueryRecent
    <3> QED  BY <3>1, <3>2
  <2> HIDE DEF page, known
  <2>5. page \subseteq known
    BY <2>4 DEF NewestOf
  <2>6. ASSUME NEW m \in known \ page
        PROVE  Cardinality({k \in page : Newer(k, m)}) = n
    <3>1. m \in known \ NewestOf(known, n)
      BY <2>4
    <3>2. /\ Above(NewestOf(known, n), m) = NewestOf(known, n)
          /\ Cardinality(NewestOf(known, n)) = n
      BY <2>1, <2>3, <3>1, LeftOutBelow
    <3> QED  BY <2>4, <3>2 DEF Above
  <2> QED  BY <2>5, <2>6 DEF page, known
<1> QED  BY <1>1, Invariance, PTL
-----------------------------------------------------------------------------
USE LimitAssumption, WindowAssumption, BoundsAssumption
USE DEF Expiry, Over

\* The invariant holds before the first request.
LEMMA LimiterStart == LimiterInit => LimiterInv
<1> SUFFICES ASSUME LimiterInit
             PROVE  LimiterInv
  OBVIOUS
<1>1. hits \in Seq(Nat) /\ admits \in Seq(Nat) /\ Len(admits) = 0 /\ DOMAIN admits = {}
  BY DEF LimiterInit
<1>2. LimiterTypeOK
  BY <1>1 DEF LimiterInit, LimiterTypeOK
<1>3. LiveHits /\ EvictionBound
  BY <1>1 DEF LimiterInit, LiveHits, EvictionBound
<1>4. LiveAdmits
  BY <1>1 DEF LimiterInit, LiveAdmits, Current, Spent
<1>5. ExpiryBound
  BY DEF LimiterInit, ExpiryBound
<1> QED
  BY <1>2, <1>3, <1>4, <1>5 DEF LimiterInv

\* Incrementing the counter extends the run of hits without a rest, or
\* begins a new one when the key has expired.
LEMMA IncrLiveHits ==
    ASSUME LimiterInv, IncrExpire
    PROVE  /\ LiveHits'
           /\ count' \in Nat \ {0} /\ expireAt' \in Nat /\ hits' \in Seq(Nat)
           /\ count' = Current + 1 /\ Current \in Nat
           /\ now < expireAt' /\ now' = now
<1>1. /\ now \in Nat /\ count \in Nat /\ expireAt \in Nat /\ hits \in Seq(Nat)
      /\ Len(hits) \in Nat
  BY DEF LimiterInv, LimiterTypeOK
<1>2. /\ count' = Current + 1 /\ expireAt' = now + Window /\ now' = now
      /\ hits' = Append(hits, now)
  BY DEF IncrExpire
<1>3. /\ hits' \in Seq(Nat) /\ Len(hits') = Len(hits) + 1
      /\ hits'[Len(hits) + 1] = now
      /\ \A i \in 1 .. Len(hits) : hits'[i] = hits[i]
  BY <1>1, <1>2
<1>4. Current \in Nat /\ (Current > 0 => now < expireAt /\ Current = count)
  BY <1>1 DEF Current
<1>5. Current <= Len(hits)
  BY <1>1, <1>4 DEF LimiterInv, LiveHits
<1>6. ASSUME NEW i \in Len(hits') - count' + 1 .. Len(hits') - 1
      PROVE  Gap(i)' < Window
  <2>1. i \in Len(hits) - Current + 1 .. Len(hits) /\ i \in 1 .. Len(hits) /\ Current > 0
    BY <1>1, <1>2, <1>3, <1>4, <1>5
  <2>2. Gap(i)' = hits'[i + 1] - hits[i]
    BY <2>1, <1>1, <1>3 DEF Gap
  <2>3. CASE i = Len(hits)
    <3>1. expireAt = hits[i] + Window /\ now < expireAt
      BY <2>1, <2>3, <1>4 DEF LimiterInv, LiveHits
    <3>2. hits[i] \in Nat
      BY <2>1, <1>1
    <3> QED
      BY <2>2, <2>3, <3>1, <3>2, <1>1, <1>3
  <2>4. CASE i # Len(hits)
    <3>1. i + 1 \in 1 .. Len(hits) /\ i \in Len(hits) - count + 1 .. Len(hits) - 1
      BY <2>1, <2>4, <1>1, <1>4
    <3>2. Gap(i) < Window
      BY <3>1, <2>1, <1>4 DEF LimiterInv, LiveHits
    <3> QED
      BY <2>2, <2>4, <3>1, <3>2, <1>3 DEF Gap
  <2> QED
    BY <2>3, <2>4
<1>7. LiveHits'
  BY <1>1, <1>2, <1>3, <1>4, <1>5, <1>6 DEF LiveHits
<1> QED
  BY <1>1, <1>2, <1>3, <1>4, <1>7

\* What is known of the admissions before a request: the counter grows by one,
\* the new key outlives all admissions by a window, and those that are not a
\* window old have all been granted by a key.
LEMMA IncrLiveAdmits ==
    ASSUME LimiterInv, IncrExpire
    PROVE  /\ \A i \in DOMAIN admits : admits[i] <= now /\ admits[i] + Window <= expireAt'
           /\ Limit * evictions \in Nat /\ Limit * (1 + evictions) = Limit * evictions + Limit
           /\ Current \in Nat /\ Current' = Current + 1 /\ Spent' \in Nat
           /\ \E b \in 0 .. Len(admits) :
                 /\ Len(admits) - b <= Limit * evictions + Spent
                 /\ \A i \in 1 .. b : admits[i] + Window <= now
<1>1. /\ admits \in Seq(Nat) /\ DOMAIN admits = 1 .. Len(admits)
      /\ now \in Nat /\ expireAt' = now + Window /\ evictions \in Nat
  BY DEF LimiterInv, LimiterTypeOK, IncrExpire
<1>2. Current \in Nat /\ Current' = Current + 1 /\ Spent' \in Nat
  BY IncrLiveHits DEF Current, Spent
<1>3. Limit * evictions \in Nat /\ Limit * (1 + evictions) = Limit * evictions + Limit
  BY <1>1
<1>4. ASSUME NEW i \in DOMAIN admits
      PROVE  admits[i] <= now /\ admits[i] + Window <= expireAt'
  <2>1. admits[i] \in Nat /\ admits[i] <= now
    BY <1>1 DEF LimiterInv, LiveAdmits
  <2> QED
    BY <2>1, <1>1
<1> QED
  BY <1>2, <1>3, <1>4 DEF LimiterInv, LiveAdmits

\* A request that is not admitted adds a hit and no admission.
LEMMA RefuseStep ==
    ASSUME LimiterInv, Refuse \/ LoseReply
    PROVE  LimiterInv'
<1>1. IncrExpire /\ admits' = admits /\ evictions' = evictions /\ now' = now
  BY DEF Refuse, LoseReply, IncrExpire
<1>2. /\ LiveHits'
      /\ count' \in Nat \ {0} /\ expireAt' \in Nat /\ hits' \in Seq(Nat)
  BY <1>1, IncrLiveHits
<1>3. LimiterTypeOK'
  BY <1>1, <1>2 DEF LimiterInv, LimiterTypeOK
<1>4. ExpiryBound'
  BY <1>1, <1>2 DEF IncrExpire, ExpiryBound, LimiterInv, LimiterTypeOK
<1>5. LiveAdmits'
  <2>1. PICK b \in 0 .. Len(admits) :
           /\ Len(admits) - b <= Limit * evictions + Spent
           /\ \A i \in 1 .. b : admits[i] + Window <= now
    BY <1>1, IncrLiveAdmits
  <2>2. Spent \in Nat /\ Spent <= Spent'
    BY <1>1, IncrLiveAdmits DEF Spent
  <2>3. Limit * evictions \in Nat /\ Len(admits) \in Nat /\ Spent' \in Nat
    BY <1>1, IncrLiveAdmits DEF LimiterInv, LimiterTypeOK
  <2>4. Len(admits) - b <= Limit * evictions + Spent'
    BY <2>1, <2>2, <2>3
  <2>5. \A i \in DOMAIN admits : admits[i] <= now /\ admits[i] + Window <= expireAt'
    BY <1>1, IncrLiveAdmits
  <2> QED
    BY <1>1, <2>1, <2>4, <2>5 DEF LiveAdmits
<1>6. EvictionBound'
  BY <1>1 DEF LimiterInv, EvictionBound
<1> QED
  BY <1>2, <1>3, <1>4, <1>5, <1>6 DEF LimiterInv

\* An admission: the counter has not passed the limit, so the admission made
\* as many places before as the keys could grant lies a window back.
LEMMA AdmitStep ==
    ASSUME LimiterInv, Admit
    PROVE  LimiterInv'
<1>1. /\ IncrExpire /\ admits' = Append(admits, now) /\ evictions' = evictions
      /\ now' = now /\ expireAt' = now + Window /\ count' <= Limit
  BY DEF Admit, IncrExpire
<1>2. /\ LiveHits'
      /\ count' \in Nat \ {0} /\ expireAt' \in Nat /\ hits' \in Seq(Nat)
      /\ Current' = count'
  BY <1>1, IncrLiveHits DEF Current
<1>3. /\ admits \in Seq(Nat) /\ Len(admits) \in Nat /\ DOMAIN admits = 1 .. Len(admits)
      /\ now \in Nat
  BY DEF LimiterInv, LimiterTypeOK
<1>4. /\ admits' \in Seq(Nat) /\ Len(admits') = Len(admits) + 1
      /\ DOMAIN admits' = 1 .. Len(admits) + 1
      /\ \A i \in 1 .. Len(admits) : admits'[i] = admits[i]
      /\ admits'[Len(admits) + 1] = now
  BY <1>1, <1>3
<1>5. LimiterTypeOK'
  BY <1>1, <1>2, <1>4 DEF LimiterInv, LimiterTypeOK
<1>6. ExpiryBound'
  BY <1>1, <1>3 DEF ExpiryBound
<1>7. PICK b \in 0 .. Len(admits) :
         /\ Len(admits) - b <= Limit * evictions + Spent
         /\ \A i \in 1 .. b : admits[i] + Window <= now
  BY <1>1, IncrLiveAdmits
<1>8. /\ Limit * evictions \in Nat /\ Limit * (1 + evictions) = Limit * evictions + Limit
      /\ Current \in Nat /\ Current' = Current + 1
  BY <1>1, IncrLiveAdmits
<1>9. Spent = Current /\ Spent' = Current + 1 /\ Spent + 1 <= Limit
  BY <1>1, <1>2, <1>8 DEF Spent
<1>10. LiveAdmits'
  <2>1. \A i \in DOMAIN admits' : admits'[i] <= now /\ admits'[i] + Window <= expireAt'
    <3>1. TAKE i \in DOMAIN admits'
    <3>2. CASE i \in DOMAIN admits
      BY <3>2, <1>1, <1>3, <1>4, IncrLiveAdmits
    <3>3. CASE i = Len(admits) + 1
      BY <3>3, <1>1, <1>3, <1>4
    <3> QED
      BY <3>1, <3>2, <3>3, <1>3, <1>4
  <2>2. b \in 0 .. Len(admits') /\ Len(admits') - b <= Limit * evictions + Spent'
    BY <1>3, <1>4, <1>7, <1>8, <1>9
  <2>3. \A i \in 1 .. b : admits'[i] + Window <= now
    BY <1>3, <1>4, <1>7
  <2> QED
    BY <1>1, <2>1, <2>2, <2>3 DEF LiveAdmits
<1>11. EvictionBound'
  <2> SUFFICES ASSUME NEW i \in DOMAIN admits', NEW j \in DOMAIN admits',
                      i + Limit * (1 + evictions) <= j
               PROVE  admits'[i] + Window <= admits'[j]
    BY <1>1 DEF EvictionBound
  <2>1. i \in 1 .. Len(admits) + 1 /\ j \in 1 .. Len(admits) + 1 /\ i < j
    BY <1>3, <1>4, <1>8
  <2>2. CASE j \in 1 .. Len(admits)
    <3>1. i \in DOMAIN admits /\ j \in DOMAIN admits
      BY <1>3, <2>1, <2>2
    <3>2. admits[i] + Window <= admits[j]
      BY <3>1 DEF LimiterInv, EvictionBound
    <3> QED
      BY <1>3, <1>4, <3>1, <3>2
  <2>3. CASE j = Len(admits) + 1
    <3>1. Len(admits) + 1 - b <= Limit * (1 + evictions)
      BY <1>3, <1>7, <1>8, <1>9
    <3>2. i \in 1 .. b
      BY <2>1, <2>3, <3>1, <1>3, <1>8
    <3> QED
      BY <3>2, <2>3, <1>3, <1>4, <1>7
  <2> QED
    BY <2>1, <2>2, <2>3, <1>3
<1> QED
  BY <1>2, <1>5, <1>6, <1>10, <1>11 DEF LimiterInv

\* An eviction frees one quota: what the key has granted is counted as the
\* quota of an evicted key from now on.
LEMMA EvictStep ==
    ASSUME LimiterInv, Evict
    PROVE  LimiterInv'
<1>1. /\ now' = now /\ hits' = hits /\ admits' = admits
      /\ count' = 0 /\ expireAt' = now
      /\ evictions < MaxEvictions /\ evictions' = evictions + 1
  BY DEF Evict
<1>2. LimiterTypeOK' /\ ExpiryBound' /\ LiveHits'
  BY <1>1 DEF LimiterInv, LimiterTypeOK, ExpiryBound, LiveHits
<1>3. /\ evictions \in Nat /\ Len(admits) \in Nat
      /\ Limit * evictions \in Nat
      /\ Limit * evictions' = Limit * evictions + Limit
      /\ Limit * (1 + evictions) <= Limit * (1 + evictions')
      /\ Limit * (1 + evictions) \in Nat /\ Limit * (1 + evictions') \in Nat
  <2>1. evictions \in Nat /\ Len(admits) \in Nat /\ evictions' = evictions + 1
    BY <1>1 DEF LimiterInv, LimiterTypeOK
  <2>2. /\ Limit * (evictions + 1) = Limit * evictions + Limit
        /\ Limit * (1 + evictions) = Limit * evictions + Limit
        /\ Limit * (1 + (evictions + 1)) = Limit * evictions + Limit + Limit
        /\ Limit * evictions \in Nat
    BY <2>1
  <2> QED
    BY <2>1, <2>2
<1>4. Spent \in Nat /\ Spent <= Limit /\ Current' = 0 /\ Spent' = 0
  BY <1>1 DEF LimiterInv, LimiterTypeOK, Spent, Current
<1>5. LiveAdmits'
  <2>1. PICK b \in 0 .. Len(admits) :
           /\ Len(admits) - b <= Limit * evictions + Spent
           /\ \A i \in 1 .. b : admits[i] + Window <= now
    BY DEF LimiterInv, LiveAdmits
  <2>2. Len(admits) - b <= Limit * evictions' + Spent'
    BY <2>1, <1>3, <1>4
  <2>3. /\ \A i \in DOMAIN admits' : admits'[i] <= now'
        /\ \A i \in 1 .. b : admits'[i] + Window <= now'
    BY <1>1, <2>1 DEF LimiterInv, LiveAdmits
  <2>4. b \in 0 .. Len(admits') /\ Len(admits') - b <= Limit * evictions' + Spent'
    BY <1>1, <2>1, <2>2
  <2>5. ~(Current' > 0)
    BY <1>4
  <2> QED
    BY <2>3, <2>4, <2>5 DEF LiveAdmits
<1>6. EvictionBound'
  <2> SUFFICES ASSUME NEW i \in DOMAIN admits, NEW j \in DOMAIN admits,
                      i + Limit * (1 + evictions') <= j
               PROVE  admits[i] + Window <= admits[j]
    BY <1>1 DEF EvictionBound
  <2>1. i \in Nat /\ j \in Nat
    BY DEF LimiterInv, LimiterTypeOK
  <2>2. i + Limit * (1 + evictions) <= j
    BY <2>1, <1>3
  <2> QED
    BY <2>2 DEF LimiterInv, EvictionBound
<1> QED
  BY <1>2, <1>5, <1>6 DEF LimiterInv

\* The clock may expire the key; then all admissions lie a window back.
LEMMA TickStep ==
    ASSUME LimiterInv, Tick
    PROVE  LimiterInv'
<1>1. /\ now' = now + 1
      /\ UNCHANGED <<count, expireAt, hits, admits, evictions>>
  BY DEF Tick
<1>2. /\ now \in Nat /\ count \in Nat /\ expireAt \in Nat /\ evictions \in Nat
      /\ hits \in Seq(Nat) /\ Len(hits) \in Nat
      /\ admits \in Seq(Nat) /\ Len(admits) \in Nat /\ DOMAIN admits = 1 .. Len(admits)
  BY DEF LimiterInv, LimiterTypeOK
<1>3. LimiterTypeOK' /\ ExpiryBound' /\ EvictionBound'
  BY <1>1, <1>2 DEF LimiterInv, LimiterTypeOK, ExpiryBound, EvictionBound
<1>4. LiveHits'
  <2> SUFFICES ASSUME now + 1 < expireAt, count > 0
               PROVE  /\ count <= Len(hits)
                      /\ expireAt = hits[Len(hits)] + Window
                      /\ \A i \in Len(hits) - count + 1 .. Len(hits) - 1 : Gap(i)' < Window
    BY <1>1 DEF LiveHits
  <2>1. now < expireAt
    BY <1>2
  <2>2. \A i \in Len(hits) - count + 1 .. Len(hits) - 1 : Gap(i)' = Gap(i)
    BY <1>1, <1>2 DEF Gap
  <2> QED
    BY <2>1, <2>2 DEF LimiterInv, LiveHits
<1>5. LiveAdmits'
  <2>1. \A i \in DOMAIN admits : admits[i] \in Nat /\ admits[i] <= now + 1
    BY <1>2 DEF LimiterInv, LiveAdmits
  <2>2. Current' > 0 => Current' = Current
    BY <1>1, <1>2 DEF Current
  <2>3. Current' > 0 => \A i \in DOMAIN admits : admits[i] + Window <= expireAt
    BY <2>2 DEF LimiterInv, LiveAdmits
  <2>4. \E b \in 0 .. Len(admits) :
           /\ Len(admits) - b <= Limit * evictions + Spent'
           /\ \A i \in 1 .. b : admits[i] + Window <= now + 1
    <3>1. CASE Current' = Current
      <4>1. Spent' = Spent
        BY <3>1 DEF Spent
      <4>2. PICK b \in 0 .. Len(admits) :
               /\ Len(admits) - b <= Limit * evictions + Spent
               /\ \A i \in 1 .. b : admits[i] + Window <= now
        BY DEF LimiterInv, LiveAdmits
      <4>3. \A i \in 1 .. b : admits[i] + Window <= now + 1
        BY <4>2, <2>1, <1>2
      <4> QED
        BY <4>1, <4>2, <4>3
    <3>2. CASE Current' # Current
      <4>1. Current' = 0 /\ Current > 0 /\ expireAt <= now + 1
        BY <3>2, <1>1, <1>2 DEF Current
      <4>2. \A i \in 1 .. Len(admits) : admits[i] + Window <= now + 1
        <5>1. \A i \in DOMAIN admits : admits[i] + Window <= expireAt
          BY <4>1 DEF LimiterInv, LiveAdmits
        <5> SUFFICES ASSUME NEW i \in 1 .. Len(admits)
                     PROVE  admits[i] + Window <= now + 1
          OBVIOUS
        <5>2. i \in DOMAIN admits /\ admits[i] \in Nat
          BY <1>2
        <5>3. admits[i] + Window <= expireAt
          BY <5>1, <5>2
        <5> QED
          BY <5>2, <5>3, <4>1, <1>2
      <4>3. Spent' = 0 /\ Limit * evictions \in Nat
        BY <4>1, <1>2 DEF Spent
      <4>4. Len(admits) \in 0 .. Len(admits) /\ Len(admits) - Len(admits) <= Limit * evictions + Spent'
        BY <4>3, <1>2
      <4> QED
        BY <4>2, <4>4
    <3> QED
      BY <3>1, <3>2
  <2> QED
    BY <1>1, <2>1, <2>3, <2>4 DEF LiveAdmits
<1> QED
  BY <1>3, <1>4, <1>5 DEF LimiterInv

\* Every step keeps the invariant.
LEMMA LimiterStep == LimiterInv /\ [LimiterNext]_limiterVars => LimiterInv'
<1>1. CASE UNCHANGED limiterVars
  BY <1>1 DEF limiterVars, LimiterInv, LimiterTypeOK, LiveHits, LiveAdmits, ExpiryBound, EvictionBound, Gap,
              Current, Spent
<1> QED
  BY <1>1, RefuseStep, AdmitStep, EvictStep, TickStep DEF LimiterNext

\* The inductive invariant holds in every reachable state.
THEOREM LimiterInvariance == LimiterSpec => []LimiterInv
  BY LimiterStart, LimiterStep, PTL DEF LimiterSpec

\* No window holds more than Limit admissions and Limit more for each eviction.
THEOREM EvictionBoundHolds == LimiterSpec => []EvictionBound
<1>1. LimiterInv => EvictionBound
  BY DEF LimiterInv
<1> QED
  BY <1>1, LimiterInvariance, PTL

\* While Redis keeps the key, no window holds more than Limit admissions.
THEOREM WindowBoundHolds == LimiterSpec => []WindowBound
<1>1. LimiterInv => WindowBound
  <2>1. evictions = 0 => Limit * (1 + evictions) = Limit
    OBVIOUS
  <2> QED
    BY <2>1 DEF LimiterInv, EvictionBound, WindowBound
<1> QED
  BY <1>1, LimiterInvariance, PTL

\* Only a client that has not rested for a window is refused.
THEOREM RefusalMeansNoRestHolds == LimiterSpec => RefusalMeansNoRest
<1>1. ASSUME LimiterInv, Refuse
      PROVE  /\ Len(hits) >= Limit
             /\ \A i \in Len(hits) - Limit + 1 .. Len(hits) : Gap(i) < Window
  <2>1. IncrExpire /\ count' > Limit
    BY <1>1 DEF Refuse
  <2>2. /\ now \in Nat /\ count \in Nat /\ expireAt \in Nat
        /\ hits \in Seq(Nat) /\ Len(hits) \in Nat
    BY <1>1 DEF LimiterInv, LimiterTypeOK
  <2>3. now < expireAt /\ count >= Limit /\ count > 0
    BY <2>1, <2>2 DEF IncrExpire, Current
  <2>4. /\ count <= Len(hits)
        /\ expireAt = hits[Len(hits)] + Window
        /\ \A i \in Len(hits) - count + 1 .. Len(hits) - 1 : Gap(i) < Window
    BY <1>1, <2>3 DEF LimiterInv, LiveHits
  <2>5. hits[Len(hits)] \in Nat
    BY <2>2, <2>3, <2>4
  <2>6. Gap(Len(hits)) < Window
    BY <2>2, <2>3, <2>4, <2>5 DEF Gap
  <2>7. Len(hits) >= Limit
    BY <2>2, <2>3, <2>4
  <2>8. ASSUME NEW i \in Len(hits) - Limit + 1 .. Len(hits)
        PROVE  Gap(i) < Window
    <3>1. i = Len(hits) \/ i \in Len(hits) - count + 1 .. Len(hits) - 1
      BY <2>2, <2>3, <2>4
    <3> QED
      BY <3>1, <2>4, <2>6
  <2> QED
    BY <2>7, <2>8
<1> QED
  BY <1>1, LimiterInvariance, PTL DEF LimiterSpec, RefusalMeansNoRest
=============================================================================
