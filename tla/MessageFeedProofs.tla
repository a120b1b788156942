------------------------- MODULE MessageFeedProofs -------------------------
(***************************************************************************)
(* Proofs about MessageFeed, for every set of messages, size of pages and    *)
(* choice of timestamps: a message the cache has been told of as the code    *)
(* promises is shown if and only if it is stored, as far back as was read,   *)
(* and, where nothing was deleted or put below the only page, the history    *)
(* can be read to its start.                                                 *)
(***************************************************************************)
EXTENDS MessageFeed, FiniteSetTheorems, SequenceTheorems, TLAPS

-----------------------------------------------------------------------------
(* Sorting. *)

Keys(key, S) == \A m \in S : key[m] \in Nat

(* What stands before m in S. *)
Earlier(key, S, m) == {n \in S : Precedes(key, n, m)}

LEMMA Ordered ==
    ASSUME NEW S, S \subseteq Nat, NEW key, Keys(key, S)
    PROVE  /\ \A m \in S : ~Precedes(key, m, m)
           /\ \A m, n \in S : Precedes(key, m, n) => ~Precedes(key, n, m)
           /\ \A m, n \in S : m # n => Precedes(key, m, n) \/ Precedes(key, n, m)
           /\ \A l, m, n \in S : Precedes(key, l, m) /\ Precedes(key, m, n) => Precedes(key, l, n)
BY DEF Precedes, Keys

LEMMA Ranks ==
    ASSUME NEW S, IsFiniteSet(S), S \subseteq Nat, NEW key, Keys(key, S)
    PROVE  /\ \A m \in S : Cardinality(Earlier(key, S, m)) \in 0 .. Cardinality(S) - 1
           /\ \A m, n \in S : /\ Precedes(key, m, n) =>
                                   Cardinality(Earlier(key, S, m)) < Cardinality(Earlier(key, S, n))
                              /\ m # n => Precedes(key, m, n) \/ Precedes(key, n, m)
<1> DEFINE E(m) == Earlier(key, S, m)
<1>1. \A m \in S : ~Precedes(key, m, m)
  BY Ordered
<1>2. \A m, n \in S : m # n => Precedes(key, m, n) \/ Precedes(key, n, m)
  BY Ordered
<1>3. \A l, m, n \in S : Precedes(key, l, m) /\ Precedes(key, m, n) => Precedes(key, l, n)
  BY Ordered
<1>4. Cardinality(S) \in Nat
  BY FS_CardinalityType
<1>5. ASSUME NEW m \in S
      PROVE  /\ IsFiniteSet(E(m)) /\ Cardinality(E(m)) \in Nat
             /\ Cardinality(E(m)) \in 0 .. Cardinality(S) - 1
  <2>1. E(m) \in SUBSET S /\ m \notin E(m)
    BY <1>1 DEF Earlier
  <2>2. IsFiniteSet(E(m)) /\ Cardinality(E(m)) <= Cardinality(S) /\ Cardinality(E(m)) # Cardinality(S)
    BY <2>1, FS_Subset
  <2>3. Cardinality(E(m)) \in Nat
    BY <2>2, FS_CardinalityType
  <2> QED
    BY <1>4, <2>2, <2>3
<1>6. ASSUME NEW m \in S, NEW n \in S, Precedes(key, m, n)
      PROVE  Cardinality(E(m)) < Cardinality(E(n))
  <2>1. E(m) \in SUBSET E(n)
    BY <1>3, <1>6 DEF Earlier
  <2>2. m \in E(n) /\ m \notin E(m)
    BY <1>1, <1>6 DEF Earlier
  <2>3. Cardinality(E(m)) <= Cardinality(E(n)) /\ Cardinality(E(m)) # Cardinality(E(n))
    BY <1>5, <2>1, <2>2, FS_Subset
  <2> QED
    BY <1>5, <2>3
<1> QED
  BY <1>2, <1>5, <1>6

(* A sort puts out every element once, in order. *)
LEMMA Sorted ==
    ASSUME NEW S, IsFiniteSet(S), S \subseteq Nat, NEW key, Keys(key, S)
    PROVE  /\ InOrder(S, key) \in Seq(S)
           /\ Len(InOrder(S, key)) = Cardinality(S) /\ Cardinality(S) \in Nat
           /\ \A m \in S : \E i \in 1 .. Cardinality(S) : InOrder(S, key)[i] = m
           /\ \A i, j \in 1 .. Cardinality(S) :
                 i < j => Precedes(key, InOrder(S, key)[i], InOrder(S, key)[j])
           /\ \A i, j \in 1 .. Cardinality(S) : InOrder(S, key)[i] = InOrder(S, key)[j] => i = j
<1> DEFINE rank == [m \in S |-> Cardinality(Earlier(key, S, m))]
           size == Cardinality(S)
           s == InOrder(S, key)
<1>1. size \in Nat
  BY FS_CardinalityType
<1>2. rank \in [S -> 0 .. size - 1]
  BY Ranks
<1>3. \A m, n \in S : rank[m] = rank[n] => m = n
  <2> SUFFICES ASSUME NEW m \in S, NEW n \in S, m # n PROVE rank[m] # rank[n]
    OBVIOUS
  <2>1. rank[m] \in Nat /\ rank[n] \in Nat
    BY <1>1, <1>2
  <2>2. rank[m] < rank[n] \/ rank[n] < rank[m]
    BY Ranks
  <2> QED
    BY <2>1, <2>2
<1>4. IsFiniteSet(0 .. size - 1) /\ Cardinality(0 .. size - 1) = size
  <2>1. 0 \in Int /\ size - 1 \in Int
    BY <1>1
  <2>2. /\ IsFiniteSet(0 .. size - 1)
        /\ Cardinality(0 .. size - 1) = IF 0 > size - 1 THEN 0 ELSE (size - 1) - 0 + 1
    BY <2>1, FS_Interval
  <2> QED
    BY <1>1, <2>2
<1>5. rank \in Injection(S, 0 .. size - 1)
  BY <1>2, <1>3 DEF Injection, IsInjective
<1>6. rank \in Surjection(S, 0 .. size - 1)
  BY <1>4, <1>5, FS_Injection
<1>7. \A i \in 0 .. size - 1 : \E m \in S : rank[m] = i
  BY <1>6 DEF Surjection
<1>8. s = [i \in 1 .. size |-> CHOOSE m \in S : Cardinality(Earlier(key, S, m)) = i - 1]
  BY DEF InOrder, Earlier
<1>9. ASSUME NEW i \in 1 .. size PROVE s[i] \in S /\ rank[s[i]] = i - 1
  <2>1. \E m \in S : Cardinality(Earlier(key, S, m)) = i - 1
    <3>1. i - 1 \in 0 .. size - 1
      BY <1>1
    <3> QED
      BY <1>7, <3>1
  <2>2. s[i] = CHOOSE m \in S : Cardinality(Earlier(key, S, m)) = i - 1
    BY <1>8
  <2> QED
    BY <2>1, <2>2
<1>10. s \in Seq(S) /\ Len(s) = size
  <2>1. s \in [1 .. size -> S]
    BY <1>8, <1>9
  <2> HIDE DEF s, size
  <2> QED
    BY <1>1, <2>1
<1>11. ASSUME NEW m \in S PROVE \E i \in 1 .. size : s[i] = m
  <2>1. PICK i \in 1 .. size : i - 1 = rank[m]
    <3>1. rank[m] + 1 \in 1 .. size /\ (rank[m] + 1) - 1 = rank[m]
      BY <1>1, <1>2
    <3> QED
      BY <3>1
  <2>2. s[i] \in S /\ rank[s[i]] = i - 1
    BY <1>9
  <2> QED
    BY <1>3, <2>1, <2>2
<1>12. ASSUME NEW i \in 1 .. size, NEW j \in 1 .. size, s[i] = s[j] PROVE i = j
  <2>1. rank[s[i]] = i - 1 /\ rank[s[j]] = j - 1
    BY <1>9
  <2> QED
    BY <1>1, <1>12, <2>1
<1>13. ASSUME NEW i \in 1 .. size, NEW j \in 1 .. size, i < j PROVE Precedes(key, s[i], s[j])
  <2>1. s[i] \in S /\ s[j] \in S /\ rank[s[i]] = i - 1 /\ rank[s[j]] = j - 1
    BY <1>9
  <2>2. s[i] # s[j]
    BY <1>1, <1>12, <1>13
  <2>3. ~ (rank[s[j]] < rank[s[i]])
    BY <1>1, <1>13, <2>1
  <2> QED
    BY <2>1, <2>2, <2>3, Ranks
<1> QED
  BY <1>1, <1>10, <1>11, <1>12, <1>13

-----------------------------------------------------------------------------
(* Pages. *)

LEMMA Members ==
    ASSUME NEW S, NEW q \in Seq(S)
    PROVE  /\ Len(q) \in Nat /\ DOMAIN q = 1 .. Len(q) /\ ToSet(q) \subseteq S
           /\ \A i \in 1 .. Len(q) : q[i] \in S /\ q[i] \in ToSet(q)
           /\ \A x \in ToSet(q) : \E i \in 1 .. Len(q) : q[i] = x
           /\ IsInjective(q) <=> \A i, j \in 1 .. Len(q) : q[i] = q[j] => i = j
<1>1. Len(q) \in Nat /\ DOMAIN q = 1 .. Len(q) /\ \A i \in 1 .. Len(q) : q[i] \in S
  BY LenProperties, ElementOfSeq
<1> QED
  BY <1>1 DEF ToSet, IsInjective

(* What the server sends of the rows before a cursor: nothing else, nothing *)
(* twice, either all of them or the newest, and the oldest of them first.  *)
LEMMA PageRead ==
    ASSUME ts \in Clocks, NEW c
    PROVE  /\ GetMessages(c) \in Seq(Messages) /\ IsInjective(GetMessages(c))
           /\ ToSet(GetMessages(c)) \subseteq Selected(c)
           /\ \A m \in Selected(c) :
                 Len(GetMessages(c)) < PAGE_SIZE \/ ~Before(m, GetMessages(c)[1])
                    => m \in ToSet(GetMessages(c))
           /\ \A m \in ToSet(GetMessages(c)) : ~Before(m, GetMessages(c)[1])
<1> DEFINE all == InOrder(Selected(c), ts)
           n == Len(all)
           from == IF n > PAGE_SIZE THEN n - PAGE_SIZE + 1 ELSE 1
           page == GetMessages(c)
<1>1. /\ Selected(c) \subseteq Messages /\ IsFiniteSet(Selected(c)) /\ Selected(c) \subseteq Nat
      /\ Keys(ts, Selected(c)) /\ Keys(ts, Messages)
  BY FeedAssumption, FS_Subset DEF Selected, Stored, Keys
<1>2. /\ all \in Seq(Selected(c)) /\ n \in Nat
      /\ \A m \in Selected(c) : \E i \in 1 .. n : all[i] = m
      /\ \A i, j \in 1 .. n : i < j => Precedes(ts, all[i], all[j])
      /\ \A i, j \in 1 .. n : all[i] = all[j] => i = j
  BY <1>1, Sorted
<1>3. \A i \in 1 .. n : all[i] \in Selected(c)
  BY <1>2, Members
<1>4. page = SubSeq(all, from, n)
  BY DEF GetMessages
<1>5. /\ from \in 1 .. n + 1 /\ PAGE_SIZE \in Nat \ {0}
      /\ from = IF n > PAGE_SIZE THEN n - PAGE_SIZE + 1 ELSE 1
  BY <1>2, FeedAssumption
<1> HIDE DEF page, from, n, all
<1>6. /\ page \in Seq(Selected(c)) /\ Len(page) = n - from + 1
      /\ \A i \in 1 .. Len(page) : page[i] = all[from + i - 1]
  <2>1. \A i \in from .. n : all[i] \in Selected(c)
    BY <1>2, <1>3, <1>5
  <2>2. /\ page \in Seq(Selected(c)) /\ Len(page) = IF from <= n THEN n - from + 1 ELSE 0
        /\ \A i \in 1 .. n - from + 1 : page[i] = all[from + i - 1]
    BY <1>2, <1>4, <1>5, <2>1, SubSeqProperties
  <2> QED
    BY <1>2, <1>5, <2>2
<1>7. page \in Seq(Messages) /\ ToSet(page) \subseteq Selected(c)
  BY <1>1, <1>6, Members, SeqMonotonic
<1>8. IsInjective(page)
  <2>1. \A i, j \in 1 .. Len(page) : page[i] = page[j] => i = j
    <3> SUFFICES ASSUME NEW i \in 1 .. Len(page), NEW j \in 1 .. Len(page), page[i] = page[j]
                 PROVE  i = j
      OBVIOUS
    <3> DEFINE len == Len(page)
    <3>0. from \in Nat /\ from >= 1 /\ n \in Nat /\ len = n - from + 1
      BY <1>2, <1>5, <1>6
    <3> HIDE DEF len
    <3>1. from + i - 1 \in 1 .. n /\ from + j - 1 \in 1 .. n
      <4>1. i \in 1 .. len /\ j \in 1 .. len
        BY DEF len
      <4> QED
        BY <3>0, <4>1
    <3>2. all[from + i - 1] = all[from + j - 1]
      BY <1>6
    <3>3. from + i - 1 = from + j - 1
      BY <1>2, <3>1, <3>2
    <3> QED
      BY <1>5, <3>3
  <2> QED
    BY <1>7, <2>1, Members
<1>9. ASSUME NEW m \in Selected(c), Len(page) < PAGE_SIZE \/ ~Before(m, page[1])
      PROVE  m \in ToSet(page)
  <2>1. PICK j \in 1 .. n : all[j] = m
    BY <1>2
  <2>2. j >= from
    <3>1. CASE Len(page) < PAGE_SIZE
      BY <1>2, <1>5, <1>6, <3>1
    <3>2. CASE Len(page) >= PAGE_SIZE /\ ~Before(m, page[1])
      <4>1. 1 \in 1 .. Len(page) /\ from \in 1 .. n
        BY <1>2, <1>5, <1>6, <3>2
      <4>2. page[1] = all[from]
        BY <1>5, <1>6, <4>1
      <4>3. ~Precedes(ts, all[j], all[from])
        BY <2>1, <3>2, <4>2 DEF Before
      <4> QED
        BY <1>2, <4>1, <4>3
    <3> QED
      BY <1>2, <1>5, <1>6, <1>9, <3>1, <3>2
  <2>3. j - from + 1 \in 1 .. Len(page) /\ from + (j - from + 1) - 1 = j
    BY <1>2, <1>5, <1>6, <2>2
  <2>4. page[j - from + 1] = m
    BY <1>6, <2>1, <2>3
  <2> QED
    BY <1>7, <2>3, <2>4, Members
<1>10. ASSUME NEW m \in ToSet(page) PROVE ~Before(m, page[1])
  <2>1. PICK i \in 1 .. Len(page) : page[i] = m
    BY <1>7, Members
  <2>2. /\ 1 \in 1 .. Len(page) /\ page[1] = all[from] /\ m = all[from + i - 1]
        /\ from \in 1 .. n /\ from + i - 1 \in 1 .. n /\ i \in Nat /\ i >= 1
    <3> DEFINE len == Len(page)
    <3>1. from \in Nat /\ from >= 1 /\ n \in Nat /\ len = n - from + 1 /\ i \in 1 .. len
      BY <1>2, <1>5, <1>6
    <3> HIDE DEF len
    <3>2. /\ 1 \in 1 .. len /\ from \in 1 .. n /\ from + i - 1 \in 1 .. n
          /\ i \in Nat /\ i >= 1 /\ from + 1 - 1 = from
      BY <3>1
    <3> QED
      BY <1>6, <2>1, <3>2 DEF len
  <2>3. all[from] \in Messages /\ m \in Messages
    BY <1>1, <1>3, <2>2
  <2>4. m = all[from] \/ Precedes(ts, all[from], m)
    <3>1. i = 1 \/ from < from + i - 1
      BY <2>2
    <3> QED
      BY <1>2, <2>2, <3>1
  <2>5. ~Precedes(ts, m, all[from])
    <3>1. Messages \subseteq Nat /\ Keys(ts, Messages)
      BY <1>1, FeedAssumption
    <3>2. \A x, y \in Messages : Precedes(ts, x, y) => ~Precedes(ts, y, x)
      BY <3>1, Ordered
    <3>3. ~Precedes(ts, m, m)
      BY <2>3, <3>1, Ordered
    <3> QED
      BY <2>3, <2>4, <3>2, <3>3
  <2> QED
    BY <2>2, <2>5 DEF Before
<1> QED
  BY <1>7, <1>8, <1>9, <1>10 DEF page

(* A filtered page has lost what was filtered, and nothing else. *)
LEMMA Filtered ==
    ASSUME NEW page \in Seq(Messages), IsInjective(page), NEW m
    PROVE  /\ Without(page, m) \in Seq(Messages) /\ IsInjective(Without(page, m))
           /\ ToSet(Without(page, m)) = ToSet(page) \ {m}
<1> DEFINE K == {k \in DOMAIN page : page[k] # m}
           key == [k \in DOMAIN page |-> k]
           kept == InOrder(K, key)
           n == Cardinality(K)
           w == Without(page, m)
<1>1. /\ Len(page) \in Nat /\ DOMAIN page = 1 .. Len(page)
      /\ \A i \in 1 .. Len(page) : page[i] \in Messages /\ page[i] \in ToSet(page)
      /\ \A x \in ToSet(page) : \E i \in 1 .. Len(page) : page[i] = x
      /\ \A i, j \in 1 .. Len(page) : page[i] = page[j] => i = j
  BY Members
<1>2. IsFiniteSet(K) /\ K \subseteq Nat /\ Keys(key, K) /\ K \subseteq 1 .. Len(page)
  <2>1. IsFiniteSet(1 .. Len(page)) /\ K \in SUBSET (1 .. Len(page))
    BY <1>1, FS_Interval
  <2>2. IsFiniteSet(K)
    BY <2>1, FS_Subset
  <2> QED
    BY <1>1, <2>1, <2>2 DEF Keys
<1>3. \A k \in K : k \in 1 .. Len(page) /\ page[k] # m
  BY <1>2
<1>4. \A i \in 1 .. Len(page) : page[i] # m => i \in K
  BY <1>1
<1> HIDE DEF K, key
<1>5. /\ kept \in Seq(K) /\ Len(kept) = n /\ n \in Nat
      /\ \A k \in K : \E i \in 1 .. n : kept[i] = k
      /\ \A i, j \in 1 .. n : kept[i] = kept[j] => i = j
  BY <1>2, Sorted, ZenonT(30)
<1> HIDE DEF kept, n, w
<1>6. DOMAIN kept = 1 .. n /\ \A i \in 1 .. n : kept[i] \in K
  BY <1>5, Members
<1>7. w = [i \in 1 .. n |-> page[kept[i]]]
  BY <1>6 DEF Without, K, key, kept, w
<1>8. w \in Seq(Messages) /\ Len(w) = n /\ \A i \in 1 .. n : w[i] = page[kept[i]]
  <2>1. \A i \in 1 .. n : page[kept[i]] \in Messages
    BY <1>1, <1>3, <1>6
  <2>2. w \in [1 .. n -> Messages]
    BY <1>7, <2>1
  <2> QED
    BY <1>5, <1>7, <2>2
<1>9. IsInjective(w)
  <2>1. \A i, j \in 1 .. n : w[i] = w[j] => i = j
    BY <1>1, <1>3, <1>5, <1>6, <1>8
  <2> QED
    BY <1>8, <2>1, Members
<1>10. ASSUME NEW x PROVE x \in ToSet(w) <=> x \in ToSet(page) /\ x # m
  <2>1. ASSUME x \in ToSet(w) PROVE x \in ToSet(page) /\ x # m
    BY <1>1, <1>3, <1>6, <1>8, <2>1, Members
  <2>2. ASSUME x \in ToSet(page), x # m PROVE x \in ToSet(w)
    <3>1. PICK k \in 1 .. Len(page) : page[k] = x
      BY <1>1, <2>2
    <3>2. PICK i \in 1 .. n : kept[i] = k
      BY <1>4, <1>5, <2>2, <3>1
    <3>3. w[i] = x
      BY <1>8, <3>1, <3>2
    <3> QED
      BY <1>8, <3>3, Members
  <2> QED
    BY <2>1, <2>2
<1> QED
  BY <1>8, <1>9, <1>10 DEF w

Distinct(ps) == \A i \in DOMAIN ps : IsInjective(ps[i])

LEMMA HeldBy ==
    ASSUME NEW ps \in Seq(Seq(Messages))
    PROVE  /\ Len(ps) \in Nat /\ DOMAIN ps = 1 .. Len(ps)
           /\ \A i \in 1 .. Len(ps) : ps[i] \in Seq(Messages)
           /\ \A m : m \in Held(ps) <=> \E i \in 1 .. Len(ps) : m \in ToSet(ps[i])
           /\ ps # <<>> => Len(ps) \in 1 .. Len(ps)
           /\ Held(ps) \subseteq Messages
<1>1. /\ Len(ps) \in Nat /\ DOMAIN ps = 1 .. Len(ps)
      /\ \A i \in 1 .. Len(ps) : ps[i] \in Seq(Messages)
  BY Members
<1>2. \A m : m \in Held(ps) <=> \E i \in 1 .. Len(ps) : m \in ToSet(ps[i])
  BY <1>1 DEF Held
<1>3. ps # <<>> => Len(ps) \in 1 .. Len(ps)
  BY <1>1, EmptySeq
<1>4. \A i \in 1 .. Len(ps) : ToSet(ps[i]) \subseteq Messages
  BY <1>1, Members
<1> QED
  BY <1>1, <1>2, <1>3, <1>4

(* removeMessage takes a message off every page. *)
LEMMA Removed ==
    ASSUME NEW ps \in Seq(Seq(Messages)), Distinct(ps), NEW m
    PROVE  /\ RemoveMessage(ps, m) \in Seq(Seq(Messages))
           /\ Len(RemoveMessage(ps, m)) = Len(ps) /\ Distinct(RemoveMessage(ps, m))
           /\ Held(RemoveMessage(ps, m)) = Held(ps) \ {m}
<1> DEFINE rs == RemoveMessage(ps, m)
<1>1. /\ Len(ps) \in Nat /\ DOMAIN ps = 1 .. Len(ps)
      /\ \A i \in 1 .. Len(ps) : ps[i] \in Seq(Messages)
      /\ \A x : x \in Held(ps) <=> \E i \in 1 .. Len(ps) : x \in ToSet(ps[i])
  BY HeldBy
<1>2. \A i \in 1 .. Len(ps) :
         /\ Without(ps[i], m) \in Seq(Messages) /\ IsInjective(Without(ps[i], m))
         /\ ToSet(Without(ps[i], m)) = ToSet(ps[i]) \ {m}
  BY <1>1, Filtered DEF Distinct
<1>3. rs = [i \in 1 .. Len(ps) |-> Without(ps[i], m)]
  BY <1>1 DEF RemoveMessage
<1> HIDE DEF rs
<1>4. rs \in Seq(Seq(Messages)) /\ Len(rs) = Len(ps) /\ DOMAIN rs = 1 .. Len(ps)
  <2>1. rs \in [1 .. Len(ps) -> Seq(Messages)]
    BY <1>2, <1>3
  <2> QED
    BY <1>1, <1>3, <2>1
<1>5. Distinct(rs)
  BY <1>2, <1>3, <1>4 DEF Distinct
<1>6. \A x : x \in Held(rs) <=> \E i \in 1 .. Len(ps) : x \in ToSet(rs[i])
  BY <1>4, HeldBy
<1>7. \A x : x \in Held(rs) <=> x \in Held(ps) /\ x # m
  BY <1>1, <1>2, <1>3, <1>6
<1> QED
  BY <1>4, <1>5, <1>7 DEF rs

(* What a message is added to, is sorted again, and gets no shorter. *)
LEMMA Added ==
    ASSUME ts \in Clocks, NEW q \in Seq(Messages), IsInjective(q), NEW m \in Messages
    PROVE  /\ InOrder(ToSet(q) \cup {m}, CompareKey) \in Seq(Messages)
           /\ IsInjective(InOrder(ToSet(q) \cup {m}, CompareKey))
           /\ ToSet(InOrder(ToSet(q) \cup {m}, CompareKey)) = ToSet(q) \cup {m}
           /\ Len(InOrder(ToSet(q) \cup {m}, CompareKey)) >= Len(q)
<1> DEFINE S == ToSet(q) \cup {m}
           page == InOrder(S, CompareKey)
           n == Cardinality(S)
<1>1. S \subseteq Messages /\ IsFiniteSet(S) /\ S \subseteq Nat
  <2>1. S \subseteq Messages
    BY Members
  <2> QED
    BY <2>1, FeedAssumption, FS_Subset
<1>2. Keys(CompareKey, S)
  <2>1. \A x \in Messages : ts[x] \in Nat
    BY FeedAssumption
  <2>2. \A t \in Nat : Printed(t) \in Nat
    BY FeedAssumption DEF Printed
  <2> QED
    BY <1>1, <2>1, <2>2 DEF Keys, CompareKey
<1>3. q \in [1 .. Len(q) -> S] /\ Len(q) \in Nat
  BY Members
<1> HIDE DEF S
<1>4. /\ page \in Seq(S) /\ Len(page) = n /\ n \in Nat
      /\ \A x \in S : \E i \in 1 .. n : page[i] = x
      /\ \A i, j \in 1 .. n : page[i] = page[j] => i = j
  BY <1>1, <1>2, Sorted, ZenonT(30)
<1> HIDE DEF page
<1>5. page \in Seq(Messages) /\ ToSet(page) \subseteq S
  BY <1>1, <1>4, Members, SeqMonotonic
<1>6. IsInjective(page)
  BY <1>4, Members
<1>7. S \subseteq ToSet(page)
  BY <1>4, <1>5, Members
<1>8. Len(page) >= Len(q)
  <2>1. q \in Injection(1 .. Len(q), S)
    BY <1>3 DEF Injection
  <2>2. Cardinality(1 .. Len(q)) <= Cardinality(S)
    BY <1>1, <2>1, FS_Injection
  <2>3. Cardinality(1 .. Len(q)) = Len(q)
    <3>1. 1 \in Int /\ Len(q) \in Int
      BY <1>3
    <3>2. Cardinality(1 .. Len(q)) = IF 1 > Len(q) THEN 0 ELSE Len(q) - 1 + 1
      BY <3>1, FS_Interval
    <3> QED
      BY <1>3, <3>2
  <2> QED
    BY <1>3, <1>4, <2>2, <2>3
<1> QED
  BY <1>5, <1>6, <1>7, <1>8 DEF S, page

(* appendToNewestPage adds a message to the first page, which gets no shorter. *)
LEMMA Inserted ==
    ASSUME ts \in Clocks, NEW ps \in Seq(Seq(Messages)), ps # <<>>, Distinct(ps),
           NEW m \in Messages
    PROVE  /\ AppendToNewestPage(ps, m) \in Seq(Seq(Messages))
           /\ AppendToNewestPage(ps, m) # <<>> /\ Distinct(AppendToNewestPage(ps, m))
           /\ Held(AppendToNewestPage(ps, m)) = Held(ps) \cup {m}
           /\ Len(Last(AppendToNewestPage(ps, m))) >= Len(Last(ps))
<1> DEFINE S == ToSet(ps[1]) \cup {m}
           page == InOrder(S, CompareKey)
           rs == [ps EXCEPT ![1] = page]
<1>1. /\ Len(ps) \in Nat /\ DOMAIN ps = 1 .. Len(ps) /\ 1 \in 1 .. Len(ps) /\ Len(ps) \in 1 .. Len(ps)
      /\ \A i \in 1 .. Len(ps) : ps[i] \in Seq(Messages)
      /\ \A x : x \in Held(ps) <=> \E i \in 1 .. Len(ps) : x \in ToSet(ps[i])
  BY HeldBy
<1>2. CASE m \in ToSet(ps[1])
  <2>1. AppendToNewestPage(ps, m) = ps
    BY <1>2 DEF AppendToNewestPage
  <2>2. Held(ps) = Held(ps) \cup {m} /\ Len(Last(ps)) \in Nat
    BY <1>1, <1>2, LenProperties DEF Last
  <2> QED
    BY <2>1, <2>2
<1>3. CASE m \notin ToSet(ps[1])
  <2>1. AppendToNewestPage(ps, m) = rs
    BY <1>3 DEF AppendToNewestPage
  <2> HIDE DEF S
  <2>2. /\ page \in Seq(Messages) /\ IsInjective(page) /\ ToSet(page) = S
        /\ Len(page) >= Len(ps[1])
    <3>1. ps[1] \in Seq(Messages) /\ IsInjective(ps[1])
      BY <1>1 DEF Distinct
    <3> QED
      BY <3>1, Added DEF S
  <2> HIDE DEF page
  <2>3. /\ rs \in Seq(Seq(Messages)) /\ Len(rs) = Len(ps)
        /\ rs[1] = page /\ \A i \in 1 .. Len(ps) : i # 1 => rs[i] = ps[i]
    BY <1>1, <2>2, ExceptSeq
  <2> HIDE DEF rs
  <2>4. DOMAIN rs = 1 .. Len(ps) /\ rs # <<>>
    BY <1>1, <2>3, HeldBy
  <2>5. Distinct(rs)
    BY <1>1, <2>2, <2>3, <2>4 DEF Distinct
  <2>6. \A x : x \in Held(rs) <=> \E i \in 1 .. Len(ps) : x \in ToSet(rs[i])
    BY <2>3, HeldBy
  <2>7. \A x : x \in Held(rs) <=> x \in Held(ps) \/ x = m
    BY <1>1, <2>2, <2>3, <2>6 DEF S
  <2>8. Len(Last(rs)) >= Len(Last(ps))
    <3>1. Len(ps[Len(ps)]) \in Nat
      BY <1>1, LenProperties
    <3>2. CASE Len(ps) = 1
      <4>1. Last(rs) = page /\ Last(ps) = ps[1]
        BY <2>3, <3>2 DEF Last
      <4> QED
        BY <2>2, <4>1
    <3>3. CASE Len(ps) # 1
      <4>1. rs[Len(ps)] = ps[Len(ps)]
        BY <1>1, <2>3, <3>3
      <4>2. Last(rs) = Last(ps) /\ Len(Last(ps)) \in Nat
        BY <2>3, <3>1, <4>1 DEF Last
      <4> QED
        BY <4>2
    <3> QED
      BY <3>2, <3>3
  <2> QED
    BY <2>1, <2>3, <2>4, <2>5, <2>7, <2>8
<1> QED
  BY <1>2, <1>3

LEMMA PageAdded ==
    ASSUME NEW ps \in Seq(Seq(Messages)), NEW page \in Seq(Messages),
           Distinct(ps), IsInjective(page)
    PROVE  /\ Append(ps, page) \in Seq(Seq(Messages)) /\ Append(ps, page) # <<>>
           /\ Distinct(Append(ps, page)) /\ Last(Append(ps, page)) = page
           /\ Held(Append(ps, page)) = Held(ps) \cup ToSet(page)
<1> DEFINE qs == Append(ps, page)
<1>1. /\ Len(ps) \in Nat /\ DOMAIN ps = 1 .. Len(ps)
      /\ \A x : x \in Held(ps) <=> \E i \in 1 .. Len(ps) : x \in ToSet(ps[i])
  BY HeldBy
<1>2. /\ qs \in Seq(Seq(Messages)) /\ Len(qs) = Len(ps) + 1 /\ qs[Len(ps) + 1] = page
      /\ \A i \in 1 .. Len(ps) : qs[i] = ps[i]
  BY AppendProperties
<1> HIDE DEF qs
<1>3. /\ DOMAIN qs = 1 .. Len(qs)
      /\ \A x : x \in Held(qs) <=> \E i \in 1 .. Len(qs) : x \in ToSet(qs[i])
  BY <1>2, HeldBy
<1>4. \A i \in 1 .. Len(qs) : i \in 1 .. Len(ps) \/ i = Len(ps) + 1
  BY <1>1, <1>2
<1>5. Distinct(qs)
  BY <1>1, <1>2, <1>3, <1>4 DEF Distinct
<1>6. Last(qs) = page /\ qs # <<>>
  BY <1>1, <1>2 DEF Last
<1>7. \A x : x \in Held(qs) <=> x \in Held(ps) \/ x \in ToSet(page)
  <2>1. 1 .. Len(ps) \subseteq 1 .. Len(qs) /\ Len(ps) + 1 \in 1 .. Len(qs)
    BY <1>1, <1>2
  <2> QED
    BY <1>1, <1>2, <1>3, <1>4, <2>1
<1> QED
  BY <1>2, <1>5, <1>6, <1>7 DEF qs

(* What the last page holds: removeMessage adds nothing to it, and only where *)
(* there is one page does appendToNewestPage.                                *)
LEMMA LastPage ==
    ASSUME ts \in Clocks, NEW ps \in Seq(Seq(Messages)), ps # <<>>, Distinct(ps),
           NEW m \in Messages
    PROVE  /\ ToSet(Last(ps)) \subseteq Messages
           /\ ToSet(Last(RemoveMessage(ps, m))) \subseteq ToSet(Last(ps))
           /\ ToSet(Last(AppendToNewestPage(ps, m))) \subseteq
                 ToSet(Last(ps)) \cup (IF Len(ps) = 1 THEN {m} ELSE {})
<1>1. /\ Len(ps) \in Nat /\ DOMAIN ps = 1 .. Len(ps) /\ 1 \in 1 .. Len(ps) /\ Len(ps) \in 1 .. Len(ps)
      /\ \A i \in 1 .. Len(ps) : ps[i] \in Seq(Messages)
  BY HeldBy
<1>2. ToSet(Last(ps)) \subseteq Messages
  BY <1>1, Members DEF Last
<1>3. ToSet(Last(RemoveMessage(ps, m))) \subseteq ToSet(Last(ps))
  <2>1. /\ Len(RemoveMessage(ps, m)) = Len(ps)
        /\ RemoveMessage(ps, m)[Len(ps)] = Without(ps[Len(ps)], m)
    BY <1>1, Removed DEF RemoveMessage
  <2>2. ToSet(Without(ps[Len(ps)], m)) = ToSet(ps[Len(ps)]) \ {m}
    BY <1>1, Filtered DEF Distinct
  <2> QED
    BY <2>1, <2>2 DEF Last
<1>4. CASE m \in ToSet(ps[1])
  BY <1>2, <1>3, <1>4 DEF AppendToNewestPage
<1>5. CASE m \notin ToSet(ps[1])
  <2> DEFINE page == InOrder(ToSet(ps[1]) \cup {m}, CompareKey)
             rs == [ps EXCEPT ![1] = page]
  <2>1. AppendToNewestPage(ps, m) = rs
    BY <1>5 DEF AppendToNewestPage
  <2>2. page \in Seq(Messages) /\ ToSet(page) = ToSet(ps[1]) \cup {m}
    <3>1. ps[1] \in Seq(Messages) /\ IsInjective(ps[1])
      BY <1>1 DEF Distinct
    <3> QED
      BY <3>1, Added
  <2> HIDE DEF page
  <2>3. Len(rs) = Len(ps) /\ rs[1] = page /\ \A i \in 1 .. Len(ps) : i # 1 => rs[i] = ps[i]
    BY <1>1, <2>2, ExceptSeq
  <2> HIDE DEF rs
  <2>4. CASE Len(ps) = 1
    <3>1. Last(rs) = page /\ ps[1] = Last(ps)
      BY <2>3, <2>4 DEF Last
    <3> QED
      BY <1>2, <1>3, <2>1, <2>2, <2>4, <3>1
  <2>5. CASE Len(ps) # 1
    <3>1. Last(rs) = Last(ps)
      BY <1>1, <2>3, <2>5 DEF Last
    <3> QED
      BY <1>2, <1>3, <2>1, <3>1
  <2> QED
    BY <2>4, <2>5
<1> QED
  BY <1>4, <1>5

-----------------------------------------------------------------------------
(* One lemma per action. *)

IInv == TypeOK /\ FeedInv

LEMMA Typed ==
    ASSUME TypeOK
    PROVE  /\ \A m \in Messages : ts[m] \in Nat /\ m \in Nat
           /\ \A m, n \in Messages : Before(m, n) \/ Before(n, m) \/ m = n
           /\ NoMessage \notin Messages /\ PAGE_SIZE \in Nat \ {0}
<1>1. \A m \in Messages : ts[m] \in Nat /\ m \in Nat
  BY FeedAssumption DEF TypeOK
<1> QED
  BY <1>1, FeedAssumption DEF Before, Precedes

(* The cursor of a page is its oldest message, if it is full. *)
LEMMA Cursors ==
    ASSUME NEW page \in Seq(Messages)
    PROVE  /\ NextPageParams(page) = NoMessage <=> Len(page) < PAGE_SIZE
           /\ NextPageParams(page) # NoMessage =>
                 NextPageParams(page) = page[1] /\ page[1] \in ToSet(page) /\ page[1] \in Messages
<1>1. Len(page) \in Nat /\ PAGE_SIZE \in Nat \ {0} /\ NoMessage \notin Messages
  BY LenProperties, FeedAssumption
<1>2. ~ (Len(page) < PAGE_SIZE) => page[1] \in ToSet(page) /\ page[1] \in Messages
  <2>1. ~ (Len(page) < PAGE_SIZE) => 1 \in 1 .. Len(page)
    BY <1>1
  <2> QED
    BY <2>1, Members
<1> QED
  BY <1>1, <1>2 DEF NextPageParams

(* A page that is no shorter than a full one is full. *)
LEMMA LongEnough ==
    ASSUME NEW ps \in Seq(Seq(Messages)), NEW qs \in Seq(Seq(Messages)), ps # <<>>, qs # <<>>,
           NextPageParams(Last(ps)) # NoMessage, Len(Last(qs)) >= Len(Last(ps))
    PROVE  NextPageParams(Last(qs)) # NoMessage
<1>1. Last(ps) \in Seq(Messages) /\ Last(qs) \in Seq(Messages)
  BY HeldBy DEF Last
<1>2. Len(Last(ps)) \in Nat /\ Len(Last(qs)) \in Nat /\ PAGE_SIZE \in Nat
  BY <1>1, LenProperties, FeedAssumption
<1> QED
  BY <1>1, <1>2, Cursors

LEMMA PagesAreDistinct ==
    ASSUME IInv
    PROVE  /\ Distinct(pages) /\ Distinct(fetch.base) /\ Distinct(fetch.got)
           /\ IsInjective(fetch.page) /\ Distinct(<<>>) /\ IsInjective(<<>>)
<1>1. Distinct(<<>>) /\ IsInjective(<<>>)
  BY DEF Distinct, IsInjective
<1> QED
  BY <1>1 DEF IInv, FeedInv, PagesInv, Distinct

LEMMA InitEstablishes == Init => IInv
<1> SUFFICES ASSUME Init PROVE IInv
  OBVIOUS
<1>1. TypeOK
  <2>1. row \in [Messages -> RowStates]
    BY DEF Init, RowStates
  <2>2. <<>> \in Seq(Seq(Messages)) /\ <<>> \in Seq(Messages) /\ 0 \in 0 .. MAX_RETRIES
    BY FeedAssumption
  <2>3. NoFetch \in [kind : {"none", "all", "older"}, base : Seq(Seq(Messages)),
                      wanted : Nat, got : Seq(Seq(Messages)), answered : BOOLEAN,
                      page : Seq(Messages), failures : 0 .. MAX_RETRIES]
    BY <2>2 DEF NoFetch
  <2> QED
    BY <2>1, <2>2, <2>3 DEF Init, TypeOK
<1>2. FeedInv
  BY DEF Init, FeedInv, DueInv, PagesInv, FetchInv, FeedAccurate, NoFetch, IsInjective
<1> QED
  BY <1>1, <1>2 DEF IInv

(* A row changes, and this tab is or may be told. *)
LEMMA TellingKeeps ==
    ASSUME IInv, NEW m \in Messages, NEW own \in BOOLEAN, Commit(m, own) \/ Delete(m, own)
    PROVE  IInv'
<1>1. /\ UNCHANGED <<ts, loaded, pages, fetch, floor, missed, skipped, overtaken, crossed>>
      /\ \A n \in Messages : n # m => row'[n] = row[n]
      /\ row'[m] \in {"stored", "gone"} /\ row[m] # "gone" /\ row' \in [Messages -> RowStates]
  BY DEF IInv, TypeOK, Commit, Delete, UNCHANGEDCache, skips, RowStates
<1>2. \E op \in {"message", "message_deleted"} :
         Tell(op, m, own) /\ row'[m] = IF op = "message" THEN "stored" ELSE "gone"
  <2>1. CASE Commit(m, own)
    <3>1. Tell("message", m, own) /\ row'[m] = "stored"
      BY <2>1 DEF IInv, TypeOK, Commit
    <3> QED
      BY <3>1
  <2>2. CASE Delete(m, own)
    <3>1. Tell("message_deleted", m, own) /\ row'[m] = "gone"
      BY <2>2 DEF IInv, TypeOK, Delete
    <3> QED
      BY <3>1
  <2> QED
    BY <2>1, <2>2
<1>3. /\ due' \subseteq [op : {"message", "message_deleted"}, id : Messages, via : {"frame", "answer"}]
      /\ due \subseteq due' /\ \E d \in due' : d.id = m
      /\ \A d \in due' \ due : d.id = m /\ (IF d.op = "message" THEN row'[m] # "free" ELSE row'[m] = "gone")
  <2>1. PICK op \in {"message", "message_deleted"} :
           Tell(op, m, own) /\ row'[m] = IF op = "message" THEN "stored" ELSE "gone"
    BY <1>2
  <2> DEFINE Vias == {"frame"} \cup (IF own THEN {"answer"} ELSE {})
             new == {[op |-> op, id |-> m, via |-> v] : v \in Vias}
  <2>2. due' = due \cup new /\ "frame" \in Vias /\ Vias \subseteq {"frame", "answer"}
    BY <2>1 DEF Tell
  <2> HIDE DEF Vias
  <2>3. \A d \in new : d \in [op : {"message", "message_deleted"}, id : Messages, via : {"frame", "answer"}]
                       /\ d.id = m /\ d.op = op
    BY <2>2
  <2>4. [op |-> op, id |-> m, via |-> "frame"] \in new
    BY <2>2
  <2> HIDE DEF new
  <2> QED
    BY <2>1, <2>2, <2>3, <2>4 DEF IInv, TypeOK
<1>4. TypeOK'
  BY <1>1, <1>3 DEF IInv, TypeOK
<1>5. DueInv'
  <2> SUFFICES ASSUME NEW d \in due'
               PROVE  IF d.op = "message" THEN row'[d.id] # "free" ELSE row'[d.id] = "gone"
    BY DEF DueInv
  <2>1. CASE d \in due
    <3>1. d.id \in Messages /\ IF d.op = "message" THEN row[d.id] # "free" ELSE row[d.id] = "gone"
      BY <2>1 DEF IInv, TypeOK, FeedInv, DueInv
    <3> QED
      BY <1>1, <3>1
  <2>2. CASE d \notin due
    BY <1>3, <2>2
  <2> QED
    BY <2>1, <2>2
<1>6. PagesInv'
  <2>1. (\A n \in Messages : row'[n] # "gone") => \A n \in Messages : row[n] # "gone"
    BY <1>1
  <2> QED
    BY <1>1, <2>1 DEF IInv, FeedInv, PagesInv, NextPageParams
<1>7. \A n \in Messages : /\ Quiet(n)' => Quiet(n) /\ row'[n] = row[n]
                          /\ Steady(n)' => Steady(n) /\ row'[n] = row[n]
  BY <1>1, <1>3 DEF Quiet, Heard, Steady
<1>8. FetchInv'
  <2>1. PageParam' = PageParam /\ \A x, y : Before(x, y)' = Before(x, y)
    BY <1>1 DEF PageParam, NextPageParams, Before
  <2> QED
    BY <1>1, <1>7, <2>1 DEF IInv, FeedInv, FetchInv, RightAbout, Fetching
<1>9. FeedAccurate'
  BY <1>1, <1>7 DEF IInv, FeedInv, FeedAccurate, Shown, InReach, Before
<1> QED
  BY <1>4, <1>5, <1>6, <1>8, <1>9 DEF IInv, FeedInv

(* What a frame or an answer does to the pages. *)
LEMMA UpdatedPages ==
    ASSUME IInv, NEW d \in due, UpdateFeedCache(d)
    PROVE  /\ pages' \in Seq(Seq(Messages)) /\ (loaded <=> pages' # <<>>) /\ Distinct(pages')
           /\ loaded => Held(pages') = IF d.op = "message" THEN Held(pages) \cup {d.id}
                                       ELSE Held(pages) \ {d.id}
           /\ loaded /\ d.op = "message" => Len(Last(pages')) >= Len(Last(pages))
<1>1. /\ pages \in Seq(Seq(Messages)) /\ (loaded <=> pages # <<>>) /\ Distinct(pages)
      /\ d.id \in Messages /\ ts \in Clocks
  BY DEF IInv, TypeOK, FeedInv, PagesInv, Distinct
<1>2. CASE ~loaded
  BY <1>1, <1>2 DEF UpdateFeedCache
<1>3. CASE loaded /\ d.op = "message"
  <2>1. pages' = AppendToNewestPage(pages, d.id)
    BY <1>3 DEF UpdateFeedCache
  <2> QED
    BY <1>1, <1>3, <2>1, Inserted
<1>4. CASE loaded /\ d.op # "message"
  <2>1. pages' = RemoveMessage(pages, d.id)
    BY <1>4 DEF UpdateFeedCache
  <2>2. /\ pages' \in Seq(Seq(Messages)) /\ Len(pages') = Len(pages) /\ Distinct(pages')
        /\ Held(pages') = Held(pages) \ {d.id}
    BY <1>1, <2>1, Removed
  <2>3. pages' # <<>>
    BY <1>1, <1>4, <2>2, EmptySeq
  <2> QED
    BY <1>4, <2>2, <2>3
<1> QED
  BY <1>2, <1>3, <1>4

(* A frame or an answer reaches the cache, or is lost. *)
LEMMA HearingKeeps ==
    ASSUME IInv, NEW d \in due, UpdateFeedCache(d) \/ Miss(d)
    PROVE  IInv'
<1>1. /\ UNCHANGED <<row, ts, loaded, fetch, floor, skipped>> /\ due' = due \ {d}
      /\ d.id \in Messages /\ d \in [op : {"message", "message_deleted"}, id : Messages, via : {"frame", "answer"}]
      /\ crossed' = Fetching /\ (Miss(d) => pages' = pages) /\ overtaken' \in BOOLEAN
  BY DEF IInv, TypeOK, UpdateFeedCache, Miss, Doubt, skips
<1>2. /\ missed' \subseteq Messages
      /\ loaded \/ Fetching => missed \subseteq missed'
      /\ Fetching \/ (Miss(d) /\ loaded) => d.id \in missed'
  BY <1>1 DEF IInv, TypeOK, UpdateFeedCache, Miss, Doubt
<1>3. TypeOK'
  <2>1. pages' \in Seq(Seq(Messages)) /\ (loaded' <=> pages' # <<>>)
    BY <1>1, UpdatedPages DEF IInv, TypeOK
  <2>2. crossed' \in BOOLEAN
    BY <1>1 DEF Fetching
  <2> QED
    BY <1>1, <1>2, <2>1, <2>2 DEF IInv, TypeOK
<1>4. DueInv'
  BY <1>1 DEF IInv, FeedInv, DueInv
<1>5. PagesInv'
  <2>1. Distinct(pages')
    BY <1>1, UpdatedPages DEF IInv, FeedInv, PagesInv, Distinct
  <2>2. ASSUME floor # NoMessage, \A m \in Messages : row[m] # "gone"
        PROVE  loaded /\ NextPageParams(Last(pages')) # NoMessage
    <3>1. loaded /\ NextPageParams(Last(pages)) # NoMessage
      BY <2>2 DEF IInv, FeedInv, PagesInv
    <3>2. d.op = "message"
      BY <1>1, <2>2 DEF IInv, FeedInv, DueInv
    <3>3. Len(Last(pages')) >= Len(Last(pages))
      <4>1. CASE Miss(d)
        <5>1. Last(pages) \in Seq(Messages)
          BY <3>1, HeldBy DEF IInv, TypeOK, Last
        <5>2. Len(Last(pages)) \in Nat
          BY <5>1, LenProperties
        <5> QED
          BY <1>1, <4>1, <5>2
      <4> QED
        BY <3>1, <3>2, <4>1, UpdatedPages
    <3>4. pages # <<>> /\ pages' # <<>> /\ pages' \in Seq(Seq(Messages)) /\ pages \in Seq(Seq(Messages))
      BY <1>1, <1>3, <3>1 DEF IInv, TypeOK
    <3> QED
      BY <3>1, <3>3, <3>4, LongEnough
  <2> QED
    BY <1>1, <2>1, <2>2 DEF IInv, FeedInv, PagesInv, Distinct
<1>6. ASSUME NEW m \in Messages, Fetching, m \notin missed', \A e \in due' : e.id # m
      PROVE  m \notin missed /\ \A e \in due : e.id # m
  <2>1. d.id \in missed' /\ m \notin missed
    BY <1>2, <1>6
  <2>2. \A e \in due : e = d \/ e \in due'
    BY <1>1
  <2> QED
    BY <1>6, <2>1, <2>2
<1>7. FetchInv'
  <2>1. /\ PageParam' = PageParam /\ Fetching' = Fetching
        /\ \A x, y : Before(x, y)' = Before(x, y)
    BY <1>1 DEF PageParam, NextPageParams, Before, Fetching
  <2>2. Fetching => \A m \in Messages : (Steady(m)' => Steady(m)) /\ (Quiet(m)' => Quiet(m))
    BY <1>1, <1>6 DEF Steady, Quiet, Heard
  <2>3. ~Fetching => fetch.kind = "none" /\ ~fetch.answered
    BY DEF IInv, FeedInv, FetchInv, Fetching
  <2> QED
    BY <1>1, <2>1, <2>2, <2>3 DEF IInv, FeedInv, FetchInv, RightAbout, Fetching
<1>8. FeedAccurate'
  <2> SUFFICES ASSUME loaded, NEW m \in Messages, Quiet(m)'
               PROVE  /\ m \in Shown' => row[m] = "stored"
                      /\ row[m] = "stored" /\ InReach(m) => m \in Shown'
    BY <1>1 DEF FeedAccurate, InReach, Before
  <2>1. m \notin missed' /\ m \notin missed /\ m \notin skipped /\ \A e \in due' : e.id # m
    BY <1>1, <1>2 DEF Quiet, Heard
  <2>2. CASE m # d.id
    <3>1. Quiet(m)
      BY <1>1, <2>1, <2>2 DEF Quiet, Heard
    <3>2. m \in Shown' <=> m \in Shown
      BY <1>1, <2>2, UpdatedPages DEF Shown
    <3> QED
      BY <3>1, <3>2 DEF IInv, FeedInv, FeedAccurate
  <2>3. CASE m = d.id
    <3>1. UpdateFeedCache(d) /\ ~Fetching
      BY <1>2, <2>1, <2>3
    <3>2. m \in Shown' <=> d.op = "message"
      BY <2>3, <3>1, UpdatedPages DEF Shown
    <3>3. d.op = "message" => row[m] = "stored"
      <4> SUFFICES ASSUME d.op = "message" PROVE row[m] = "stored"
        OBVIOUS
      <4>1. row[m] # "free" /\ row[m] \in RowStates
        BY <2>3 DEF IInv, TypeOK, FeedInv, DueInv
      <4>2. ~ \E e \in due : e.op = "message_deleted" /\ e.id = d.id
        BY <1>1, <2>1, <2>3
      <4>3. row[m] = "gone" => d.id \in missed'
        BY <2>3, <3>1, <4>2 DEF UpdateFeedCache, Doubt
      <4> QED
        BY <2>1, <2>3, <4>1, <4>3 DEF RowStates
    <3>4. d.op # "message" => row[m] # "stored"
      BY <2>3 DEF IInv, FeedInv, DueInv
    <3> QED
      BY <3>2, <3>3, <3>4
  <2> QED
    BY <2>2, <2>3
<1> QED
  BY <1>3, <1>4, <1>5, <1>7, <1>8 DEF IInv, FeedInv

(* A fetch starts from what the cache shows. *)
LEMMA StartingKeeps ==
    ASSUME IInv, Refetch \/ LoadOlder
    PROVE  IInv'
<1>1. /\ UNCHANGED <<row, ts, due, loaded, pages, floor, missed, skipped, overtaken>>
      /\ crossed' = FALSE
      /\ \/ fetch' = [NoFetch EXCEPT !.kind = "all", !.base = <<>>,
                                     !.wanted = IF loaded THEN Len(pages) ELSE 1]
         \/ /\ HasOlder
            /\ fetch' = [NoFetch EXCEPT !.kind = "older", !.base = pages, !.wanted = 1]
  BY DEF Refetch, LoadOlder, StartFetch, skips
<1>2. /\ fetch' \in [kind : {"none", "all", "older"}, base : Seq(Seq(Messages)),
                      wanted : Nat, got : Seq(Seq(Messages)), answered : BOOLEAN,
                      page : Seq(Messages), failures : 0 .. MAX_RETRIES]
      /\ fetch'.got = <<>> /\ fetch'.page = <<>> /\ ~fetch'.answered
      /\ fetch'.kind = "all" => fetch'.base = <<>>
      /\ fetch'.kind = "older" => fetch'.base = pages /\ HasOlder
      /\ fetch'.kind # "none"
  <2>1. /\ <<>> \in Seq(Seq(Messages)) /\ <<>> \in Seq(Messages) /\ 0 \in 0 .. MAX_RETRIES
        /\ pages \in Seq(Seq(Messages)) /\ Len(pages) \in Nat /\ 1 \in Nat
    BY FeedAssumption, LenProperties DEF IInv, TypeOK
  <2> QED
    BY <1>1, <2>1 DEF NoFetch
<1>3. TypeOK'
  BY <1>1, <1>2 DEF IInv, TypeOK
<1>4. DueInv' /\ FeedAccurate'
  BY <1>1 DEF IInv, FeedInv, DueInv, FeedAccurate, Shown, Quiet, Heard, InReach, Before
<1>5. PagesInv'
  <2>1. Distinct(fetch'.base) /\ Distinct(fetch'.got) /\ IsInjective(fetch'.page)
    BY <1>2 DEF IInv, FeedInv, PagesInv, Distinct, IsInjective
  <2> QED
    BY <1>1, <2>1 DEF IInv, FeedInv, PagesInv, Distinct, NextPageParams
<1>6. FetchInv'
  <2>1. CASE fetch'.kind = "older"
    <3>1. /\ loaded /\ pages # <<>> /\ PageParam' # NoMessage
      BY <1>2, <2>1 DEF IInv, TypeOK, HasOlder, PageParam, NextPageParams
    <3>2. \A m \in Messages : Quiet(m)' => RightAbout(m, fetch.base, floor)'
      BY <1>1, <1>2, <2>1, <3>1
         DEF IInv, FeedInv, FeedAccurate, Shown, Quiet, Heard, InReach, Before, RightAbout
    <3> QED
      BY <1>1, <1>2, <2>1, <3>1, <3>2 DEF FetchInv
  <2>2. CASE fetch'.kind = "all"
    BY <1>2, <2>2 DEF FetchInv
  <2> QED
    BY <1>2, <2>1, <2>2
<1> QED
  BY <1>3, <1>4, <1>5, <1>6 DEF IInv, FeedInv

(* The server reads. *)
LEMMA ListingKeeps ==
    ASSUME IInv, ListMessages
    PROVE  IInv'
<1> DEFINE page == GetMessages(PageParam)
<1>1. /\ UNCHANGED <<row, ts, due, loaded, pages, floor, missed, skipped, overtaken, crossed>>
      /\ Fetching
      /\ fetch' = [fetch EXCEPT !.answered = TRUE, !.page = page]
  BY DEF ListMessages, skips
<1>2. /\ page \in Seq(Messages) /\ IsInjective(page) /\ ToSet(page) \subseteq Selected(PageParam)
      /\ \A m \in Selected(PageParam) :
            Len(page) < PAGE_SIZE \/ ~Before(m, page[1]) => m \in ToSet(page)
  BY PageRead DEF IInv, TypeOK
<1> HIDE DEF page
<1>3. TypeOK'
  BY <1>1, <1>2 DEF IInv, TypeOK
<1>4. DueInv' /\ FeedAccurate'
  BY <1>1 DEF IInv, FeedInv, DueInv, FeedAccurate, Shown, Quiet, Heard, InReach, Before
<1>5. /\ fetch'.kind = fetch.kind /\ fetch'.base = fetch.base /\ fetch'.got = fetch.got
      /\ fetch'.page = page
  BY <1>1 DEF IInv, TypeOK
<1>6. PagesInv'
  BY <1>1, <1>2, <1>5 DEF IInv, FeedInv, PagesInv, NextPageParams
<1>7. FetchInv'
  <2>1. /\ PageParam' = PageParam /\ Fetching'
        /\ \A x, y : Before(x, y)' = Before(x, y)
    BY <1>1, <1>5 DEF PageParam, NextPageParams, Before, Fetching
  <2>2. \A m \in Messages :
           /\ m \in ToSet(page) => row[m] = "stored"
           /\ /\ row[m] = "stored" /\ (PageParam = NoMessage \/ Before(m, PageParam))
              /\ Len(page) < PAGE_SIZE \/ ~Before(m, page[1])
              => m \in ToSet(page)
    BY <1>2 DEF Selected, Stored
  <2>3. \A m \in Messages : (Steady(m)' => Steady(m)) /\ (Quiet(m)' => Quiet(m))
    BY <1>1 DEF Steady, Quiet, Heard
  <2> QED
    BY <1>1, <1>5, <2>1, <2>2, <2>3 DEF IInv, FeedInv, FetchInv, RightAbout
<1> QED
  BY <1>3, <1>4, <1>6, <1>7 DEF IInv, FeedInv

(* An attempt or the fetch fails. *)
LEMMA FailingKeeps ==
    ASSUME IInv, PageFails \/ FetchFails
    PROVE  IInv'
<1>1. /\ UNCHANGED <<row, ts, due, loaded, pages, floor, missed, skipped, overtaken>>
      /\ fetch' \in [kind : {"none", "all", "older"}, base : Seq(Seq(Messages)),
                      wanted : Nat, got : Seq(Seq(Messages)), answered : BOOLEAN,
                      page : Seq(Messages), failures : 0 .. MAX_RETRIES]
      /\ crossed' \in BOOLEAN /\ fetch'.page = <<>> /\ ~fetch'.answered
      /\ \/ /\ fetch'.kind = fetch.kind /\ fetch'.base = fetch.base /\ fetch'.got = fetch.got
            /\ crossed' = crossed
         \/ fetch'.kind = "none" /\ fetch'.base = <<>> /\ fetch'.got = <<>>
  <2>1. /\ <<>> \in Seq(Seq(Messages)) /\ <<>> \in Seq(Messages) /\ 0 \in 0 .. MAX_RETRIES
    BY FeedAssumption
  <2>2. CASE PageFails
    <3>1. fetch.failures + 1 \in 0 .. MAX_RETRIES
      BY <2>2, FeedAssumption DEF IInv, TypeOK, PageFails, ShouldRetry
    <3>2. fetch \in [kind : {"none", "all", "older"}, base : Seq(Seq(Messages)),
                    wanted : Nat, got : Seq(Seq(Messages)), answered : BOOLEAN,
                    page : Seq(Messages), failures : 0 .. MAX_RETRIES]
      BY DEF IInv, TypeOK
    <3>3. fetch' = [fetch EXCEPT !.answered = FALSE, !.page = <<>>, !.failures = @ + 1]
      BY <2>2 DEF PageFails
    <3>4. /\ UNCHANGED <<row, ts, due, loaded, pages, floor, missed, skips, crossed>>
          /\ crossed \in BOOLEAN
      BY <2>2 DEF IInv, TypeOK, PageFails
    <3>5. /\ fetch' \in [kind : {"none", "all", "older"}, base : Seq(Seq(Messages)),
                         wanted : Nat, got : Seq(Seq(Messages)), answered : BOOLEAN,
                         page : Seq(Messages), failures : 0 .. MAX_RETRIES]
          /\ fetch'.page = <<>> /\ ~fetch'.answered /\ fetch'.kind = fetch.kind
          /\ fetch'.base = fetch.base /\ fetch'.got = fetch.got
      BY <2>1, <3>1, <3>2, <3>3
    <3> QED
      BY <3>4, <3>5 DEF skips
  <2>3. CASE FetchFails
    BY <2>1, <2>3 DEF IInv, TypeOK, FetchFails, NoFetch, skips
  <2> QED
    BY <2>2, <2>3
<1>2. TypeOK'
  BY <1>1 DEF IInv, TypeOK
<1>3. DueInv' /\ FeedAccurate'
  BY <1>1 DEF IInv, FeedInv, DueInv, FeedAccurate, Shown, Quiet, Heard, InReach, Before
<1>4. PagesInv'
  <2>1. Distinct(fetch'.base) /\ Distinct(fetch'.got) /\ IsInjective(fetch'.page)
    BY <1>1, PagesAreDistinct
  <2> QED
    BY <1>1, <2>1 DEF IInv, FeedInv, PagesInv, Distinct, NextPageParams
<1>5. FetchInv'
  <2>1. CASE fetch'.kind = "none"
    BY <1>1, <2>1 DEF FetchInv
  <2>2. CASE fetch'.kind # "none"
    <3>1. /\ fetch'.kind = fetch.kind /\ fetch'.base = fetch.base /\ fetch'.got = fetch.got
          /\ crossed' = crossed
      BY <1>1, <2>2
    <3>2. /\ PageParam' = PageParam /\ \A x, y : Before(x, y)' = Before(x, y)
          /\ \A m \in Messages : (Steady(m)' => Steady(m)) /\ (Quiet(m)' => Quiet(m))
      BY <1>1, <3>1 DEF PageParam, NextPageParams, Before, Steady, Quiet, Heard
    <3> QED
      BY <1>1, <3>1, <3>2 DEF IInv, FeedInv, FetchInv, RightAbout
  <2> QED
    BY <2>1, <2>2
<1> QED
  BY <1>2, <1>3, <1>4, <1>5 DEF IInv, FeedInv

(* The cache is dropped. *)
LEMMA ForgettingKeeps ==
    ASSUME IInv, Forget
    PROVE  IInv'
<1>1. TypeOK'
  <2>1. <<>> \in Seq(Seq(Messages))
    OBVIOUS
  <2>2. UNCHANGED <<row, ts, due, fetch, crossed>>
    BY DEF Forget
  <2> QED
    BY <2>1, <2>2 DEF IInv, TypeOK, Forget
<1>2. DueInv' /\ FeedAccurate'
  BY DEF IInv, FeedInv, DueInv, FeedAccurate, Forget
<1>3. PagesInv'
  BY DEF IInv, FeedInv, PagesInv, Forget, IsInjective
<1>4. fetch' = fetch /\ fetch.kind = "none" /\ ~fetch.answered
  BY DEF IInv, FeedInv, FetchInv, Forget, Fetching
<1>5. FetchInv'
  BY <1>4 DEF FetchInv
<1> QED
  BY <1>1, <1>2, <1>3, <1>5 DEF IInv, FeedInv

(* What a refetch has, with the page that arrives, is right about the steady *)
(* messages, down to the page's oldest.                                     *)
LEMMA GotAndPage ==
    ASSUME IInv, fetch.answered, fetch.kind = "all", NEW m \in Messages, Steady(m)
    PROVE  RightAbout(m, Append(fetch.got, fetch.page), NextPageParams(fetch.page))
<1> DEFINE got == Append(fetch.got, fetch.page)
           lowest == NextPageParams(fetch.page)
<1>1. /\ fetch.got \in Seq(Seq(Messages)) /\ fetch.page \in Seq(Messages)
      /\ Distinct(fetch.got) /\ IsInjective(fetch.page)
  BY PagesAreDistinct DEF IInv, TypeOK
<1>2. Held(got) = Held(fetch.got) \cup ToSet(fetch.page)
  BY <1>1, PageAdded
<1>3. /\ m \in ToSet(fetch.page) => row[m] = "stored"
      /\ /\ row[m] = "stored" /\ (PageParam = NoMessage \/ Before(m, PageParam))
         /\ lowest = NoMessage \/ ~Before(m, lowest)
         => m \in ToSet(fetch.page)
  <2>1. /\ m \in ToSet(fetch.page) => row[m] = "stored"
        /\ /\ row[m] = "stored" /\ (PageParam = NoMessage \/ Before(m, PageParam))
           /\ Len(fetch.page) < PAGE_SIZE \/ ~Before(m, fetch.page[1])
           => m \in ToSet(fetch.page)
    BY DEF IInv, FeedInv, FetchInv
  <2> QED
    BY <1>1, <2>1, Cursors
<1> HIDE DEF got, lowest
<1>4. CASE fetch.got = <<>>
  <2>1. PageParam = NoMessage /\ Held(fetch.got) = {}
    BY <1>4 DEF PageParam, Held
  <2>2. RightAbout(m, got, lowest)
    BY <1>2, <1>3, <2>1 DEF RightAbout
  <2> QED
    BY <2>2 DEF got, lowest
<1>5. CASE fetch.got # <<>>
  <2>1. RightAbout(m, fetch.got, PageParam)
    BY <1>5 DEF IInv, FeedInv, FetchInv
  <2>2. RightAbout(m, got, lowest)
    BY <1>2, <1>3, <2>1 DEF RightAbout
  <2> QED
    BY <2>2 DEF got, lowest
<1> QED
  BY <1>4, <1>5

(* An older page arrives: what it starts from was right down to the floor, *)
(* and its first page's oldest message is the cursor.                        *)
LEMMA BaseAndPage ==
    ASSUME IInv, fetch.answered, fetch.kind = "older", NEW m \in Messages, Quiet(m), m \notin Skipped
    PROVE  RightAbout(m, Append(fetch.base, fetch.page), NextPageParams(fetch.page))
<1> DEFINE result == Append(fetch.base, fetch.page)
           lowest == NextPageParams(fetch.page)
<1>1. /\ fetch.base \in Seq(Seq(Messages)) /\ fetch.base # <<>> /\ fetch.page \in Seq(Messages)
      /\ Distinct(fetch.base) /\ IsInjective(fetch.page) /\ PageParam # NoMessage
  BY PagesAreDistinct DEF IInv, TypeOK, FeedInv, FetchInv
<1>2. Held(result) = Held(fetch.base) \cup ToSet(fetch.page)
  BY <1>1, PageAdded
<1>3. RightAbout(m, fetch.base, floor) /\ Steady(m)
  BY DEF IInv, FeedInv, FetchInv, Quiet, Heard, Steady
<1>4. /\ m \in ToSet(fetch.page) => row[m] = "stored"
      /\ /\ row[m] = "stored" /\ Before(m, PageParam)
         /\ lowest = NoMessage \/ ~Before(m, lowest)
         => m \in ToSet(fetch.page)
  <2>1. /\ m \in ToSet(fetch.page) => row[m] = "stored"
        /\ /\ row[m] = "stored" /\ (PageParam = NoMessage \/ Before(m, PageParam))
           /\ Len(fetch.page) < PAGE_SIZE \/ ~Before(m, fetch.page[1])
           => m \in ToSet(fetch.page)
    BY <1>3 DEF IInv, FeedInv, FetchInv
  <2> QED
    BY <1>1, <2>1, Cursors
<1>5. PageParam \in Held(fetch.base) /\ PageParam \in Messages
  <2>1. /\ Len(fetch.base) \in 1 .. Len(fetch.base) /\ Last(fetch.base) \in Seq(Messages)
        /\ \A x \in ToSet(Last(fetch.base)) : x \in Held(fetch.base)
    BY <1>1, HeldBy DEF Last
  <2>2. PageParam = NextPageParams(Last(fetch.base))
    BY DEF PageParam
  <2> QED
    BY <1>1, <2>1, <2>2, Cursors
<1>6. Before(m, PageParam) \/ Before(PageParam, m) \/ m = PageParam
  BY <1>5, Typed DEF IInv
<1>7. row[m] = "stored" /\ ~Before(m, PageParam) => m \in Held(fetch.base)
  BY <1>3, <1>5, <1>6 DEF RightAbout, Skipped
<1> HIDE DEF result, lowest
<1>8. RightAbout(m, result, lowest)
  BY <1>2, <1>3, <1>4, <1>7 DEF RightAbout
<1> QED
  BY <1>8 DEF result, lowest

(* A fetch ends well: the cache becomes what it brought. *)
LEMMA FetchedKeeps ==
    ASSUME IInv, fetch.answered, NEW ps \in Seq(Seq(Messages)), Distinct(ps),
           Fetched(Append(ps, fetch.page)), missed' \subseteq Messages,
           skipped' \subseteq Messages, overtaken' \in BOOLEAN,
           \A m \in Messages : m \notin missed' \cup skipped' /\ (\A d \in due : d.id # m) =>
              RightAbout(m, Append(ps, fetch.page), NextPageParams(fetch.page))
    PROVE  IInv'
<1> DEFINE result == Append(ps, fetch.page)
<1>1. fetch.page \in Seq(Messages) /\ IsInjective(fetch.page)
  BY PagesAreDistinct DEF IInv, TypeOK
<1>2. /\ result \in Seq(Seq(Messages)) /\ result # <<>> /\ Distinct(result)
      /\ Last(result) = fetch.page
  BY <1>1, PageAdded
<1>3. /\ pages' = result /\ loaded' = TRUE /\ fetch' = NoFetch
      /\ floor' = NextPageParams(fetch.page) /\ crossed' = FALSE
      /\ UNCHANGED <<row, ts, due>>
  BY DEF Fetched, NextPageParams
<1>4. floor' \in Messages \cup {NoMessage}
  BY <1>1, <1>3, Cursors
<1>5. NoFetch \in [kind : {"none", "all", "older"}, base : Seq(Seq(Messages)),
                   wanted : Nat, got : Seq(Seq(Messages)), answered : BOOLEAN,
                   page : Seq(Messages), failures : 0 .. MAX_RETRIES]
  <2>1. <<>> \in Seq(Seq(Messages)) /\ <<>> \in Seq(Messages) /\ 0 \in 0 .. MAX_RETRIES
    BY FeedAssumption
  <2> QED
    BY <2>1 DEF NoFetch
<1> HIDE DEF result
<1>6. TypeOK'
  BY <1>2, <1>3, <1>4, <1>5 DEF IInv, TypeOK
<1>7. DueInv'
  BY <1>3 DEF IInv, FeedInv, DueInv
<1>8. PagesInv'
  <2>1. floor' # NoMessage => loaded' /\ NextPageParams(Last(pages')) # NoMessage
    BY <1>2, <1>3
  <2> QED
    BY <1>2, <1>3, <2>1, PagesAreDistinct DEF PagesInv, Distinct, NoFetch, NextPageParams
<1>9. FetchInv'
  BY <1>3 DEF FetchInv, NoFetch
<1>10. FeedAccurate'
  <2> SUFFICES ASSUME NEW m \in Messages, Quiet(m)'
               PROVE  /\ m \in Held(result) => row[m] = "stored"
                      /\ row[m] = "stored" /\ InReach(m)' => m \in Held(result)
    BY <1>3 DEF FeedAccurate, Shown
  <2>1. m \notin missed' \cup skipped' /\ \A d \in due : d.id # m
    BY <1>3 DEF Quiet, Heard
  <2>2. RightAbout(m, result, NextPageParams(fetch.page))
    BY <2>1 DEF result
  <2> QED
    BY <1>3, <2>2 DEF RightAbout, InReach, Before
<1> QED
  BY <1>6, <1>7, <1>8, <1>9, <1>10 DEF IInv, FeedInv

LEMMA ArrivingKeeps ==
    ASSUME IInv, PageArrives
    PROVE  IInv'
<1> DEFINE got == Append(fetch.got, fetch.page)
<1>1. /\ fetch.answered /\ Fetching /\ missed \subseteq Messages
      /\ fetch.base \in Seq(Seq(Messages)) /\ fetch.got \in Seq(Seq(Messages))
      /\ Distinct(fetch.base) /\ Distinct(fetch.got)
      /\ fetch.page \in Seq(Messages) /\ IsInjective(fetch.page)
  BY PagesAreDistinct DEF IInv, TypeOK, FeedInv, FetchInv, PageArrives
<1>2. CASE fetch.kind = "older"
  <2>1. /\ Fetched(Append(fetch.base, fetch.page))
        /\ missed' = missed /\ skipped' = skipped \cup Skipped /\ overtaken' = overtaken
    BY <1>2 DEF PageArrives
  <2>2. ASSUME NEW m \in Messages, m \notin missed' \cup skipped', \A d \in due : d.id # m
        PROVE  RightAbout(m, Append(fetch.base, fetch.page), NextPageParams(fetch.page))
    <3>1. Quiet(m) /\ m \notin Skipped
      BY <2>1, <2>2 DEF Quiet, Heard
    <3> QED
      BY <1>1, <1>2, <3>1, BaseAndPage
  <2>3. missed' \subseteq Messages /\ skipped' \subseteq Messages /\ overtaken' \in BOOLEAN
    BY <2>1 DEF Skipped, IInv, TypeOK
  <2> QED
    BY <1>1, <2>1, <2>2, <2>3, FetchedKeeps
<1>3. CASE /\ fetch.kind # "older"
           /\ Len(got) = fetch.wanted \/ NextPageParams(fetch.page) = NoMessage
  <2>1. /\ Fetched(got) /\ missed' = IF crossed THEN missed ELSE {}
        /\ skipped' = {} /\ overtaken' = FALSE
    BY <1>3 DEF PageArrives
  <2>2. fetch.kind = "all"
    BY <1>1, <1>3 DEF IInv, TypeOK, Fetching
  <2>3. ASSUME NEW m \in Messages, m \notin missed' \cup skipped', \A d \in due : d.id # m
        PROVE  RightAbout(m, got, NextPageParams(fetch.page))
    <3>1. Steady(m)
      BY <2>1, <2>3 DEF Steady
    <3> QED
      BY <1>1, <2>2, <3>1, GotAndPage
  <2>4. missed' \subseteq Messages /\ skipped' \subseteq Messages /\ overtaken' \in BOOLEAN
    BY <1>1, <2>1
  <2> QED
    BY <1>1, <2>1, <2>3, <2>4, FetchedKeeps
<1>4. CASE /\ fetch.kind # "older"
           /\ ~ (Len(got) = fetch.wanted \/ NextPageParams(fetch.page) = NoMessage)
  <2>1. /\ fetch' = [fetch EXCEPT !.got = got, !.answered = FALSE, !.page = <<>>]
        /\ UNCHANGED <<row, ts, due, loaded, pages, floor, missed, skipped, overtaken, crossed>>
    BY <1>4 DEF PageArrives, skips
  <2>2. fetch.kind = "all"
    BY <1>1, <1>4 DEF IInv, TypeOK, Fetching
  <2>3. /\ got \in Seq(Seq(Messages)) /\ got # <<>> /\ Distinct(got) /\ Last(got) = fetch.page
    BY <1>1, PageAdded
  <2>4. \A m \in Messages : Steady(m) => RightAbout(m, got, NextPageParams(fetch.page))
    BY <1>1, <2>2, GotAndPage
  <2> HIDE DEF got
  <2>5. /\ fetch'.kind = "all" /\ fetch'.base = fetch.base /\ fetch'.got = got
        /\ fetch'.page = <<>> /\ ~fetch'.answered
    BY <2>1, <2>2 DEF IInv, TypeOK
  <2>6. TypeOK'
    <3>1. <<>> \in Seq(Messages)
      OBVIOUS
    <3> QED
      BY <2>1, <2>3, <3>1 DEF IInv, TypeOK
  <2>7. DueInv' /\ FeedAccurate'
    BY <2>1 DEF IInv, FeedInv, DueInv, FeedAccurate, Shown, Quiet, Heard, InReach, Before
  <2>8. PagesInv'
    <3>1. Distinct(fetch'.base) /\ Distinct(fetch'.got) /\ IsInjective(fetch'.page)
      BY <1>1, <2>3, <2>5 DEF IsInjective
    <3> QED
      BY <2>1, <3>1 DEF IInv, FeedInv, PagesInv, Distinct, NextPageParams
  <2>9. FetchInv'
    <3>1. PICK ps, cursor : ps = got /\ cursor = NextPageParams(fetch.page)
      OBVIOUS
    <3>2. fetch'.got = ps /\ PageParam' = cursor /\ cursor # NoMessage
      BY <1>4, <2>3, <2>5, <3>1 DEF PageParam, NextPageParams
    <3>3. \A m \in Messages : Steady(m)' => RightAbout(m, ps, cursor)'
      BY <2>1, <2>4, <3>1 DEF Steady, RightAbout, Before
    <3> QED
      BY <2>5, <3>2, <3>3 DEF FetchInv, RightAbout
  <2> QED
    BY <2>6, <2>7, <2>8, <2>9 DEF IInv, FeedInv
<1> QED
  BY <1>2, <1>3, <1>4

LEMMA NextKeeps == IInv /\ [Next]_vars => IInv'
<1> SUFFICES ASSUME IInv, [Next]_vars PROVE IInv'
  OBVIOUS
<1>1. CASE UNCHANGED vars
  <2>1. TypeOK'
    BY <1>1 DEF vars, skips, IInv, TypeOK
  <2>2. DueInv' /\ PagesInv' /\ FeedAccurate'
    BY <1>1 DEF vars, skips, IInv, FeedInv, DueInv, PagesInv, NextPageParams, FeedAccurate, Shown, Quiet, Heard,
                InReach, Before
  <2>3. FetchInv'
    BY <1>1 DEF vars, skips, IInv, FeedInv, FetchInv, PageParam, NextPageParams, RightAbout, Quiet, Heard,
                Steady, Fetching, Before
  <2> QED
    BY <2>1, <2>2, <2>3 DEF IInv, FeedInv
<1>2. CASE Next
  BY <1>2, TellingKeeps, HearingKeeps, StartingKeeps, ListingKeeps, ArrivingKeeps, FailingKeeps,
     ForgettingKeeps DEF Next
<1> QED
  BY <1>1, <1>2

LEMMA Inductive == Spec => []IInv
  BY InitEstablishes, NextKeeps, PTL DEF Spec

-----------------------------------------------------------------------------
(* The cursor. *)

(* An older page is asked for at the lowest of the last one. *)
LEMMA NothingBetween ==
    ASSUME IInv, CursorInv, ~overtaken, fetch.kind = "older"
    PROVE  Skipped = {}
<1>1. /\ fetch.base \in Seq(Seq(Messages)) /\ fetch.base # <<>> /\ PageParam # NoMessage
      /\ PageParam = NextPageParams(Last(fetch.base))
  BY DEF IInv, TypeOK, FeedInv, FetchInv, PageParam
<1>2. PageParam \in ToSet(Last(fetch.base)) /\ PageParam \in Messages
  <2>1. Last(fetch.base) \in Seq(Messages)
    BY <1>1, HeldBy DEF Last
  <2> QED
    BY <1>1, <2>1, Cursors
<1>3. floor # NoMessage => floor \in Messages /\ ~Before(PageParam, floor)
  BY <1>2 DEF IInv, TypeOK, CursorInv
<1>4. Messages \subseteq Nat /\ Keys(ts, Messages)
  BY Typed DEF IInv, Keys
<1>5. ASSUME NEW m \in Messages, floor # NoMessage, Before(PageParam, m), Before(m, floor)
      PROVE  FALSE
  BY <1>2, <1>3, <1>4, <1>5, Ordered DEF Before
<1> QED
  BY <1>5 DEF Skipped

(* A frame puts nothing on the last page that is older than what was read. *)
LEMMA LastPageStays ==
    ASSUME IInv, CursorInv, ~overtaken, NEW d \in due, UpdateFeedCache(d), ~overtaken',
           floor # NoMessage, NEW m \in ToSet(Last(pages'))
    PROVE  ~Before(m, floor)
<1>1. /\ loaded /\ \A n \in ToSet(Last(pages)) : ~Before(n, floor)
      /\ pages \in Seq(Seq(Messages)) /\ pages # <<>> /\ ts \in Clocks /\ d.id \in Messages
      /\ Distinct(pages)
  BY PagesAreDistinct DEF CursorInv, IInv, TypeOK
<1>2. CASE d.op = "message"
  <2>1. pages' = AppendToNewestPage(pages, d.id)
    BY <1>1, <1>2 DEF UpdateFeedCache
  <2>2. m \in ToSet(Last(pages)) \/ (m = d.id /\ Len(pages) = 1)
    BY <1>1, <2>1, LastPage
  <2>3. ~BelowOnlyPage(d.id)
    BY <1>2 DEF UpdateFeedCache
  <2> QED
    BY <1>1, <2>2, <2>3 DEF BelowOnlyPage
<1>3. CASE d.op # "message"
  <2>1. pages' = RemoveMessage(pages, d.id)
    BY <1>1, <1>3 DEF UpdateFeedCache
  <2> QED
    BY <1>1, <2>1, LastPage
<1> QED
  BY <1>2, <1>3

(* The page that arrives begins at its oldest message. *)
LEMMA PageAscends ==
    ASSUME IInv, CursorInv, fetch.answered, NEW m \in ToSet(fetch.page),
           NextPageParams(fetch.page) # NoMessage
    PROVE  ~Before(m, NextPageParams(fetch.page))
<1>1. fetch.page \in Seq(Messages)
  BY DEF IInv, TypeOK
<1>2. NextPageParams(fetch.page) = fetch.page[1]
  BY <1>1, Cursors
<1> QED
  BY <1>2 DEF CursorInv

LEMMA CursorKeeps == IInv /\ CursorInv /\ [Next]_vars => CursorInv'
<1> SUFFICES ASSUME IInv, CursorInv, [Next]_vars PROVE CursorInv'
  OBVIOUS
<1> DEFINE Ascending == fetch.answered /\ NextPageParams(fetch.page) # NoMessage =>
                           \A m \in ToSet(fetch.page) : ~Before(m, fetch.page[1])
           Lowest == ~overtaken =>
                        /\ skipped = {}
                        /\ floor # NoMessage =>
                              /\ loaded /\ \A m \in ToSet(Last(pages)) : ~Before(m, floor)
                              /\ fetch.kind = "older" =>
                                    \A m \in ToSet(Last(fetch.base)) : ~Before(m, floor)
<1>1. Ascending /\ Lowest
  BY DEF CursorInv
<1>2. SUFFICES Ascending' /\ Lowest'
  BY DEF CursorInv
<1>3. CASE UNCHANGED vars
  BY <1>1, <1>3 DEF vars, skips, Before, NextPageParams
<1>4. CASE \E m \in Messages, own \in BOOLEAN : Commit(m, own) \/ Delete(m, own)
  BY <1>1, <1>4 DEF Commit, Delete, UNCHANGEDCache, skips, Before, NextPageParams
<1>5. ASSUME NEW d \in due, UpdateFeedCache(d) PROVE Ascending' /\ Lowest'
  <2>1. /\ UNCHANGED <<row, ts, loaded, fetch, floor, skipped>>
        /\ ~overtaken' => ~overtaken
    BY <1>5 DEF UpdateFeedCache
  <2>2. ~overtaken' /\ floor # NoMessage => \A m \in ToSet(Last(pages')) : ~Before(m, floor)
    BY <1>5, <2>1, LastPageStays
  <2> QED
    BY <1>1, <2>1, <2>2 DEF Before, NextPageParams
<1>6. CASE \E d \in due : Miss(d)
  BY <1>1, <1>6 DEF Miss, skips, Before, NextPageParams
<1>7. CASE Refetch \/ LoadOlder
  <2>1. /\ UNCHANGED <<ts, loaded, pages, floor, skipped, overtaken>>
        /\ ~fetch'.answered /\ (fetch'.kind = "older" => fetch'.base = pages)
    BY <1>7 DEF Refetch, LoadOlder, StartFetch, NoFetch, skips
  <2> QED
    BY <1>1, <2>1 DEF Before
<1>8. CASE ListMessages
  <2>1. /\ UNCHANGED <<ts, loaded, pages, floor, skipped, overtaken>>
        /\ fetch'.kind = fetch.kind /\ fetch'.base = fetch.base
        /\ fetch'.page = GetMessages(PageParam)
    BY <1>8 DEF ListMessages, skips, IInv, TypeOK
  <2>2. \A m \in ToSet(fetch'.page) : ~Before(m, fetch'.page[1])
    BY <2>1, PageRead DEF IInv, TypeOK
  <2> QED
    BY <1>1, <2>1, <2>2 DEF Before
<1>9. CASE PageArrives
  <2>1. fetch.answered /\ ts' = ts
    BY <1>9 DEF PageArrives, Fetched
  <2>2. ASSUME NEW ps, ps \in Seq(Seq(Messages)), Fetched(Append(ps, fetch.page)),
               ~overtaken' => skipped' = {}
        PROVE  Ascending' /\ Lowest'
    <3>1. /\ pages' = Append(ps, fetch.page) /\ loaded' /\ ~fetch'.answered
          /\ fetch'.kind = "none" /\ floor' = NextPageParams(fetch.page)
      BY <2>2 DEF Fetched, NoFetch, NextPageParams
    <3>2. Last(pages') = fetch.page
      <4>1. /\ fetch.page \in Seq(Messages) /\ Len(ps) \in Nat
            /\ Len(pages') = Len(ps) + 1 /\ pages'[Len(ps) + 1] = fetch.page
        BY <2>2, <3>1, AppendProperties, LenProperties DEF IInv, TypeOK
      <4> QED
        BY <4>1 DEF Last
    <3>3. floor' # NoMessage => \A m \in ToSet(fetch.page) : ~Before(m, floor')
      BY <2>1, <3>1, PageAscends
    <3> QED
      BY <2>1, <2>2, <3>1, <3>2, <3>3 DEF Before
  <2>3. CASE fetch.kind = "older"
    <3>1. /\ Fetched(Append(fetch.base, fetch.page)) /\ fetch.base \in Seq(Seq(Messages))
          /\ skipped' = skipped \cup Skipped /\ overtaken' = overtaken
      BY <1>9, <2>3 DEF PageArrives, IInv, TypeOK
    <3>2. ~overtaken' => skipped' = {}
      BY <1>1, <2>3, <3>1, NothingBetween
    <3> QED
      BY <2>2, <3>1, <3>2
  <2>4. CASE fetch.kind # "older"
    <3>1. CASE Fetched(Append(fetch.got, fetch.page)) /\ skipped' = {}
      <4>1. fetch.got \in Seq(Seq(Messages))
        BY DEF IInv, TypeOK
      <4> QED
        BY <2>2, <3>1, <4>1
    <3>2. CASE /\ UNCHANGED <<loaded, pages, floor, skipped, overtaken>>
               /\ ~fetch'.answered /\ fetch'.kind # "older"
      BY <1>1, <2>1, <3>2 DEF Before
    <3>3. \/ Fetched(Append(fetch.got, fetch.page)) /\ skipped' = {}
          \/ /\ UNCHANGED <<loaded, pages, floor, skipped, overtaken>>
             /\ ~fetch'.answered /\ fetch'.kind # "older"
      BY <1>9, <2>4 DEF PageArrives, skips, IInv, TypeOK
    <3> QED
      BY <3>1, <3>2, <3>3
  <2> QED
    BY <2>3, <2>4
<1>10. CASE PageFails \/ FetchFails
  <2>1. /\ UNCHANGED <<ts, loaded, pages, floor, skipped, overtaken>> /\ ~fetch'.answered
        /\ fetch'.kind = "older" => fetch.kind = "older" /\ fetch'.base = fetch.base
    <3>1. CASE PageFails
      BY <3>1 DEF PageFails, skips, IInv, TypeOK
    <3>2. CASE FetchFails
      BY <3>2 DEF FetchFails, NoFetch, skips
    <3> QED
      BY <1>10, <3>1, <3>2
  <2> QED
    BY <1>1, <2>1 DEF Before
<1>11. CASE Forget
  <2>1. UNCHANGED <<ts, fetch>> /\ skipped' = {} /\ floor' = NoMessage
    BY <1>11 DEF Forget
  <2> QED
    BY <1>1, <2>1 DEF Before, NextPageParams
<1> QED
  BY <1>3, <1>4, <1>5, <1>6, <1>7, <1>8, <1>9, <1>10, <1>11 DEF Next

LEMMA CursorStands == Spec => []CursorInv
<1>1. Init => CursorInv
  BY DEF Init, CursorInv, NoFetch
<1> QED
  BY <1>1, CursorKeeps, Inductive, PTL DEF Spec

-----------------------------------------------------------------------------
(* Every variable keeps its type; pages hold messages, and no fetch fails   *)
(* more often than the retry policy allows (queries/client.ts).             *)
THEOREM TypeCorrect == Spec => []TypeOK
<1>1. IInv => TypeOK
  BY DEF IInv
<1> QED
  BY <1>1, Inductive, PTL

(* Whatever commits, frames, refetches and older pages cross, the feed is    *)
(* right about every message it did not lose track of (appendToNewestPage,   *)
(* removeMessage, the refetch of queries/messages.ts).                        *)
THEOREM FeedIsAccurate == Spec => []FeedAccurate
<1>1. IInv => FeedAccurate
  BY DEF IInv, FeedInv
<1> QED
  BY <1>1, Inductive, PTL

(* The button for older messages is there until the whole history is shown,  *)
(* for every page size, however many messages share a timestamp and in       *)
(* whatever order they commit (nextPageParams, appendToNewestPage,           *)
(* get_messages_for_user).  Excepted are a feed where messages were deleted, *)
(* one whose only page took in a message dated before what had been read,    *)
(* and the messages the tab was not told of: there the code may stop short.  *)
THEOREM HistoryCanBeRead == Spec => []HistoryReachable
<1>1. IInv /\ CursorInv => HistoryReachable
  <2> SUFFICES ASSUME IInv, CursorInv, ~overtaken, loaded, ~HasOlder,
                      \A m \in Messages : row[m] # "gone", NEW m \in Stored, Heard(m)
               PROVE  m \in Shown
    BY DEF HistoryReachable, Unskipped
  <2>1. floor = NoMessage
    BY DEF IInv, FeedInv, PagesInv, HasOlder
  <2>2. Quiet(m)
    BY DEF CursorInv, Quiet
  <2> QED
    BY <2>1, <2>2 DEF IInv, FeedInv, FeedAccurate, Stored, InReach
<1> QED
  BY <1>1, Inductive, CursorStands, PTL

(* How a refetch ends: the cache is its pages, the last of which came last. *)
LEMMA RefetchEnds ==
    ASSUME IInv, PageArrives, fetch.kind = "all", ~Fetching', ~crossed
    PROVE  /\ UNCHANGED <<row, ts, due>> /\ loaded' /\ missed' = {} /\ skipped' = {}
           /\ fetch.answered /\ fetch.page \in Seq(Messages)
           /\ Last(pages') = fetch.page /\ floor' = NextPageParams(fetch.page)
<1>1. /\ fetch.got \in Seq(Seq(Messages)) /\ fetch.page \in Seq(Messages)
      /\ fetch \in [kind : {"none", "all", "older"}, base : Seq(Seq(Messages)),
                    wanted : Nat, got : Seq(Seq(Messages)), answered : BOOLEAN,
                    page : Seq(Messages), failures : 0..MAX_RETRIES]
  BY DEF IInv, TypeOK
<1>2. /\ fetch.answered /\ Fetched(Append(fetch.got, fetch.page))
      /\ missed' = {} /\ skipped' = {}
  <2>1. CASE /\ Fetched(Append(fetch.got, fetch.page))
             /\ missed' = IF crossed THEN missed ELSE {}
             /\ skipped' = {} /\ fetch.answered
    BY <2>1
  <2>2. CASE fetch' = [fetch EXCEPT !.got = Append(fetch.got, fetch.page), !.answered = FALSE,
                                    !.page = <<>>]
    BY <1>1, <2>2 DEF Fetching
  <2> QED
    BY <2>1, <2>2 DEF PageArrives
<1>3. /\ pages' = Append(fetch.got, fetch.page) /\ loaded' /\ UNCHANGED <<row, ts, due>>
      /\ floor' = NextPageParams(fetch.page)
  BY <1>2 DEF Fetched, NextPageParams
<1>4. Len(fetch.got) \in Nat /\ Len(pages') = Len(fetch.got) + 1
      /\ pages'[Len(fetch.got) + 1] = fetch.page
  BY <1>1, <1>3, AppendProperties, LenProperties
<1> QED
  BY <1>1, <1>2, <1>3, <1>4 DEF Last

(* A refetch that nothing crosses leaves nothing of what the feed had lost,  *)
(* for every size and number of pages: what is shown is stored, and what is  *)
(* stored and not shown lies below the last page and is still offered        *)
(* (the refetch and nextPageParams of queries/messages.ts).                   *)
THEOREM RefetchesRepair == Spec => RefetchRepairs
<1> DEFINE Repairs(m) ==
             /\ m \in Shown' => row[m] = "stored"
             /\ row[m] = "stored" /\ m \notin Shown' =>
                   HasOlder' /\ \A n \in ToSet(Last(pages')) : Before(m, n)
           Repair == PageArrives /\ fetch.kind = "all" /\ ~Fetching' /\ ~crossed =>
                       \A m \in Messages : (\A d \in due : d.id # m) => Repairs(m)
<1>1. IInv /\ CursorInv /\ IInv' /\ [Next]_vars => [Repair]_vars
  <2> SUFFICES ASSUME IInv, CursorInv, IInv', PageArrives, fetch.kind = "all", ~Fetching',
                      ~crossed, NEW m \in Messages, \A d \in due : d.id # m
               PROVE  Repairs(m)
    OBVIOUS
  <2>1. /\ UNCHANGED <<row, ts, due>> /\ loaded' /\ missed' = {} /\ skipped' = {}
        /\ fetch.answered /\ fetch.page \in Seq(Messages)
        /\ Last(pages') = fetch.page /\ floor' = NextPageParams(fetch.page)
    BY RefetchEnds
  <2>2. Quiet(m)'
    BY <2>1 DEF Quiet, Heard
  <2>3. /\ m \in Shown' => row[m] = "stored"
        /\ row[m] = "stored" /\ InReach(m)' => m \in Shown'
    BY <2>1, <2>2 DEF IInv, FeedInv, FeedAccurate
  <2>4. ASSUME row[m] = "stored", m \notin Shown'
        PROVE  HasOlder' /\ \A n \in ToSet(Last(pages')) : Before(m, n)
    <3>1. floor' # NoMessage /\ Before(m, floor')
      BY <2>1, <2>3, <2>4 DEF InReach, Before
    <3>2. HasOlder'
      BY <2>1, <3>1 DEF HasOlder, NextPageParams
    <3>3. ASSUME NEW n \in ToSet(fetch.page) PROVE Before(m, n)
      <4>1. n \in Messages /\ floor' \in Messages /\ ~Before(n, floor')
        BY <2>1, <3>1, <3>3, Members, Cursors, PageAscends
      <4>2. Messages \subseteq Nat /\ Keys(ts, Messages)
        BY Typed DEF IInv, Keys
      <4> QED
        BY <3>1, <4>1, <4>2, Ordered DEF Before
    <3> QED
      BY <2>1, <3>2, <3>3
  <2> QED
    BY <2>3, <2>4
<1> QED
  BY <1>1, Inductive, CursorStands, PTL DEF Spec, RefetchRepairs
=============================================================================
