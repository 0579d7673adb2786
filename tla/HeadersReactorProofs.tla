------------------------ MODULE HeadersReactorProofs ------------------------
(***************************************************************************)
(* The safety of the headers reactor for every tree of blocks, every set   *)
(* of servers, any number of concurrent calls and every size of chunk:     *)
(* the inductive invariant, and the refinement of HeadersStore; and, when  *)
(* the servers are on one chain, what `synced' promises and the links      *)
(* between the rows, from whatever table an earlier run may have left.     *)
(*                                                                         *)
(* A step of a call ends in one of two ways, Leave or Suspend, so each     *)
(* action is proved by showing what it does to the table and which of the  *)
(* two lemmas, LeaveKeeps or SuspendKeeps, finishes it.                    *)
(***************************************************************************)
EXTENDS HeadersReactor, FiniteSetTheorems, WellFoundedInduction, TLAPS

(***************************************************************************)
(* The headers table, for every tree of blocks: what the queries return,   *)
(* and that each update keeps the table a stack, the ids of whose rows are *)
(* 1..n in the order of their heights.                                     *)
(***************************************************************************)

\* Every set of natural numbers that is not empty has a least element.
LEMMA LeastNatural ==
    ASSUME NEW T \in SUBSET Nat, T # {}
    PROVE  \E m \in T : \A n \in T : m <= n
<1> DEFINE R == {ss \in Nat \X Nat : ss[1] < ss[2]}
<1>1. IsWellFoundedOn(R, Nat)
    BY NatLessThanWellFounded, Zenon DEF OpToRel
<1> HIDE DEF R
<1>2. PICK m \in T : \A n \in T : ~ (<<n, m>> \in R)
    BY <1>1, WFMin
<1>3. ASSUME NEW n \in T PROVE m <= n
    <2>1. <<n, m>> \in Nat \X Nat /\ ~ (<<n, m>> \in R)
        BY <1>2
    <2>2. QED
        BY <2>1 DEF R
<1>4. QED
    BY <1>3

\* A list that is not empty has a header that is lowest and one that is highest.
LEMMA LowestExists ==
    ASSUME NEW S \in SUBSET Block, S # {}
    PROVE  /\ Lowest(S) \in S
           /\ \A c \in S : Height[Lowest(S)] <= Height[c]
<1>1. {Height[b] : b \in S} \in SUBSET Nat /\ {Height[b] : b \in S} # {}
    BY BlockAssumption
<1>2. PICK m \in {Height[b] : b \in S} : \A n \in {Height[b] : b \in S} : m <= n
    BY <1>1, LeastNatural
<1>3. \E b \in S : \A c \in S : Height[b] <= Height[c]
    BY <1>2
<1>4. QED
    BY <1>3 DEF Lowest

LEMMA HighestExists ==
    ASSUME NEW S \in SUBSET Block, S # {}
    PROVE  /\ Highest(S) \in S
           /\ \A c \in S : Height[c] <= Height[Highest(S)]
<1> DEFINE Above(b) == {c \in S : Height[b] < Height[c]}
           Counts   == {Cardinality(Above(b)) : b \in S}
<1>1. ASSUME NEW b \in S PROVE IsFiniteSet(Above(b)) /\ Cardinality(Above(b)) \in Nat
    BY BlockAssumption, FS_Subset, FS_CardinalityType
<1>2. Counts \in SUBSET Nat /\ Counts # {}
    BY <1>1
<1>3. PICK m \in Counts : \A n \in Counts : m <= n
    BY <1>2, LeastNatural
<1>4. PICK b \in S : m = Cardinality(Above(b))
    BY <1>3
<1>5. ASSUME NEW c \in S, Height[b] < Height[c] PROVE FALSE
    <2>1. Above(c) \subseteq Above(b) /\ c \in Above(b) /\ c \notin Above(c)
        BY <1>5, BlockAssumption
    <2>2. Cardinality(Above(c)) < Cardinality(Above(b))
        <3>1. Cardinality(Above(c)) <= Cardinality(Above(b))
            BY <1>1, <2>1, FS_Subset
        <3>2. Cardinality(Above(c)) # Cardinality(Above(b))
            BY <1>1, <2>1, FS_Subset
        <3>3. QED
            BY <1>1, <3>1, <3>2
    <2>3. Cardinality(Above(b)) <= Cardinality(Above(c))
        BY <1>3, <1>4
    <2>4. Cardinality(Above(b)) \in Nat /\ Cardinality(Above(c)) \in Nat
        BY <1>1
    <2>5. QED
        BY <2>2, <2>3, <2>4
<1>6. \A c \in S : Height[c] <= Height[b]
    BY <1>5, BlockAssumption
<1>7. QED
    BY <1>6 DEF Highest

-----------------------------------------------------------------------------
(***************************************************************************)
(* The table as a stack.                                                   *)
(***************************************************************************)
Stacked(r) ==
    /\ DOMAIN r \in SUBSET Block
    /\ r \in [DOMAIN r -> Nat \ {0}]
    /\ {r[b] : b \in DOMAIN r} = 1..Cardinality(DOMAIN r)
    /\ \A b, c \in DOMAIN r : Height[b] = Height[c] => b = c
    /\ \A b, c \in DOMAIN r : (Height[b] < Height[c]) <=> (r[b] < r[c])

LEMMA EmptyStacked == Stacked(EmptyTable)
<1>1. DOMAIN EmptyTable = {} /\ EmptyTable = [b \in {} |-> 0]
    BY DEF EmptyTable
<1>2. {EmptyTable[b] : b \in DOMAIN EmptyTable} = {}
    BY <1>1
<1>3. Cardinality({}) = 0
    BY FS_EmptySet
<1>4. 1..0 = {}
    OBVIOUS
<1>5. EmptyTable \in [{} -> Nat \ {0}]
    BY DEF EmptyTable
<1>6. QED
    BY <1>1, <1>2, <1>3, <1>4, <1>5 DEF Stacked

LEMMA StackFinite ==
    ASSUME NEW r, Stacked(r)
    PROVE  IsFiniteSet(DOMAIN r) /\ Cardinality(DOMAIN r) \in Nat
    BY BlockAssumption, FS_Subset, FS_CardinalityType DEF Stacked

\* The row with the largest id is the highest header, and its id counts the rows.
LEMMA BestIsTop ==
    ASSUME NEW r, Stacked(r), DOMAIN r # {}
    PROVE  /\ BestHeader(r) \in DOMAIN r
           /\ r[BestHeader(r)] = Cardinality(DOMAIN r)
           /\ \A c \in DOMAIN r : Height[c] <= Height[BestHeader(r)]
<1> DEFINE n == Cardinality(DOMAIN r)
<1>1. n \in Nat
    BY StackFinite
<1>2. \A b \in DOMAIN r : r[b] \in 1..n
    BY DEF Stacked
<1>3. n \in {r[b] : b \in DOMAIN r}
    <2>1. PICK b \in DOMAIN r : TRUE
        OBVIOUS
    <2>2. n \in 1..n
        BY <1>1, <1>2, <2>1
    <2>3. QED
        BY <2>2 DEF Stacked
<1>4. PICK b \in DOMAIN r : r[b] = n
    BY <1>3
<1>5. \A c \in DOMAIN r : r[c] <= r[b]
    BY <1>1, <1>2, <1>4
<1>6. /\ BestHeader(r) \in DOMAIN r
      /\ \A c \in DOMAIN r : r[c] <= r[BestHeader(r)]
    BY <1>5 DEF BestHeader
<1>7. r[BestHeader(r)] = n
    BY <1>1, <1>2, <1>4, <1>6
<1>8. ASSUME NEW c \in DOMAIN r PROVE Height[c] <= Height[BestHeader(r)]
    <2>1. ~ (r[BestHeader(r)] < r[c])
        BY <1>6, <1>2, <1>1
    <2>2. ~ (Height[BestHeader(r)] < Height[c])
        BY <2>1, <1>6, <1>8 DEF Stacked
    <2>3. Height[c] \in Nat /\ Height[BestHeader(r)] \in Nat
        BY <1>6, BlockAssumption DEF Stacked
    <2>4. QED
        BY <2>2, <2>3
<1>9. QED
    BY <1>6, <1>7, <1>8

LEMMA LastIdCounts ==
    ASSUME NEW r, Stacked(r)
    PROVE  LastId(r) = Cardinality(DOMAIN r)
    BY BestIsTop, FS_EmptySet DEF LastId

\* A finite set of positive numbers that is closed downwards is 1..n.
LEMMA DownwardClosed ==
    ASSUME NEW n \in Nat, NEW I \in SUBSET (1..n),
           \A i \in I : \A j \in 1..n : j < i => j \in I
    PROVE  I = 1..Cardinality(I)
<1> DEFINE Out == {k \in Nat : k >= 1 /\ k \notin I}
<1>1. Out \in SUBSET Nat /\ n + 1 \in Out
    OBVIOUS
<1>2. PICK k \in Out : \A j \in Out : k <= j
    BY <1>1, LeastNatural
<1>3. k \in Nat /\ k >= 1 /\ k <= n + 1
    BY <1>1, <1>2
<1>4. ASSUME NEW j \in 1..(k - 1) PROVE j \in I
    BY <1>2, <1>3
<1>5. ASSUME NEW j \in I PROVE j \in 1..(k - 1)
    <2>1. j \in 1..n
        OBVIOUS
    <2>2. CASE j > k
        BY <1>2, <1>3, <2>1, <2>2
    <2>3. CASE j = k
        BY <1>2, <2>3
    <2>4. QED
        BY <1>3, <2>1, <2>2, <2>3
<1>6. I = 1..(k - 1)
    BY <1>4, <1>5
<1>7. Cardinality(1..(k - 1)) = k - 1
    <2>1. 1 \in Int /\ k - 1 \in Int
        BY <1>3
    <2>2. Cardinality(1..(k - 1)) = IF 1 > k - 1 THEN 0 ELSE (k - 1) - 1 + 1
        BY <2>1, FS_Interval
    <2>3. QED
        BY <1>3, <2>2
<1>8. QED
    BY <1>6, <1>7

\* The image of a set under an injection has as many elements.
LEMMA InjectiveImage ==
    ASSUME NEW S, IsFiniteSet(S), NEW f, S \subseteq DOMAIN f,
           \A x, y \in S : f[x] = f[y] => x = y
    PROVE  /\ IsFiniteSet({f[x] : x \in S})
           /\ Cardinality({f[x] : x \in S}) = Cardinality(S)
<1> DEFINE T == {f[x] : x \in S}
           g == [x \in S |-> f[x]]
<1>1. g \in Bijection(S, T)
    BY DEF Bijection, Injection, Surjection, IsInjective
<1>2. ExistsBijection(S, T)
    BY <1>1 DEF ExistsBijection
<1>3. QED
    BY <1>2, FS_Bijection

-----------------------------------------------------------------------------
(***************************************************************************)
(* The updates keep the table a stack.                                     *)
(***************************************************************************)

\* Dropping every header from some height on leaves a stack.
LEMMA RemoveFromStacked ==
    ASSUME NEW r, Stacked(r), NEW h \in Int
    PROVE  /\ Stacked(RemoveFrom(r, h))
           /\ DOMAIN RemoveFrom(r, h) = {c \in DOMAIN r : Height[c] < h}
<1> DEFINE left == {c \in DOMAIN r : Height[c] < h}
           new  == RemoveFrom(r, h)
           ids  == {r[b] : b \in left}
           n    == Cardinality(DOMAIN r)
<1>1. DOMAIN new = left /\ \A b \in left : new[b] = r[b]
    BY DEF RemoveFrom
<1>2. n \in Nat /\ IsFiniteSet(DOMAIN r)
    BY StackFinite
<1>3. IsFiniteSet(left)
    BY <1>2, FS_Subset
<1>4. \A b \in DOMAIN r : Height[b] \in Nat /\ r[b] \in Nat /\ r[b] \in 1..n
    BY BlockAssumption DEF Stacked
<1>5. \A b, c \in left : r[b] = r[c] => b = c
    BY <1>4 DEF Stacked
<1>6. Cardinality(ids) = Cardinality(left)
    BY <1>3, <1>5, InjectiveImage
<1>7. ids \in SUBSET (1..n)
    BY <1>4
<1>8. ASSUME NEW i \in ids, NEW j \in 1..n, j < i PROVE j \in ids
    <2>1. PICK b \in left : r[b] = i
        OBVIOUS
    <2>2. PICK c \in DOMAIN r : r[c] = j
        BY DEF Stacked
    <2>3. Height[c] < Height[b]
        BY <1>8, <2>1, <2>2 DEF Stacked
    <2>4. c \in left
        BY <1>4, <2>1, <2>2, <2>3
    <2>5. QED
        BY <2>2, <2>4
<1>9. ids = 1..Cardinality(ids)
    BY <1>2, <1>7, <1>8, DownwardClosed
<1>10. {new[b] : b \in DOMAIN new} = ids
    BY <1>1
<1>11. new \in [DOMAIN new -> Nat \ {0}]
    BY <1>1, <1>4 DEF RemoveFrom
<1>12. \A b, c \in left : (Height[b] < Height[c]) <=> (new[b] < new[c])
    BY <1>1 DEF Stacked
<1>13. Stacked(new)
    BY <1>1, <1>6, <1>9, <1>10, <1>11, <1>12 DEF Stacked
<1>14. QED
    BY <1>1, <1>13

\* The ranks of the headers of a list are 1..n, in the order of their heights.
LEMMA Ranks ==
    ASSUME NEW S \in SUBSET Block,
           \A b, c \in S : Height[b] = Height[c] => b = c,
           NEW rank, rank = [b \in S |-> Cardinality({c \in S : Height[c] <= Height[b]})]
    PROVE  /\ Cardinality(S) \in Nat
           /\ {rank[b] : b \in S} = 1..Cardinality(S)
           /\ \A b, c \in S : (Height[b] < Height[c]) <=> (rank[b] < rank[c])
<1> DEFINE Upto(b) == {c \in S : Height[c] <= Height[b]}
           n == Cardinality(S)
<1>1. IsFiniteSet(S) /\ n \in Nat
    BY BlockAssumption, FS_Subset, FS_CardinalityType
<1>2. ASSUME NEW b \in S PROVE IsFiniteSet(Upto(b)) /\ rank[b] = Cardinality(Upto(b)) /\ rank[b] \in 1..n
    <2>1. IsFiniteSet(Upto(b)) /\ Cardinality(Upto(b)) <= n
        BY <1>1, FS_Subset
    <2>2. b \in Upto(b)
        BY BlockAssumption
    <2>3. Cardinality(Upto(b)) \in Nat /\ Cardinality(Upto(b)) # 0
        BY <2>1, <2>2, FS_CardinalityType, FS_EmptySet
    <2>4. rank[b] = Cardinality(Upto(b))
        OBVIOUS
    <2>5. QED
        BY <1>1, <2>1, <2>3, <2>4
<1>3. ASSUME NEW b \in S, NEW c \in S, Height[b] < Height[c] PROVE rank[b] < rank[c]
    <2>1. Upto(b) \subseteq Upto(c) /\ c \in Upto(c) /\ c \notin Upto(b)
        BY <1>3, BlockAssumption
    <2>2. Cardinality(Upto(b)) <= Cardinality(Upto(c))
        BY <1>2, <2>1, FS_Subset
    <2>3. Cardinality(Upto(b)) # Cardinality(Upto(c))
        BY <1>2, <2>1, FS_Subset
    <2>4. rank[b] \in Nat /\ rank[c] \in Nat /\ rank[b] <= rank[c] /\ rank[b] # rank[c]
        BY <1>2, <2>2, <2>3
    <2>5. QED
        BY <2>4
<1> HIDE DEF Upto
<1>4. ASSUME NEW b \in S, NEW c \in S PROVE (Height[b] < Height[c]) <=> (rank[b] < rank[c])
    <2>1. Height[b] \in Nat /\ Height[c] \in Nat
        BY BlockAssumption
    <2>2. rank[b] \in 1..n /\ rank[c] \in 1..n
        BY <1>2
    <2>3. rank[b] \in Nat /\ rank[c] \in Nat
        BY <1>1, <2>2
    <2>4. (Height[b] < Height[c]) => rank[b] < rank[c]
        BY <1>3
    <2>5. (Height[c] < Height[b]) => rank[c] < rank[b]
        BY <1>3
    <2>6. (Height[c] = Height[b]) => rank[c] = rank[b]
        OBVIOUS
    <2>7. QED
        BY <2>1, <2>3, <2>4, <2>5, <2>6
<1>5. \A b, c \in S : rank[b] = rank[c] => b = c
    <2>1. SUFFICES ASSUME NEW b \in S, NEW c \in S, rank[b] = rank[c] PROVE b = c
        OBVIOUS
    <2>2. rank[b] \in Nat /\ Height[b] \in Nat /\ Height[c] \in Nat
        BY <1>1, <1>2, BlockAssumption
    <2>3. ~(Height[b] < Height[c]) /\ ~(Height[c] < Height[b])
        BY <1>4, <2>1, <2>2
    <2>4. QED
        BY <2>2, <2>3
<1>6. rank \in [S -> 1..n]
    BY <1>2
<1>7. rank \in Injection(S, 1..n)
    BY <1>5, <1>6 DEF Injection, IsInjective
<1>8. IsFiniteSet(1..n) /\ Cardinality(1..n) = n
    <2>1. 1 \in Int /\ n \in Int
        BY <1>1
    <2>2. IsFiniteSet(1..n) /\ Cardinality(1..n) = IF 1 > n THEN 0 ELSE n - 1 + 1
        BY <2>1, FS_Interval
    <2>3. QED
        BY <1>1, <2>2
<1>9. rank \in Surjection(S, 1..n)
    BY <1>7, <1>8, FS_Injection
<1>10. {rank[b] : b \in S} = 1..n
    <2>1. \A i \in 1..n : \E b \in S : rank[b] = i
        BY <1>9, Zenon DEF Surjection
    <2>2. \A b \in S : rank[b] \in 1..n
        BY <1>2
    <2>3. QED
        BY <2>1, <2>2
<1>11. QED
    BY <1>1, <1>4, <1>10

\* Adding a list of headers that are all above the table leaves a stack.
LEMMA InsertStacked ==
    ASSUME NEW r, Stacked(r), NEW S \in SUBSET Block,
           \A b, c \in S : Height[b] = Height[c] => b = c,
           \A b \in S, c \in DOMAIN r : Height[c] < Height[b]
    PROVE  /\ Stacked(InsertRows(r, S))
           /\ DOMAIN InsertRows(r, S) = DOMAIN r \cup S
<1> DEFINE D    == DOMAIN r
           rank == [b \in S |-> Cardinality({c \in S : Height[c] <= Height[b]})]
           n    == Cardinality(D)
           m    == Cardinality(S)
           new  == InsertRows(r, S)
<1>1. IsFiniteSet(D) /\ n \in Nat
    BY StackFinite
<1>2. /\ m \in Nat
      /\ {rank[b] : b \in S} = 1..m
      /\ \A b, c \in S : (Height[b] < Height[c]) <=> (rank[b] < rank[c])
    BY Ranks
<1>3. /\ D \in SUBSET Block
      /\ {r[b] : b \in D} = 1..n
      /\ \A b, c \in D : Height[b] = Height[c] => b = c
      /\ \A b, c \in D : (Height[b] < Height[c]) <=> (r[b] < r[c])
    BY DEF Stacked
<1>4. \A b \in Block : Height[b] \in Nat
    BY BlockAssumption
<1>5. D \cap S = {}
    <2>1. ASSUME NEW b \in D, b \in S PROVE FALSE
        <3>1. Height[b] < Height[b] /\ Height[b] \in Nat
            BY <1>4, <2>1
        <3>2. QED
            BY <3>1
    <2>2. QED
        BY <2>1
<1>6. Cardinality(D \cup S) = n + m
    <2>1. IsFiniteSet(S)
        BY BlockAssumption, FS_Subset
    <2>2. Cardinality(D \cup S) = n + m - Cardinality(D \cap S)
        BY <1>1, <2>1, FS_Union
    <2>3. Cardinality(D \cap S) = 0
        BY <1>5, FS_EmptySet
    <2>4. QED
        BY <1>1, <1>2, <2>2, <2>3
<1>7. DOMAIN new = D \cup S
    BY DEF InsertRows
<1>8. \A b \in D : new[b] = r[b] /\ new[b] \in 1..n
    BY <1>3 DEF InsertRows
<1>9. \A b \in S : new[b] = n + rank[b] /\ rank[b] \in 1..m
    <2>1. LastId(r) = n
        BY LastIdCounts
    <2>2. ASSUME NEW b \in S PROVE new[b] = n + rank[b] /\ rank[b] \in 1..m
        <3>1. b \notin D
            BY <1>5
        <3>2. rank[b] \in 1..m
            BY <1>2
        <3>3. new[b] = LastId(r) + Cardinality({c \in S : Height[c] <= Height[b]})
            BY <3>1 DEF InsertRows
        <3>4. rank[b] = Cardinality({c \in S : Height[c] <= Height[b]})
            OBVIOUS
        <3>5. QED
            BY <2>1, <3>2, <3>3, <3>4
    <2>3. QED
        BY <2>2
<1> HIDE DEF rank, new
<1>10. {new[b] : b \in D \cup S} = 1..(n + m)
    <2>1. ASSUME NEW b \in D \cup S PROVE new[b] \in 1..(n + m)
        <3>1. CASE b \in D
            BY <1>1, <1>2, <1>8, <3>1
        <3>2. CASE b \in S
            BY <1>1, <1>2, <1>9, <3>2
        <3>3. QED
            BY <3>1, <3>2
    <2>2. ASSUME NEW i \in 1..(n + m) PROVE \E b \in D \cup S : new[b] = i
        <3>1. CASE i <= n
            <4>1. i \in 1..n
                BY <1>1, <3>1
            <4>2. PICK b \in D : r[b] = i
                BY <1>3, <4>1
            <4>3. QED
                BY <1>8, <4>2
        <3>2. CASE i > n
            <4>1. i - n \in 1..m
                BY <1>1, <1>2, <3>2
            <4>2. PICK b \in S : rank[b] = i - n
                BY <1>2, <4>1
            <4>3. new[b] = i
                BY <1>1, <1>9, <4>2
            <4>4. QED
                BY <4>3
        <3>3. QED
            BY <1>1, <3>1, <3>2
    <2>3. QED
        BY <2>1, <2>2
<1>11. new \in [D \cup S -> Nat \ {0}]
    <2>1. new = [b \in D \cup S |-> new[b]]
        BY DEF new, InsertRows
    <2>2. \A b \in D \cup S : new[b] \in 1..(n + m)
        BY <1>10
    <2>3. \A b \in D \cup S : new[b] \in Nat \ {0}
        BY <1>1, <1>2, <2>2
    <2>4. QED
        BY <2>1, <2>3
<1>12. ASSUME NEW b \in D \cup S, NEW c \in D \cup S, Height[b] = Height[c]
       PROVE  b = c
    <2>1. Height[b] \in Nat /\ Height[c] \in Nat
        BY <1>3, <1>4
    <2>2. ~(b \in S /\ c \in D) /\ ~(c \in S /\ b \in D)
        BY <1>12, <2>1
    <2>3. QED
        BY <1>3, <1>12, <2>2
<1>13. ASSUME NEW b \in D \cup S, NEW c \in D \cup S
       PROVE  (Height[b] < Height[c]) <=> (new[b] < new[c])
    <2>1. Height[b] \in Nat /\ Height[c] \in Nat
        BY <1>3, <1>4
    <2>2. CASE b \in D /\ c \in D
        BY <1>3, <1>8, <2>2
    <2>3. CASE b \in D /\ c \in S
        <3>1. Height[b] < Height[c]
            BY <2>3
        <3>2. new[b] \in 1..n /\ new[c] = n + rank[c] /\ rank[c] \in 1..m
            BY <1>8, <1>9, <2>3
        <3>3. QED
            BY <1>1, <1>2, <3>1, <3>2
    <2>4. CASE b \in S /\ c \in D
        <3>1. Height[c] < Height[b]
            BY <2>4
        <3>2. new[c] \in 1..n /\ new[b] = n + rank[b] /\ rank[b] \in 1..m
            BY <1>8, <1>9, <2>4
        <3>3. QED
            BY <1>1, <1>2, <2>1, <3>1, <3>2
    <2>5. CASE b \in S /\ c \in S
        <3>1. /\ new[b] = n + rank[b] /\ rank[b] \in 1..m
              /\ new[c] = n + rank[c] /\ rank[c] \in 1..m
            BY <1>9, <2>5
        <3>2. (Height[b] < Height[c]) <=> (rank[b] < rank[c])
            BY <1>2, <2>5
        <3>3. QED
            BY <1>1, <1>2, <3>1, <3>2
    <2>6. QED
        BY <2>2, <2>3, <2>4, <2>5
<1>14. D \cup S \in SUBSET Block
    BY <1>3
<1>15. Stacked(new)
    BY <1>6, <1>7, <1>10, <1>11, <1>12, <1>13, <1>14 DEF Stacked
<1>16. QED
    BY <1>7, <1>15 DEF new

\* What a successful save has checked.
LEMMA SavedIsLinked ==
    ASSUME NEW r, Stacked(r), NEW S \in SUBSET Block, S # {},
           SaveOutcome(r, S) = "saved"
    PROVE  /\ \A b \in S, c \in DOMAIN r : b # c /\ Height[b] # Height[c]
           /\ Height[Lowest(S)] # 0 => Prev[Lowest(S)] \in DOMAIN r
<1>1. ~ParentMissing(r, S) /\ ~ParentDiffers(r, S) /\ ~Clashes(r, S)
    BY DEF SaveOutcome
<1>2. \A b \in S, c \in DOMAIN r : b # c /\ Height[b] # Height[c]
    BY <1>1 DEF Clashes
<1>3. ASSUME Height[Lowest(S)] # 0 PROVE Prev[Lowest(S)] \in DOMAIN r
    <2> DEFINE h == Height[Lowest(S)] - 1
               p == HeaderAtHeight(r, h)
    <2>1. p # NoBlock /\ p = Prev[Lowest(S)]
        BY <1>1, <1>3 DEF ParentMissing, ParentDiffers
    <2>2. \E b \in DOMAIN r : Height[b] = h
        BY <2>1 DEF HeaderAtHeight
    <2>3. p \in DOMAIN r
        BY <2>2 DEF HeaderAtHeight
    <2>4. QED
        BY <2>1, <2>3
<1>4. QED
    BY <1>2, <1>3

-----------------------------------------------------------------------------
(***************************************************************************)
(* The reactor.                                                            *)
(***************************************************************************)

FrameType == [header : Block \cup {NoBlock}, retries : 0..MaxRetries,
              base : Block \cup {NoBlock}, index : Nat, saving : SUBSET Block]

\* The variables that every handler may set directly.
SharedOK ==
    /\ last \in Block \cup {NoBlock}
    /\ synced \in BOOLEAN
    /\ syncErrors \in 0..MaxSyncErrors
    /\ announced \in Block \cup {NoBlock}
    /\ poll \in {"off", "scheduled", "asking", "dead"}
    /\ pollAt \in Nat

SignalOK ==
    /\ bestHit \in Block \cup {NoBlock}
    /\ bootstrapped \in BOOLEAN

TableOK(r) == Stacked(r) /\ (DOMAIN r # {} => Genesis \in DOMAIN r)

\* The height at which the chunk under way begins.
Start(f) == ChunkIndex(f) * ChunkSize

\* During a chunk download: the headers kept for a later save are below the
\* chunk under way and above the table, and the table holds nothing between
\* the captured local best header and that chunk but what the call saved.
ChunksOK(r, f) ==
    /\ f.base \in DOMAIN r \cup {NoBlock}
    /\ \A b, c \in f.saving : Height[b] = Height[c] => b = c
    /\ \A b \in f.saving : Height[b] < Start(f)
    /\ \A b \in f.saving, c \in DOMAIN r : Height[c] < Height[b]
    /\ \A c \in DOMAIN r : Height[c] <= BaseHeight(f) \/ Height[c] < Start(f)

\* What the frame f of a call suspended at `place' owes to the table r.
FrameOK(r, place, f) ==
    /\ f \in FrameType
    /\ place # "idle" => f.header \in Block
    /\ place = "waiting" => f.index = 0 /\ f.saving = {}
    /\ place = "range" => DOMAIN r # {} /\ f.base = BestHeader(r)
    /\ place = "chunks" => ChunksOK(r, f)

\* The call of t is either outside the lock or the one that holds it.
TaskOK(t) ==
    /\ pc[t] \in Critical => lock = t
    /\ FrameOK(rows, pc[t], frame[t])

Inv ==
    /\ SharedOK
    /\ SignalOK
    /\ TableOK(rows)
    /\ lock \in Task \cup {NoTask}
    /\ pc \in [Task -> Places]
    /\ frame \in [Task -> FrameType]
    /\ \A t \in Task : TaskOK(t)
    /\ LastIsBest

-----------------------------------------------------------------------------
(***************************************************************************)
(* What a step may do to the table.                                        *)
(***************************************************************************)

\* S goes on top of r, linked at its bottom.
Extends(r, r2, S) ==
    /\ S \in SUBSET Block /\ S # {}
    /\ DOMAIN r2 = DOMAIN r \cup S
    /\ \A b \in S, c \in DOMAIN r : Height[c] < Height[b]
    /\ Lowest(S) = Genesis \/ Prev[Lowest(S)] \in DOMAIN r

\* The rows from height h on are dropped, at most those of the top chunk.
Truncates(r, r2) ==
    /\ DOMAIN r # {}
    /\ \E h \in NearestParent(Height[BestHeader(r)]) .. Height[BestHeader(r)] :
          r2 = RemoveFrom(r, h)

TableStep(r, r2) ==
    \/ DOMAIN r2 = DOMAIN r
    \/ \E S \in SUBSET Block : Extends(r, r2, S)
    \/ Truncates(r, r2)

LEMMA HeightsNat == \A b \in Block : Height[b] \in Nat
    BY BlockAssumption

LEMMA NearestParentBelow ==
    ASSUME NEW n \in Nat
    PROVE  NearestParent(n) \in Nat /\ NearestParent(n) <= n
<1>1. n % ChunkSize \in Nat /\ n % ChunkSize <= n
    <2>1. ChunkSize \in Nat /\ ChunkSize > 0
        BY ReactorAssumption
    <2>2. n % ChunkSize \in 0..(ChunkSize - 1)
        BY <2>1
    <2>3. n = ChunkSize * (n \div ChunkSize) + (n % ChunkSize)
        BY <2>1
    <2>4. n \div ChunkSize >= 0 /\ n \div ChunkSize \in Int
        BY <2>1
    <2>5. ChunkSize * (n \div ChunkSize) >= 0
        BY <2>1, <2>4
    <2>6. QED
        BY <2>1, <2>2, <2>3, <2>4, <2>5
<1>2. QED
    BY <1>1 DEF NearestParent

LEMMA ChunkIndexNat ==
    ASSUME NEW f \in FrameType
    PROVE  /\ BaseHeight(f) \in Nat
           /\ ChunkIndex(f) \in Nat
           /\ Start(f) \in Nat
           /\ f.index = 0 => Start(f) <= BaseHeight(f)
           /\ BaseHeight(f) = 0 /\ f.index # 0 => Start(f) > 0
<1> DEFINE H == BaseHeight(f)
           C == ChunkSize
<1>1. C \in Nat /\ C > 0
    BY ReactorAssumption
<1>2. H \in Nat
    BY HeightsNat DEF BaseHeight, FrameType
<1>3. f.index \in Nat
    BY DEF FrameType
<1> HIDE DEF H, C
<1>4. H \div C \in Nat /\ (H \div C) * C <= H
    <2>1. H \div C \in Int /\ H \div C >= 0
        BY <1>1, <1>2
    <2>2. H = C * (H \div C) + (H % C) /\ H % C \in 0..(C - 1)
        BY <1>1, <1>2
    <2>3. QED
        BY <1>1, <1>2, <2>1, <2>2
<1>5. ChunkIndex(f) = H \div C + f.index /\ Start(f) = (H \div C + f.index) * C
    BY DEF ChunkIndex, Start, H, C
<1>6. ChunkIndex(f) \in Nat /\ Start(f) \in Nat
    BY <1>1, <1>3, <1>4, <1>5
<1>7. f.index = 0 => Start(f) <= H
    BY <1>3, <1>4, <1>5
<1>8. ASSUME H = 0, f.index # 0 PROVE Start(f) > 0
    <2>1. H \div C = 0
        BY <1>1, <1>8
    <2>2. Start(f) = f.index * C
        BY <1>3, <1>5, <2>1
    <2>3. QED
        BY <1>1, <1>3, <1>8, <2>2
<1>9. QED
    BY <1>2, <1>6, <1>7, <1>8 DEF H

\* The best header is a row, one of the highest, and no other height is above it.
LEMMA BestRow ==
    ASSUME NEW r, Stacked(r)
    PROVE  /\ (BestHeader(r) = NoBlock) <=> (DOMAIN r = {})
           /\ DOMAIN r # {} => /\ BestHeader(r) \in DOMAIN r
                               /\ BestHeader(r) \in Block
                               /\ \A c \in DOMAIN r : Height[c] <= Height[BestHeader(r)]
<1>1. CASE DOMAIN r = {}
    BY <1>1 DEF BestHeader
<1>2. CASE DOMAIN r # {}
    BY <1>2, BestIsTop, BlockAssumption DEF Stacked
<1>3. QED
    BY <1>1, <1>2

LEMMA InconsistentNotEmpty ==
    ASSUME NEW r, NEW S, SaveOutcome(r, S) = "inconsistent"
    PROVE  DOMAIN r # {}
<1>1. ~ParentMissing(r, S) /\ (ParentDiffers(r, S) \/ Clashes(r, S))
    BY DEF SaveOutcome
<1>2. ASSUME DOMAIN r = {} PROVE FALSE
    <2>1. HeaderAtHeight(r, Height[Lowest(S)] - 1) = NoBlock
        BY <1>2 DEF HeaderAtHeight
    <2>2. ~Clashes(r, S)
        BY <1>2 DEF Clashes
    <2>3. Height[Lowest(S)] = 0
        BY <1>1, <2>1 DEF ParentMissing
    <2>4. QED
        BY <1>1, <2>2, <2>3 DEF ParentDiffers
<1>3. QED
    BY <1>2

\* A list is fit to be saved when its headers are above the table, or the
\* whole list is refused because the genesis block is already there.
Fit(r, S) ==
    /\ S \in SUBSET Block
    /\ \A b, c \in S : Height[b] = Height[c] => b = c
    /\ \A b \in S, c \in DOMAIN r : Height[c] < Height[b] \/ b = c

\* A successful save leaves a stack anchored at the genesis block.
LEMMA SaveKeepsTable ==
    ASSUME NEW r, TableOK(r), NEW S, Fit(r, S), SaveOutcome(r, S) = "saved"
    PROVE  /\ TableOK(InsertRows(r, S))
           /\ TableStep(r, InsertRows(r, S))
           /\ DOMAIN InsertRows(r, S) = DOMAIN r \cup S
           /\ \A b \in S, c \in DOMAIN r : Height[c] < Height[b]
<1>1. Stacked(r) /\ S \in SUBSET Block
    BY DEF TableOK, Fit
<1>2. \A b \in S, c \in DOMAIN r : Height[c] < Height[b]
    <2>1. CASE S = {}
        BY <2>1
    <2>2. CASE S # {}
        BY <1>1, <2>2, SavedIsLinked DEF Fit
    <2>3. QED
        BY <2>1, <2>2
<1>3. /\ Stacked(InsertRows(r, S))
      /\ DOMAIN InsertRows(r, S) = DOMAIN r \cup S
    BY <1>1, <1>2, InsertStacked DEF Fit
<1>4. CASE S = {}
    BY <1>2, <1>3, <1>4 DEF TableOK, TableStep
<1>5. CASE S # {}
    <2>1. /\ Lowest(S) \in S
          /\ Height[Lowest(S)] = 0 <=> Lowest(S) = Genesis
        BY <1>1, <1>5, LowestExists, BlockAssumption
    <2>2. Lowest(S) = Genesis \/ Prev[Lowest(S)] \in DOMAIN r
        BY <1>1, <1>5, <2>1, SavedIsLinked
    <2>3. Extends(r, InsertRows(r, S), S)
        BY <1>1, <1>2, <1>3, <1>5, <2>2 DEF Extends
    <2>4. Genesis \in DOMAIN InsertRows(r, S)
        BY <1>3, <2>1, <2>2 DEF TableOK
    <2>5. QED
        BY <1>1, <1>2, <1>3, <2>3, <2>4 DEF TableOK, TableStep
<1>6. QED
    BY <1>4, <1>5

LEMMA EmptySave ==
    ASSUME NEW r, TableOK(r)
    PROVE  InsertRows(r, {}) = r
<1>1. r = [b \in DOMAIN r |-> r[b]]
    BY DEF TableOK, Stacked
<1>2. QED
    BY <1>1 DEF InsertRows

\* After a save the best header is the highest of what was saved.
LEMMA SavedBest ==
    ASSUME NEW r, TableOK(r), NEW S, Fit(r, S), S # {}, SaveOutcome(r, S) = "saved"
    PROVE  BestHeader(InsertRows(r, S)) = Highest(S)
<1> DEFINE q == InsertRows(r, S)
<1>1. /\ Stacked(q) /\ DOMAIN q = DOMAIN r \cup S
      /\ \A b \in S, c \in DOMAIN r : Height[c] < Height[b]
    BY SaveKeepsTable DEF TableOK
<1>2. S \in SUBSET Block /\ DOMAIN r \in SUBSET Block
    BY DEF Fit, TableOK, Stacked
<1>3. Highest(S) \in S /\ \A c \in S : Height[c] <= Height[Highest(S)]
    BY <1>2, HighestExists
<1> HIDE DEF q
<1>4. /\ BestHeader(q) \in DOMAIN q
      /\ \A c \in DOMAIN q : Height[c] <= Height[BestHeader(q)]
    BY <1>1, <1>3, BestRow
<1>5. BestHeader(q) \in S
    BY <1>1, <1>2, <1>3, <1>4, HeightsNat
<1>6. Height[BestHeader(q)] = Height[Highest(S)]
    BY <1>1, <1>2, <1>3, <1>4, <1>5, HeightsNat
<1>7. BestHeader(q) = Highest(S)
    BY <1>1, <1>3, <1>5, <1>6 DEF Stacked
<1>8. QED
    BY <1>7 DEF q

\* The header that counts as processed after a save is the best one.
LEMMA SavedLast ==
    ASSUME TableOK(rows), LastIsBest, NEW S, Fit(rows, S), SaveOutcome(rows, S) = "saved",
           rows' = InsertRows(rows, S), last' = LastSaved(S)
    PROVE  LastIsBest'
<1>1. CASE S = {}
    BY <1>1, EmptySave DEF LastIsBest, LastSaved, Best
<1>2. CASE S # {}
    BY <1>2, SavedBest DEF LastIsBest, LastSaved, Best
<1>3. QED
    BY <1>1, <1>2

\* So does dropping the rows from a height of the top chunk on.
LEMMA RemoveKeepsTable ==
    ASSUME NEW r, TableOK(r), DOMAIN r # {},
           NEW h \in NearestParent(Height[BestHeader(r)]) .. Height[BestHeader(r)]
    PROVE  TableOK(RemoveFrom(r, h)) /\ TableStep(r, RemoveFrom(r, h))
<1>1. Stacked(r) /\ Genesis \in DOMAIN r
    BY DEF TableOK
<1>2. Height[BestHeader(r)] \in Nat
    BY <1>1, BestRow, HeightsNat
<1>3. NearestParent(Height[BestHeader(r)]) \in Nat
    BY <1>2, NearestParentBelow
<1>4. h \in Int /\ h >= 0
    BY <1>2, <1>3
<1>5. /\ Stacked(RemoveFrom(r, h))
      /\ DOMAIN RemoveFrom(r, h) = {c \in DOMAIN r : Height[c] < h}
    BY <1>1, <1>4, RemoveFromStacked
<1>6. ASSUME NEW c \in DOMAIN RemoveFrom(r, h) PROVE Genesis \in DOMAIN RemoveFrom(r, h)
    <2>1. Height[c] < h /\ Height[c] \in Nat
        BY <1>1, <1>5, <1>6, HeightsNat DEF Stacked
    <2>2. Height[Genesis] = 0
        BY BlockAssumption
    <2>3. QED
        BY <1>1, <1>4, <1>5, <2>1, <2>2
<1>7. QED
    BY <1>5, <1>6 DEF TableOK, TableStep, Truncates

\* In particular the rollback of handle_headers_inconsistency.
LEMMA RollbackKeepsTable ==
    ASSUME NEW r, TableOK(r), DOMAIN r # {}
    PROVE  /\ TableOK(RemoveFrom(r, NearestParent(Height[BestHeader(r)])))
           /\ TableStep(r, RemoveFrom(r, NearestParent(Height[BestHeader(r)])))
<1>1. Height[BestHeader(r)] \in Nat
    BY BestRow, HeightsNat DEF TableOK
<1>2. NearestParent(Height[BestHeader(r)])
         \in NearestParent(Height[BestHeader(r)]) .. Height[BestHeader(r)]
    BY <1>1, NearestParentBelow
<1>3. QED
    BY <1>2, RemoveKeepsTable

-----------------------------------------------------------------------------
(***************************************************************************)
(* The two endings of a step.                                              *)
(***************************************************************************)

\* The lock is the call's, or nobody's.
MayRun(t) == lock = t \/ lock = NoTask

LEMMA OthersOutside ==
    ASSUME Inv, NEW t \in Task, MayRun(t), NEW u \in Task, u # t
    PROVE  /\ pc[u] \in {"idle", "waiting"}
           /\ \A r : FrameOK(r, pc[u], frame[u])
<1>1. pc[u] \notin Critical
    <2>1. pc[u] \in Critical => lock = u
        BY DEF Inv, TaskOK
    <2>2. u # NoTask
        BY ReactorAssumption
    <2>3. QED
        BY <2>1, <2>2 DEF MayRun
<1>2. pc[u] \in {"idle", "waiting"}
    BY <1>1 DEF Inv, Critical, Places
<1>3. FrameOK(rows, pc[u], frame[u])
    BY DEF Inv, TaskOK
<1>4. QED
    BY <1>2, <1>3 DEF FrameOK

\* A call that ends keeps the invariant if its table is sound.
LEMMA LeaveKeeps ==
    ASSUME Inv, NEW t \in Task, MayRun(t), Leave(t), SharedOK', TableOK(rows'), LastIsBest'
    PROVE  Inv'
<1>1. NoFrame \in FrameType
    BY ReactorAssumption DEF NoFrame, FrameType
<1>2. pc' = [pc EXCEPT ![t] = "idle"] /\ frame' = [frame EXCEPT ![t] = NoFrame]
    BY DEF Leave
<1>3. pc' \in [Task -> Places] /\ frame' \in [Task -> FrameType]
    BY <1>1, <1>2 DEF Inv, Places
<1>4. SignalOK'
    BY DEF SharedOK, SignalOK, Leave, Inv
<1>5. lock' \in Task \cup {NoTask}
    BY DEF Leave
<1>6. ASSUME NEW u \in Task PROVE TaskOK(u)'
    <2>1. CASE u = t
        <3>1. pc'[u] = "idle" /\ frame'[u] = NoFrame
            BY <1>2, <2>1 DEF Inv
        <3>2. FrameOK(rows', pc'[u], frame'[u])
            BY <1>1, <3>1 DEF FrameOK
        <3>3. QED
            BY <3>1, <3>2 DEF TaskOK, Critical
    <2>2. CASE u # t
        <3>1. pc'[u] = pc[u] /\ frame'[u] = frame[u]
            BY <1>2, <2>2 DEF Inv
        <3>2. pc[u] \in {"idle", "waiting"} /\ FrameOK(rows', pc[u], frame[u])
            BY <2>2, OthersOutside
        <3>3. QED
            BY <3>1, <3>2 DEF TaskOK, Critical
    <2>3. QED
        BY <2>1, <2>2
<1>7. QED
    BY <1>3, <1>4, <1>5, <1>6 DEF Inv

\* A call that suspends keeps it if its frame is true of the table it leaves.
LEMMA SuspendKeeps ==
    ASSUME Inv, NEW t \in Task, MayRun(t), NEW place \in Critical, NEW f,
           Suspend(t, place, f), SharedOK', TableOK(rows'), FrameOK(rows', place, f),
           LastIsBest'
    PROVE  Inv'
<1>1. f \in FrameType /\ place \in Places
    BY DEF FrameOK, Critical
<1>2. pc' = [pc EXCEPT ![t] = place] /\ frame' = [frame EXCEPT ![t] = f] /\ lock' = t
    BY DEF Suspend
<1>3. pc' \in [Task -> Places] /\ frame' \in [Task -> FrameType]
    BY <1>1, <1>2 DEF Inv
<1>4. SignalOK'
    BY DEF SignalOK, Suspend, Inv, signalVars
<1>5. lock' \in Task \cup {NoTask}
    BY <1>2
<1>6. ASSUME NEW u \in Task PROVE TaskOK(u)'
    <2>1. CASE u = t
        <3>1. pc'[u] = place /\ frame'[u] = f
            BY <1>2, <2>1 DEF Inv
        <3>2. QED
            BY <1>2, <2>1, <3>1 DEF TaskOK
    <2>2. CASE u # t
        <3>1. pc'[u] = pc[u] /\ frame'[u] = frame[u]
            BY <1>2, <2>2 DEF Inv
        <3>2. pc[u] \in {"idle", "waiting"} /\ FrameOK(rows', pc[u], frame[u])
            BY <2>2, OthersOutside
        <3>3. QED
            BY <3>1, <3>2 DEF TaskOK, Critical
    <2>3. QED
        BY <2>1, <2>2
<1>7. QED
    BY <1>3, <1>4, <1>5, <1>6 DEF Inv

-----------------------------------------------------------------------------
(***************************************************************************)
(* The pieces of the handlers.                                             *)
(***************************************************************************)

\* The variables that only Retry and check_headers set.
OtherOK ==
    /\ syncErrors \in 0..MaxSyncErrors
    /\ poll \in {"off", "scheduled", "asking", "dead"}
    /\ pollAt \in Nat

LEMMA GiveUpKeeps ==
    ASSUME Inv, NEW t \in Task, MayRun(t), GiveUp(t), OtherOK'
    PROVE  Inv' /\ TableStep(rows, rows')
<1>1. Leave(t) /\ rows' = rows
    BY DEF GiveUp
<1>2. SharedOK' /\ TableOK(rows') /\ LastIsBest'
    BY <1>1 DEF GiveUp, Inv, SharedOK, OtherOK, LastIsBest, Best
<1>3. QED
    BY <1>1, <1>2, LeaveKeeps DEF TableStep

LEMMA SaveAndLeaveKeeps ==
    ASSUME Inv, NEW t \in Task, MayRun(t), NEW S, Fit(rows, S),
           NEW kept \in {last, NoBlock}, SaveAndLeave(t, S, kept), OtherOK'
    PROVE  Inv' /\ TableStep(rows, rows')
<1>1. TableOK(rows) /\ SharedOK /\ LastIsBest
    BY DEF Inv
<1>2. CASE /\ SaveOutcome(rows, S) = "saved"
           /\ rows' = InsertRows(rows, S)
           /\ last' = LastSaved(S)
           /\ synced' = TRUE
           /\ UNCHANGED <<announced>>
           /\ Leave(t)
    <2>1. LastSaved(S) \in Block \cup {NoBlock}
        BY <1>1, HighestExists DEF Fit, LastSaved, SharedOK
    <2>2. SharedOK'
        BY <1>1, <1>2, <2>1 DEF SharedOK, OtherOK
    <2>3. TableOK(rows') /\ TableStep(rows, rows')
        BY <1>1, <1>2, SaveKeepsTable
    <2>4. LastIsBest'
        BY <1>1, <1>2, SavedLast
    <2>5. QED
        BY <1>2, <2>2, <2>3, <2>4, LeaveKeeps
<1>3. CASE SaveOutcome(rows, S) = "inconsistent" /\ Rollback(t)
    <2>1. DOMAIN rows # {}
        BY <1>3, InconsistentNotEmpty
    <2>2. /\ rows' = RemoveFrom(rows, NearestParent(Height[BestHeader(rows)]))
          /\ Leave(t)
        BY <1>3 DEF Rollback, Best
    <2>3. TableOK(rows') /\ TableStep(rows, rows')
        BY <1>1, <2>1, <2>2, RollbackKeepsTable
    <2>4. SharedOK' /\ LastIsBest'
        BY <1>1, <1>3 DEF Rollback, SharedOK, OtherOK, LastIsBest
    <2>5. QED
        BY <2>2, <2>3, <2>4, LeaveKeeps
<1>4. CASE /\ SaveOutcome(rows, S) = "noresult"
           /\ synced' = FALSE
           /\ last' = kept
           /\ UNCHANGED <<rows, announced>>
           /\ Leave(t)
    <2>1. SharedOK' /\ TableOK(rows') /\ TableStep(rows, rows') /\ LastIsBest'
        BY <1>1, <1>4 DEF SharedOK, OtherOK, TableStep, LastIsBest, Best
    <2>2. QED
        BY <1>4, <2>1, LeaveKeeps
<1>5. QED
    BY <1>2, <1>3, <1>4 DEF SaveAndLeave

\* A step that only suspends: nothing but the frame, the place and `synced'.
LEMMA AwaitKeeps ==
    ASSUME Inv, NEW t \in Task, MayRun(t), NEW place \in Critical, NEW f,
           Suspend(t, place, f), FrameOK(rows, place, f),
           UNCHANGED <<rows, announced>>,
           last' \in {last, NoBlock}, synced' \in BOOLEAN, OtherOK'
    PROVE  Inv' /\ TableStep(rows, rows')
<1>1. SharedOK' /\ TableOK(rows') /\ FrameOK(rows', place, f) /\ LastIsBest'
    BY DEF Inv, SharedOK, OtherOK, LastIsBest, Best
<1>2. QED
    BY <1>1, SuspendKeeps DEF TableStep

\* on_new_header from the lock to its first await.
LEMMA ProcessKeeps ==
    ASSUME Inv, NEW t \in Task, MayRun(t), NEW f \in FrameType,
           f.header \in Block, f.index = 0, f.saving = {},
           Process(t, f), OtherOK'
    PROVE  Inv' /\ TableStep(rows, rows')
<1>1. TableOK(rows) /\ SharedOK /\ Stacked(rows) /\ LastIsBest
    BY DEF Inv, TableOK
<1>2. /\ (Best = NoBlock) <=> (DOMAIN rows = {})
      /\ DOMAIN rows # {} => /\ Best \in DOMAIN rows /\ Best \in Block
                             /\ Height[Best] \in Nat
                             /\ \A c \in DOMAIN rows : Height[c] <= Height[Best]
    BY <1>1, BestRow, HeightsNat DEF Best
<1> DEFINE g == [f EXCEPT !.base = Best]
<1>3. /\ g \in FrameType /\ g.header = f.header /\ g.base = Best
      /\ g.index = 0 /\ g.saving = {}
    BY <1>1, <1>2 DEF FrameType
<1> HIDE DEF g
<1>4. ASSUME AlreadyProcessed(t, f) PROVE Inv' /\ TableStep(rows, rows')
    <2>1. /\ Leave(t) /\ SharedOK' /\ TableOK(rows') /\ TableStep(rows, rows')
          /\ LastIsBest'
        BY <1>1, <1>4 DEF AlreadyProcessed, SharedOK, OtherOK, TableStep, LastIsBest, Best
    <2>2. QED
        BY <2>1, LeaveKeeps
<1>5. ASSUME StartChunks(t, f) PROVE Inv' /\ TableStep(rows, rows')
    <2>1. ASSUME NEW c \in DOMAIN rows PROVE Height[c] <= BaseHeight(g)
        BY <1>2, <1>3 DEF BaseHeight
    <2>2. ChunksOK(rows, g)
        BY <1>2, <1>3, <2>1 DEF ChunksOK
    <2>3. FrameOK(rows, "chunks", g)
        BY <1>3, <2>2 DEF FrameOK
    <2>4. /\ Suspend(t, "chunks", g) /\ synced' = FALSE
          /\ UNCHANGED <<rows, last, announced>>
        BY <1>5 DEF StartChunks, g
    <2>5. "chunks" \in Critical
        BY DEF Critical, Places
    <2>6. last' \in {last, NoBlock}
        BY <1>1, <2>4 DEF SharedOK
    <2>7. QED
        BY <2>3, <2>4, <2>5, <2>6, AwaitKeeps
<1>6. ASSUME SaveHeader(t, f) PROVE Inv' /\ TableStep(rows, rows')
    <2>1. Best # NoBlock /\ Height[Best] = Height[f.header] - 1
        BY <1>6 DEF SaveHeader, OneBehind, ManyBehind
    <2>2. \A c \in DOMAIN rows : Height[c] < Height[f.header]
        BY <1>1, <1>2, <2>1, HeightsNat DEF Stacked
    <2>3. Fit(rows, {f.header})
        BY <2>2 DEF Fit
    <2>4. SaveAndLeave(t, {f.header}, last) /\ last \in {last, NoBlock}
        BY <1>6 DEF SaveHeader
    <2>5. QED
        BY <2>3, <2>4, SaveAndLeaveKeeps
<1>7. ASSUME StartRange(t, f) PROVE Inv' /\ TableStep(rows, rows')
    <2>1. Best # NoBlock
        BY <1>7 DEF StartRange, ManyBehind
    <2>2. FrameOK(rows, "range", g)
        BY <1>2, <1>3, <2>1 DEF FrameOK, Best
    <2>3. /\ Suspend(t, "range", g) /\ synced' = FALSE
          /\ UNCHANGED <<rows, last, announced>>
        BY <1>7 DEF StartRange, g
    <2>4. "range" \in Critical
        BY DEF Critical, Places
    <2>5. last' \in {last, NoBlock}
        BY <1>1, <2>3 DEF SharedOK
    <2>6. QED
        BY <2>2, <2>3, <2>4, <2>5, AwaitKeeps
<1>8. ASSUME NetworkBehind(t, f) PROVE Inv' /\ TableStep(rows, rows')
    <2>1. FrameOK(rows, "behind", f)
        BY DEF FrameOK
    <2>2. /\ Suspend(t, "behind", f)
          /\ UNCHANGED <<rows, last, synced, announced>>
        BY <1>8 DEF NetworkBehind
    <2>3. "behind" \in Critical
        BY DEF Critical, Places
    <2>4. last' \in {last, NoBlock} /\ synced' \in BOOLEAN
        BY <1>1, <2>2 DEF SharedOK
    <2>5. QED
        BY <2>1, <2>2, <2>3, <2>4, AwaitKeeps
<1>9. ASSUME SameHeader(t, f) PROVE Inv' /\ TableStep(rows, rows')
    <2>1. Leave(t) /\ SharedOK' /\ TableOK(rows') /\ TableStep(rows, rows')
        BY <1>1, <1>9 DEF SameHeader, SetLast, SharedOK, OtherOK, TableStep
    <2>2. /\ HeaderAtHeight(rows, Height[f.header]) = f.header
          /\ f.header \in DOMAIN rows /\ Best # NoBlock /\ Height[Best] = Height[f.header]
        BY <1>1, <1>2, <1>9, BlockAssumption DEF SameHeader, HeaderAtHeight, Stacked
    <2>3. f.header = Best
        BY <1>1, <1>2, <2>2 DEF Stacked
    <2>4. LastIsBest'
        BY <1>9, <2>3 DEF SameHeader, SetLast, LastIsBest, Best
    <2>5. QED
        BY <2>1, <2>4, LeaveKeeps
<1>10. ASSUME SuspectHeader(t, f) PROVE Inv' /\ TableStep(rows, rows')
    <2>1. FrameOK(rows, "ping", f)
        BY DEF FrameOK
    <2>2. /\ Suspend(t, "ping", f)
          /\ UNCHANGED <<rows, last, synced, announced>>
        BY <1>10 DEF SuspectHeader
    <2>3. "ping" \in Critical
        BY DEF Critical, Places
    <2>4. last' \in {last, NoBlock} /\ synced' \in BOOLEAN
        BY <1>1, <2>2 DEF SharedOK
    <2>5. QED
        BY <2>1, <2>2, <2>3, <2>4, AwaitKeeps
<1>11. QED
    BY <1>4, <1>5, <1>6, <1>7, <1>8, <1>9, <1>10 DEF Process

LEMMA CallFrame ==
    ASSUME NEW b, NEW n
    PROVE  Call(b, n) = [header |-> b, retries |-> n, base |-> NoBlock,
                         index |-> 0, saving |-> {}]
<1>1. ASSUME NEW g, g = Call(b, n)
      PROVE  g = [header |-> b, retries |-> n, base |-> NoBlock,
                  index |-> 0, saving |-> {}]
    <2>1. g = [[NoFrame EXCEPT !.header = b] EXCEPT !.retries = n]
        BY <1>1 DEF Call
    <2>2. QED
        BY <2>1 DEF NoFrame
<1>2. QED
    BY <1>1

LEMMA NextTryFrame ==
    ASSUME NEW f \in FrameType, f.header \in Block, MayRetry(f)
    PROVE  /\ NextTry(f) \in FrameType /\ NextTry(f).header = f.header
           /\ NextTry(f).header \in Block
           /\ NextTry(f).index = 0 /\ NextTry(f).saving = {}
<1>1. f.retries \in 0..MaxRetries /\ f.retries < MaxRetries /\ MaxRetries \in Nat
    BY ReactorAssumption DEF MayRetry, FrameType
<1>2. NextTry(f) = [header |-> f.header, retries |-> f.retries + 1,
                    base |-> NoBlock, index |-> 0, saving |-> {}]
    BY CallFrame DEF NextTry
<1>3. f.retries + 1 \in 0..MaxRetries
    BY <1>1
<1>4. QED
    BY <1>2, <1>3 DEF FrameType

LEMMA RetryKeeps ==
    ASSUME Inv, NEW t \in Task, pc[t] \in Critical, Retry(t)
    PROVE  Inv' /\ TableStep(rows, rows')
<1>1. /\ MayRun(t) /\ frame[t] \in FrameType
      /\ frame[t].header \in Block
    BY DEF Inv, TaskOK, MayRun, FrameOK, Critical
<1>2. OtherOK'
    BY ReactorAssumption DEF Retry, pollVars, Inv, SharedOK, OtherOK
<1>3. CASE MayRetry(frame[t]) /\ Process(t, NextTry(frame[t]))
    BY <1>1, <1>2, <1>3, NextTryFrame, ProcessKeeps
<1>4. CASE GiveUp(t)
    BY <1>1, <1>2, <1>4, GiveUpKeeps
<1>5. QED
    BY <1>3, <1>4 DEF Retry

\* The chunk that arrives fits on the headers kept before it.
LEMMA ChunkFits ==
    ASSUME NEW r, TableOK(r), NEW f \in FrameType, ChunksOK(r, f), NEW s \in Tips,
           NEW saving, saving = f.saving \cup NewHeaders(f, ChunkOf(s, ChunkIndex(f)))
    PROVE  /\ Fit(r, saving)
           /\ \A b \in saving : Height[b] < Start(f) + ChunkSize
           /\ f.index # 0 => \A b \in saving, c \in DOMAIN r : Height[c] < Height[b]
<1> DEFINE new == NewHeaders(f, ChunkOf(s, ChunkIndex(f)))
           lo  == Start(f)
           H   == BaseHeight(f)
<1>1. /\ H \in Nat /\ lo \in Nat /\ ChunkIndex(f) \in Nat
      /\ ChunkSize \in Nat /\ ChunkSize > 0
      /\ H = 0 /\ f.index # 0 => lo > 0
    BY ChunkIndexNat, ReactorAssumption
<1>2. (ChunkIndex(f) + 1) * ChunkSize = lo + ChunkSize
    BY <1>1 DEF Start
<1>3. f.saving \in SUBSET Block /\ DOMAIN r \in SUBSET Block
    BY DEF FrameType, TableOK, Stacked
<1>4. Chain[s] \in SUBSET Block
    BY ReactorAssumption
<1>5. /\ new \subseteq Chain[s]
      /\ \A b \in new : /\ Height[b] \in Nat
                        /\ lo <= Height[b] /\ Height[b] < lo + ChunkSize
                        /\ H = 0 \/ Height[b] > H
    BY <1>2, <1>4, HeightsNat DEF NewHeaders, ChunkOf, Start
<1>6. /\ \A b \in f.saving : Height[b] \in Nat /\ Height[b] < lo
      /\ \A b, c \in f.saving : Height[b] = Height[c] => b = c
      /\ \A b \in f.saving, c \in DOMAIN r : Height[c] < Height[b]
      /\ \A c \in DOMAIN r : Height[c] \in Nat /\ (Height[c] <= H \/ Height[c] < lo)
    BY <1>3, HeightsNat DEF ChunksOK
<1>7. \A b, c \in new : Height[b] = Height[c] => b = c
    BY <1>5, ReactorAssumption
<1> HIDE DEF new, lo, H
<1>8. saving = f.saving \cup new /\ saving \in SUBSET Block
    BY <1>3, <1>4, <1>5 DEF new
<1>9. ASSUME NEW b \in saving, NEW c \in saving, Height[b] = Height[c] PROVE b = c
    BY <1>1, <1>5, <1>6, <1>7, <1>8, <1>9
<1>10. ASSUME NEW b \in saving PROVE Height[b] < lo + ChunkSize
    BY <1>1, <1>5, <1>6, <1>8
<1>11. ASSUME NEW b \in new, NEW c \in DOMAIN r
       PROVE  /\ Height[c] < Height[b] \/ b = c
              /\ f.index # 0 => Height[c] < Height[b]
    <2>1. CASE Height[c] < lo
        BY <1>5, <1>6, <2>1, <1>1
    <2>2. CASE Height[c] <= H /\ H # 0
        BY <1>1, <1>5, <1>6, <2>2
    <2>3. CASE Height[c] <= H /\ H = 0
        <3>1. Height[c] = 0 /\ c = Genesis
            BY <1>3, <1>6, <2>3, BlockAssumption
        <3>2. Height[b] \in Nat /\ (Height[b] = 0 => b = Genesis)
            BY <1>4, <1>5, BlockAssumption
        <3>3. f.index # 0 => Height[b] > 0
            BY <1>1, <1>5, <2>3
        <3>4. QED
            BY <3>1, <3>2, <3>3
    <2>4. QED
        BY <1>6, <2>1, <2>2, <2>3
<1>12. Fit(r, saving)
    BY <1>6, <1>8, <1>9, <1>11 DEF Fit
<1>13. QED
    BY <1>6, <1>8, <1>10, <1>11, <1>12 DEF lo

\* The loop goes on to the next chunk.
Onward(f, kept) == [f EXCEPT !.index = @ + 1, !.saving = kept]

LEMMA NextChunk ==
    ASSUME NEW f \in FrameType, NEW kept \in SUBSET Block
    PROVE  /\ Onward(f, kept) \in FrameType
           /\ Onward(f, kept).header = f.header
           /\ Onward(f, kept).base = f.base
           /\ Onward(f, kept).saving = kept
           /\ BaseHeight(Onward(f, kept)) = BaseHeight(f)
           /\ ChunkIndex(Onward(f, kept)) = ChunkIndex(f) + 1
           /\ Start(Onward(f, kept)) = Start(f) + ChunkSize
<1> DEFINE g == Onward(f, kept)
<1>1. /\ g \in FrameType /\ g.index = f.index + 1
      /\ g.header = f.header /\ g.base = f.base /\ g.saving = kept
    <2>1. f = [header |-> f.header, retries |-> f.retries, base |-> f.base,
               index |-> f.index, saving |-> f.saving]
        BY DEF FrameType
    <2>2. g = [header |-> f.header, retries |-> f.retries, base |-> f.base,
               index |-> f.index + 1, saving |-> kept]
        <3>1. ASSUME NEW o, o = Onward(f, kept)
              PROVE  o = [header |-> f.header, retries |-> f.retries, base |-> f.base,
                          index |-> f.index + 1, saving |-> kept]
            BY <2>1, <3>1 DEF Onward
        <3>2. QED
            BY <3>1
    <2>3. f.index + 1 \in Nat
        BY DEF FrameType
    <2>4. QED
        BY <2>2, <2>3 DEF FrameType
<1>2. BaseHeight(g) = BaseHeight(f)
    BY <1>1 DEF BaseHeight
<1>3. ChunkIndex(f) \in Nat /\ ChunkSize \in Nat
    BY ChunkIndexNat, ReactorAssumption
<1>4. ChunkIndex(g) = ChunkIndex(f) + 1
    <2>1. f.index \in Nat /\ BaseHeight(f) \in Nat /\ ChunkSize \in Nat \ {0}
        BY ChunkIndexNat, ReactorAssumption DEF FrameType
    <2>2. BaseHeight(f) \div ChunkSize \in Int
        BY <2>1
    <2>3. QED
        BY <1>1, <1>2, <2>1, <2>2 DEF ChunkIndex
<1>5. Start(g) = Start(f) + ChunkSize
    BY <1>3, <1>4 DEF Start
<1>6. QED
    BY <1>1, <1>2, <1>4, <1>5

LEMMA ChunkAnswerKeeps ==
    ASSUME Inv, NEW t \in Task, ChunkAnswer(t)
    PROVE  Inv' /\ TableStep(rows, rows')
<1> DEFINE f == frame[t]
<1>1. /\ pc[t] = "chunks" /\ "chunks" \in Critical /\ MayRun(t)
      /\ f \in FrameType /\ f.header \in Block /\ ChunksOK(rows, f)
      /\ TableOK(rows) /\ SharedOK /\ LastIsBest
    BY DEF ChunkAnswer, Inv, TaskOK, FrameOK, MayRun, Critical, Places
<1>2. OtherOK'
    BY DEF ChunkAnswer, pollVars, Inv, SharedOK, OtherOK
<1>3. PICK s \in Tips :
         LET headers == ChunkOf(s, ChunkIndex(f))
             saving  == f.saving \cup NewHeaders(f, headers)
         IN  \/ SaveAndLeave(t, saving,
                    IF Flushes(f) \/ saving = {} THEN last ELSE NoBlock)
             \/ KeepChunk(t, saving)
             \/ SaveChunk(t, saving)
    BY DEF ChunkAnswer
<1> DEFINE saving == f.saving \cup NewHeaders(f, ChunkOf(s, ChunkIndex(f)))
           S      == Start(f)
<1>4. /\ Fit(rows, saving) /\ saving \in SUBSET Block
      /\ \A b \in saving : Height[b] < S + ChunkSize
      /\ f.index # 0 => \A b \in saving, c \in DOMAIN rows : Height[c] < Height[b]
    <2> HIDE DEF f
    <2>1. Fit(rows, saving)
        BY <1>1, ChunkFits
    <2>2. /\ \A b \in saving : Height[b] < S + ChunkSize
          /\ f.index # 0 => \A b \in saving, c \in DOMAIN rows : Height[c] < Height[b]
        BY <1>1, ChunkFits
    <2>3. QED
        BY <2>1, <2>2 DEF Fit
<1>5. S \in Nat /\ ChunkSize \in Nat /\ BaseHeight(f) \in Nat /\ f.index \in Nat
    BY <1>1, ChunkIndexNat, ReactorAssumption DEF FrameType
<1>6. f.base \in DOMAIN rows \cup {NoBlock} /\ DOMAIN rows \in SUBSET Block
    BY <1>1 DEF ChunksOK, TableOK, Stacked
<1>7. \A c \in DOMAIN rows : Height[c] <= BaseHeight(f) \/ Height[c] < S + ChunkSize
    <2>1. ASSUME NEW c \in DOMAIN rows
          PROVE  Height[c] <= BaseHeight(f) \/ Height[c] < S + ChunkSize
        <3>1. Height[c] <= BaseHeight(f) \/ Height[c] < S
            BY <1>1 DEF ChunksOK
        <3>2. Height[c] \in Nat
            BY <1>6, HeightsNat
        <3>3. QED
            BY <1>5, <3>1, <3>2
    <2>2. QED
        BY <2>1
<1>8. CASE SaveAndLeave(t, saving, IF Flushes(f) \/ saving = {} THEN last ELSE NoBlock)
    <2> DEFINE kept == IF Flushes(f) \/ saving = {} THEN last ELSE NoBlock
    <2>1. kept \in {last, NoBlock}
        OBVIOUS
    <2>2. QED
        BY <1>1, <1>2, <1>4, <1>8, <2>1, SaveAndLeaveKeeps
<1>9. CASE KeepChunk(t, saving)
    <2> DEFINE g == Onward(f, saving)
    <2>1. f.index # 0
        BY <1>9, ReactorAssumption DEF KeepChunk, Flushes
    <2>2. /\ g \in FrameType /\ g.header = f.header /\ g.base = f.base /\ g.saving = saving
          /\ BaseHeight(g) = BaseHeight(f) /\ Start(g) = S + ChunkSize
        <3> HIDE DEF f, saving
        <3>1. QED
            BY <1>1, <1>4, NextChunk
    <2> HIDE DEF g
    <2>3. ChunksOK(rows, g)
        BY <1>4, <1>6, <1>7, <2>1, <2>2 DEF ChunksOK, Fit
    <2>4. FrameOK(rows, "chunks", g)
        BY <1>1, <2>2, <2>3 DEF FrameOK
    <2>5. /\ Suspend(t, "chunks", g)
          /\ last' = IF saving = {} THEN last ELSE NoBlock
          /\ UNCHANGED <<rows, synced, announced>>
        BY <1>9 DEF KeepChunk, g, Onward
    <2>6. last' \in {last, NoBlock} /\ synced' \in BOOLEAN
        BY <1>1, <2>5 DEF SharedOK
    <2>7. QED
        BY <1>1, <1>2, <2>4, <2>5, <2>6, AwaitKeeps
<1>10. CASE SaveChunk(t, saving)
    <2>1. CASE /\ SaveOutcome(rows, saving) = "saved"
               /\ rows' = InsertRows(rows, saving)
               /\ last' = LastSaved(saving)
               /\ UNCHANGED <<synced, announced>>
               /\ Suspend(t, "chunks", [f EXCEPT !.index = @ + 1, !.saving = {}])
        <3> DEFINE g == Onward(f, {})
        <3>1. /\ TableOK(rows') /\ TableStep(rows, rows')
              /\ DOMAIN rows' = DOMAIN rows \cup saving
            BY <1>1, <1>4, <2>1, SaveKeepsTable
        <3>2. /\ g \in FrameType /\ g.header = f.header /\ g.base = f.base /\ g.saving = {}
              /\ BaseHeight(g) = BaseHeight(f) /\ Start(g) = S + ChunkSize
            <4> HIDE DEF f
            <4>1. QED
                BY <1>1, NextChunk
        <3> HIDE DEF g
        <3>3. ChunksOK(rows', g)
            BY <1>4, <1>6, <1>7, <3>1, <3>2 DEF ChunksOK
        <3>4. FrameOK(rows', "chunks", g)
            BY <1>1, <3>2, <3>3 DEF FrameOK
        <3>5. last' \in Block \cup {NoBlock}
            BY <1>1, <1>4, <2>1, HighestExists DEF LastSaved, SharedOK
        <3>6. SharedOK'
            BY <1>1, <1>2, <2>1, <3>5 DEF SharedOK, OtherOK
        <3>7. Suspend(t, "chunks", g)
            BY <2>1 DEF g, Onward
        <3>8. LastIsBest'
            BY <1>1, <1>4, <2>1, SavedLast
        <3>9. QED
            BY <1>1, <3>1, <3>4, <3>6, <3>7, <3>8, SuspendKeeps
    <2>2. CASE SaveOutcome(rows, saving) = "inconsistent" /\ Rollback(t)
        <3>1. SaveAndLeave(t, saving, last)
            BY <2>2 DEF SaveAndLeave
        <3>2. QED
            BY <1>1, <1>2, <1>4, <3>1, SaveAndLeaveKeeps
    <2>3. CASE GiveUp(t)
        BY <1>1, <1>2, <2>3, GiveUpKeeps
    <2>4. QED
        BY <1>10, <2>1, <2>2, <2>3 DEF SaveChunk
<1>11. QED
    BY <1>3, <1>8, <1>9, <1>10

LEMMA RangeAnswerKeeps ==
    ASSUME Inv, NEW t \in Task, RangeAnswer(t)
    PROVE  Inv' /\ TableStep(rows, rows')
<1>1. /\ pc[t] = "range" /\ "pause" \in Critical /\ MayRun(t)
      /\ frame[t] \in FrameType /\ frame[t].header \in Block
      /\ DOMAIN rows # {} /\ frame[t].base = BestHeader(rows)
      /\ TableOK(rows) /\ SharedOK
    BY DEF RangeAnswer, Inv, TaskOK, FrameOK, MayRun, Critical, Places
<1>2. OtherOK'
    BY DEF RangeAnswer, pollVars, Inv, SharedOK, OtherOK
<1>3. PICK S \in RangeAnswers(frame[t]) :
         \/ /\ UNCHANGED <<rows, last, synced, announced>>
            /\ Suspend(t, "pause", frame[t])
         \/ GiveUp(t)
         \/ S # {} /\ SaveAndLeave(t, S \ {Lowest(S)}, last)
    BY DEF RangeAnswer
<1>4. CASE /\ UNCHANGED <<rows, last, synced, announced>>
           /\ Suspend(t, "pause", frame[t])
    <2>1. FrameOK(rows, "pause", frame[t])
        BY <1>1 DEF FrameOK
    <2>2. last' \in {last, NoBlock} /\ synced' \in BOOLEAN
        BY <1>1, <1>4 DEF SharedOK
    <2>3. QED
        BY <1>1, <1>2, <1>4, <2>1, <2>2, AwaitKeeps
<1>5. CASE GiveUp(t)
    BY <1>1, <1>2, <1>5, GiveUpKeeps
<1>6. CASE S # {} /\ SaveAndLeave(t, S \ {Lowest(S)}, last)
    <2> DEFINE above == S \ {Lowest(S)}
    <2>1. Height[BestHeader(rows)] \in Nat
        BY <1>1, BestRow, HeightsNat DEF TableOK
    <2>2. /\ S \in SUBSET Block
          /\ \A b, c \in S : Height[b] = Height[c] => b = c
          /\ \A b \in S : Height[b] \in RangeHeights(frame[t])
        BY ReactorAssumption DEF RangeAnswers
    <2>3. ASSUME NEW b \in above, NEW c \in DOMAIN rows PROVE Height[c] < Height[b]
        <3>1. Lowest(S) \in S /\ Height[Lowest(S)] <= Height[b] /\ b # Lowest(S)
            BY <1>6, <2>2, LowestExists
        <3>2. Height[Lowest(S)] # Height[b]
            BY <2>2, <3>1
        <3>3. Height[Lowest(S)] >= Height[BestHeader(rows)]
            <4>1. Height[Lowest(S)] \in RangeHeights(frame[t])
                BY <2>2, <3>1
            <4>2. Height[frame[t].header] - 1 \in Int
                BY <1>1, HeightsNat
            <4>3. QED
                BY <1>1, <2>1, <4>1, <4>2 DEF RangeHeights
        <3>4. Height[c] <= Height[BestHeader(rows)] /\ c \in Block
            BY <1>1, BestRow DEF TableOK, Stacked
        <3>5. Height[b] \in Nat /\ Height[c] \in Nat /\ Height[Lowest(S)] \in Nat
            BY <2>2, <3>1, <3>4, HeightsNat
        <3>6. QED
            BY <2>1, <3>1, <3>2, <3>3, <3>4, <3>5
    <2>4. Fit(rows, above)
        BY <2>2, <2>3 DEF Fit
    <2>5. QED
        BY <1>1, <1>2, <1>6, <2>4, SaveAndLeaveKeeps
<1>7. QED
    BY <1>3, <1>4, <1>5, <1>6

\* The steps that only end the call.
LEMMA EndsKeep ==
    ASSUME Inv, NEW t \in Task, CallFails(t) \/ BehindWakes(t) \/ PingEnds(t)
    PROVE  Inv' /\ TableStep(rows, rows')
<1>1. GiveUp(t) /\ pc[t] \in Critical
    BY DEF CallFails, BehindWakes, PingEnds, Critical, Places
<1>2. MayRun(t)
    BY <1>1 DEF Inv, TaskOK, MayRun
<1>3. OtherOK'
    BY DEF CallFails, BehindWakes, PingEnds, pollVars, Inv, SharedOK, OtherOK
<1>4. QED
    BY <1>1, <1>2, <1>3, GiveUpKeeps

LEMMA EnterKeeps ==
    ASSUME Inv, NEW t \in Task, Enter(t)
    PROVE  Inv' /\ TableStep(rows, rows')
<1>1. /\ pc[t] = "waiting" /\ MayRun(t)
      /\ frame[t] \in FrameType /\ frame[t].header \in Block
      /\ frame[t].index = 0 /\ frame[t].saving = {}
    BY DEF Enter, LockFree, Inv, TaskOK, FrameOK, MayRun
<1>2. Process(t, frame[t]) /\ OtherOK'
    BY DEF Enter, pollVars, Inv, SharedOK, OtherOK
<1>3. QED
    BY <1>1, <1>2, ProcessKeeps

LEMMA AdvanceKeeps ==
    ASSUME Inv, NEW t \in Task, Advance(t)
    PROVE  Inv' /\ TableStep(rows, rows')
<1>1. CASE NoPeers(t) \/ EmptyRange(t) \/ EmptyChunk(t)
    BY <1>1, RetryKeeps DEF NoPeers, EmptyRange, EmptyChunk, Critical, Places
<1>2. CASE CallFails(t) \/ BehindWakes(t) \/ PingEnds(t)
    BY <1>2, EndsKeep
<1>3. QED
    BY <1>1, <1>2, ChunkAnswerKeeps, RangeAnswerKeeps DEF Advance

\* A call is scheduled; it will wait for the lock.
LEMMA ScheduleKeeps ==
    ASSUME Inv, NEW t \in Task, NEW b \in Block, pc[t] = "idle",
           pc' = [pc EXCEPT ![t] = "waiting"],
           frame' = [frame EXCEPT ![t] = Call(b, 0)],
           UNCHANGED <<rows, last, lock>>, SharedOK', SignalOK'
    PROVE  Inv'
<1>1. /\ Call(b, 0) \in FrameType /\ Call(b, 0).header = b
      /\ Call(b, 0).index = 0 /\ Call(b, 0).saving = {}
    BY CallFrame, ReactorAssumption DEF FrameType
<1>2. pc' \in [Task -> Places] /\ frame' \in [Task -> FrameType]
    BY <1>1 DEF Inv, Places
<1>3. ASSUME NEW u \in Task PROVE TaskOK(u)'
    <2>1. TaskOK(u)
        BY DEF Inv
    <2>2. CASE u = t
        <3>1. pc'[u] = "waiting" /\ frame'[u] = Call(b, 0)
            BY <2>2 DEF Inv
        <3>2. QED
            BY <1>1, <3>1 DEF TaskOK, FrameOK, Critical
    <2>3. CASE u # t
        <3>1. pc'[u] = pc[u] /\ frame'[u] = frame[u]
            BY <2>3 DEF Inv
        <3>2. QED
            BY <2>1, <3>1 DEF TaskOK
    <2>4. QED
        BY <2>2, <2>3
<1>4. QED
    BY <1>2, <1>3 DEF Inv, LastIsBest, Best

LEMMA NotifyKeeps ==
    ASSUME Inv, NEW t \in Task, Notify(t)
    PROVE  Inv' /\ TableStep(rows, rows')
<1>1. PICK s \in Tips : frame' = [frame EXCEPT ![t] = Call(s, 0)]
    BY DEF Notify
<1>2. s \in Block
    BY ReactorAssumption
<1>3. SharedOK' /\ SignalOK' /\ UNCHANGED <<rows, last, lock>>
    BY DEF Notify, Inv, SharedOK, SignalOK, signalVars, pollVars
<1>4. QED
    BY <1>1, <1>2, <1>3, ScheduleKeeps DEF Notify, TableStep

LEMMA CheckHeadersKeeps ==
    ASSUME Inv, CheckHeaders
    PROVE  Inv' /\ TableStep(rows, rows')
<1>1. SharedOK /\ SignalOK /\ TableOK(rows)
    BY DEF Inv
<1>2. CASE \E t \in Task : PollAnswer(t)
    <2>1. PICK t \in Task : PollAnswer(t)
        BY <1>2
    <2>2. PICK s \in Tips, b \in Block : frame' = [frame EXCEPT ![t] = Call(b, 0)]
        BY <2>1 DEF PollAnswer
    <2>3. SharedOK' /\ SignalOK' /\ UNCHANGED <<rows, last, lock>>
        BY <1>1, <2>1 DEF PollAnswer, SharedOK, SignalOK, signalVars
    <2>4. QED
        BY <2>1, <2>2, <2>3, ScheduleKeeps DEF PollAnswer, TableStep
<1>3. CASE OnConnected \/ PollSuspends \/ PollWithoutHeader \/ PollAsks \/ PollMissing
    <2>1. UNCHANGED <<rows, bestHit, bootstrapped, last, synced, syncErrors,
                      announced, lock, pc, frame>>
        BY <1>3 DEF OnConnected, PollSuspends, PollWithoutHeader, PollAsks, PollMissing,
                    signalVars
    <2>2. poll' \in {"off", "scheduled", "asking", "dead"} /\ pollAt' \in Nat
        BY <1>1, <1>3, HeightsNat
        DEF OnConnected, PollSuspends, PollWithoutHeader, PollAsks, PollMissing, SharedOK
    <2>3. SharedOK' /\ SignalOK'
        BY <1>1, <2>1, <2>2 DEF SharedOK, SignalOK
    <2>4. \A t \in Task : TaskOK(t)'
        BY <2>1 DEF Inv, TaskOK
    <2>5. QED
        BY <2>1, <2>3, <2>4 DEF Inv, TableStep, LastIsBest, Best
<1>4. QED
    BY <1>2, <1>3 DEF CheckHeaders

LEMMA UpKeeps ==
    ASSUME NEW r, TableOK(r), NEW t \in Task
    PROVE  FrameOK(r, "idle", NoFrame)
    BY ReactorAssumption DEF FrameOK, NoFrame, FrameType

LEMMA RestartKeeps ==
    ASSUME Inv, Restart
    PROVE  Inv' /\ TableStep(rows, rows')
<1>1. TableOK(rows) /\ rows' = rows
    BY DEF Inv, Restart
<1>2. \A t \in Task : pc'[t] = "idle" /\ frame'[t] = NoFrame
    BY DEF Restart
<1>3. \A t \in Task : TaskOK(t)'
    BY <1>1, <1>2, UpKeeps DEF TaskOK, Critical
<1>4. SharedOK' /\ SignalOK'
    <2>1. 0 \in 0..MaxSyncErrors /\ 0 \in Nat
        BY ReactorAssumption
    <2>2. SharedOK'
        BY <2>1 DEF Restart, SharedOK
    <2>3. SignalOK'
        BY DEF Restart, SignalOK
    <2>4. QED
        BY <2>2, <2>3
<1>5. pc' \in [Task -> Places] /\ frame' \in [Task -> FrameType]
    BY ReactorAssumption DEF Restart, Places, NoFrame, FrameType
<1>6. QED
    BY <1>1, <1>3, <1>4, <1>5 DEF Inv, Restart, TableStep, LastIsBest

-----------------------------------------------------------------------------
(***************************************************************************)
(* The invariant.                                                          *)
(***************************************************************************)

\* The process comes up on a table that an earlier run left.
LEMMA UpKeepsAll ==
    ASSUME TableOK(rows), UpInit
    PROVE  Inv
<1>1. \A t \in Task : pc[t] = "idle" /\ frame[t] = NoFrame
    BY DEF UpInit
<1>2. \A t \in Task : TaskOK(t)
    BY <1>1, UpKeeps DEF TaskOK, Critical
<1>3. SharedOK /\ SignalOK
    <2>1. 0 \in 0..MaxSyncErrors /\ 0 \in Nat
        BY ReactorAssumption
    <2>2. SharedOK
        BY <2>1 DEF UpInit, SharedOK
    <2>3. SignalOK
        BY DEF UpInit, SignalOK
    <2>4. QED
        BY <2>2, <2>3
<1>4. pc \in [Task -> Places] /\ frame \in [Task -> FrameType]
    BY ReactorAssumption DEF UpInit, Places, NoFrame, FrameType
<1>5. QED
    BY <1>2, <1>3, <1>4 DEF Inv, UpInit, LastIsBest

LEMMA InitKeeps == Init => Inv
<1>1. SUFFICES ASSUME Init PROVE Inv
    OBVIOUS
<1>2. TableOK(rows)
    BY <1>1, EmptyStacked DEF Init, TableOK, EmptyTable
<1>3. QED
    BY <1>1, <1>2, UpKeepsAll DEF Init

LEMMA StepKeeps ==
    ASSUME Inv, [Next]_vars
    PROVE  Inv' /\ TableStep(rows, rows')
<1>1. CASE \E t \in Task : Notify(t) \/ Enter(t) \/ Advance(t)
    BY <1>1, NotifyKeeps, EnterKeeps, AdvanceKeeps
<1>2. CASE CheckHeaders
    BY <1>2, CheckHeadersKeeps
<1>3. CASE Restart
    BY <1>3, RestartKeeps
<1>4. CASE UNCHANGED vars
    <2>1. \A t \in Task : TaskOK(t)'
        BY <1>4 DEF Inv, TaskOK, vars
    <2>2. QED
        BY <1>4, <2>1 DEF Inv, SharedOK, SignalOK, TableStep, LastIsBest, Best, vars
<1>5. QED
    BY <1>1, <1>2, <1>3, <1>4 DEF Next, Run

\* The inductive invariant holds throughout.
THEOREM Invariant == Spec => []Inv
<1>1. Init => Inv
    BY InitKeeps
<1>2. Inv /\ [Next]_vars => Inv'
    BY StepKeeps
<1>3. QED
    BY <1>1, <1>2, PTL DEF Spec

-----------------------------------------------------------------------------
(***************************************************************************)
(* What follows from it, for every value of the constants.                 *)
(***************************************************************************)

\* Every variable keeps its type: in particular a call never recurses more
\* than MaxRetries deep, and at most one task owns the lock.
THEOREM TypeCorrect == Spec => []TypeOK
<1>1. Inv => TypeOK
    BY DEF Inv, SharedOK, SignalOK, TableOK, Stacked, FrameType, TypeOK
<1>2. QED
    BY <1>1, Invariant, PTL

\* The row ids of the headers table are 1..n in the order of the heights.
THEOREM RowIdsFollow == Spec => []RowIdsFollowHeights
<1>1. Inv => RowIdsFollowHeights
    BY DEF Inv, TableOK, Stacked, RowIdsFollowHeights
<1>2. QED
    BY <1>1, Invariant, PTL

\* What a call captured of the table before an await is still true after it,
\* because only the call that holds the lock writes the table.
THEOREM CaptureSafe == Spec => []CaptureHolds
<1>1. Inv => CaptureHolds
    BY DEF Inv, TaskOK, FrameOK, ChunksOK, CaptureHolds, Best
<1>2. QED
    BY <1>1, Invariant, PTL

\* The header that was processed last is the best row, whatever the branches of the
\* servers, the calls under way and the rollbacks between.
THEOREM LastProcessedIsBest == Spec => []LastIsBest
<1>1. Inv => LastIsBest
    BY DEF Inv
<1>2. QED
    BY <1>1, Invariant, PTL

\* A table that is not empty starts at the genesis block.
THEOREM Anchored == Spec => []AnchoredAtGenesis
<1>1. Inv => AnchoredAtGenesis
    BY DEF Inv, TableOK, AnchoredAtGenesis
<1>2. QED
    BY <1>1, Invariant, PTL

-----------------------------------------------------------------------------
(***************************************************************************)
(* The reactor implements HeadersStore.                                    *)
(***************************************************************************)

LEMMA ExtendsStore ==
    ASSUME NEW S \in SUBSET Block, Extends(rows, rows', S)
    PROVE  Store!Extend
<1>1. /\ Lowest(S) \in S
      /\ \A b \in S : Height[Lowest(S)] <= Height[b]
      /\ Lowest(S) = Genesis \/ Prev[Lowest(S)] \in DOMAIN rows
    BY LowestExists DEF Extends
<1>2. S \in SUBSET Store!Above
    BY DEF Extends, Store!Above
<1>3. QED
    BY <1>1, <1>2 DEF Extends, Store!Extend

LEMMA TruncatesStore ==
    ASSUME TableOK(rows), Truncates(rows, rows')
    PROVE  Store!Truncate
<1>1. Stacked(rows) /\ DOMAIN rows # {} /\ DOMAIN rows \in SUBSET Block
    BY DEF TableOK, Truncates, Stacked
<1>2. Store!Top(DOMAIN rows) = Highest(DOMAIN rows)
    BY DEF Store!Top, Highest
<1>3. Height[Highest(DOMAIN rows)] = Height[BestHeader(rows)]
    <2>1. /\ Highest(DOMAIN rows) \in DOMAIN rows
          /\ \A c \in DOMAIN rows : Height[c] <= Height[Highest(DOMAIN rows)]
        BY <1>1, HighestExists
    <2>2. /\ BestHeader(rows) \in DOMAIN rows
          /\ \A c \in DOMAIN rows : Height[c] <= Height[BestHeader(rows)]
        BY <1>1, BestRow
    <2>3. /\ Height[Highest(DOMAIN rows)] \in Nat
          /\ Height[BestHeader(rows)] \in Nat
        BY <1>1, <2>1, <2>2, HeightsNat
    <2>4. QED
        BY <2>1, <2>2, <2>3
<1>4. PICK h \in NearestParent(Height[BestHeader(rows)]) .. Height[BestHeader(rows)] :
         rows' = RemoveFrom(rows, h)
    BY DEF Truncates
<1>5. DOMAIN rows' = {b \in DOMAIN rows : Height[b] < h}
    BY <1>4 DEF RemoveFrom
<1>6. h \in Store!ChunkStart(Height[Store!Top(DOMAIN rows)])
               .. Height[Store!Top(DOMAIN rows)]
    BY <1>2, <1>3, <1>4 DEF Store!ChunkStart, NearestParent
<1>7. QED
    BY <1>1, <1>5, <1>6 DEF Store!Truncate

\* Seen through the set of stored blocks, every step of the reactor extends the
\* stored chain on top, truncates it inside its top chunk, or leaves it alone.
THEOREM StoreImplemented == Spec => ImplementsStore
<1>1. Init => Store!Init
    BY DEF Init, EmptyTable, Store!Init
<1>2. Inv /\ [Next]_vars => [Store!Next]_(DOMAIN rows)
    <2>1. SUFFICES ASSUME Inv, [Next]_vars PROVE [Store!Next]_(DOMAIN rows)
        OBVIOUS
    <2>2. TableOK(rows) /\ TableStep(rows, rows')
        BY <2>1, StepKeeps DEF Inv
    <2>3. CASE DOMAIN rows' = DOMAIN rows
        BY <2>3
    <2>4. CASE \E S \in SUBSET Block : Extends(rows, rows', S)
        BY <2>4, ExtendsStore DEF Store!Next
    <2>5. CASE Truncates(rows, rows')
        BY <2>2, <2>5, TruncatesStore DEF Store!Next
    <2>6. QED
        BY <2>2, <2>3, <2>4, <2>5 DEF TableStep
<1>3. QED
    BY <1>1, <1>2, Invariant, PTL DEF Spec, ImplementsStore, Store!Spec
-----------------------------------------------------------------------------
(***************************************************************************)
(* When every server has the same chain.                                   *)
(*                                                                         *)
(* The calls then all have the one tip T as their header: the fallback     *)
(* loop asks for a height only while synced, when that height is T's or    *)
(* above it.  What makes the reactor synced leaves as the last processed   *)
(* header the best one, and T or the one below: the one chunk that may be  *)
(* the last one has T in it, and a range stops one short of it.            *)
(***************************************************************************)

\* The reactor's run on a table that an earlier one may have left, of any branch.
StaleSpec == (TableOK(rows) /\ UpInit) /\ [][Next]_vars

Recent(T) == last # NoBlock /\ last = Best /\ Height[last] + 1 >= Height[T]

Unsynced == {"chunks", "range", "pause"}

\* A chunk download begins below T and does not go beyond its chunk.
FrameAgrees(T, place, f) ==
    /\ place # "idle" => f.header = T
    /\ place = "chunks" => /\ ChunkIndex(f) <= Height[T] \div ChunkSize
                           /\ BaseHeight(f) = 0 \/ BaseHeight(f) < Height[T]

AgreeInv(T) ==
    /\ \A t \in Task : /\ FrameAgrees(T, pc[t], frame[t])
                       /\ pc[t] \in Unsynced => ~synced
    /\ poll = "asking" => pollAt >= Height[T]
    /\ synced => Recent(T) /\ bestHit = last /\ bootstrapped

LEMMA TipFacts ==
    ASSUME NEW T \in Tips
    PROVE  /\ T \in Block /\ T # NoBlock /\ Height[T] \in Nat
           /\ T \in Chain[T] /\ Chain[T] \subseteq Block /\ NoBlock \notin Chain[T]
           /\ \A b \in Chain[T] : Height[b] \in Nat /\ Height[b] <= Height[T]
           /\ \A b, c \in Chain[T] : Height[b] = Height[c] => b = c
    BY ReactorAssumption, BlockAssumption

LEMMA LeaveAgrees ==
    ASSUME Inv, NEW T, AgreeInv(T), NEW t \in Task, MayRun(t), Leave(t),
           UNCHANGED pollVars, synced' => Recent(T)'
    PROVE  AgreeInv(T)'
<1>1. /\ pc' = [pc EXCEPT ![t] = "idle"] /\ frame' = [frame EXCEPT ![t] = NoFrame]
      /\ bestHit' = IF synced' THEN last' ELSE bestHit
      /\ bootstrapped' = (bootstrapped \/ synced')
    BY DEF Leave
<1>2. ASSUME NEW u \in Task
      PROVE  FrameAgrees(T, pc'[u], frame'[u]) /\ pc'[u] \notin Unsynced
    <2>1. CASE u = t
        BY <1>1, <2>1 DEF Inv, FrameAgrees, Unsynced
    <2>2. CASE u # t
        <3>1. pc'[u] = pc[u] /\ frame'[u] = frame[u]
            BY <1>1, <2>2 DEF Inv
        <3>2. pc[u] \in {"idle", "waiting"}
            BY <2>2, OthersOutside
        <3>3. FrameAgrees(T, pc[u], frame[u])
            BY DEF AgreeInv
        <3>4. QED
            BY <3>1, <3>2, <3>3 DEF Unsynced
    <2>3. QED
        BY <2>1, <2>2
<1>3. poll' = poll /\ pollAt' = pollAt
    BY DEF pollVars
<1>4. synced' => bestHit' = last' /\ bootstrapped'
    BY <1>1
<1>5. QED
    BY <1>2, <1>3, <1>4 DEF AgreeInv

LEMMA SuspendAgrees ==
    ASSUME Inv, NEW T, AgreeInv(T), NEW t \in Task, MayRun(t), NEW place \in Critical, NEW f,
           Suspend(t, place, f), FrameAgrees(T, place, f), UNCHANGED pollVars,
           place \in Unsynced => ~synced',
           synced' => synced /\ last' = last /\ rows' = rows
    PROVE  AgreeInv(T)'
<1>1. /\ pc' = [pc EXCEPT ![t] = place] /\ frame' = [frame EXCEPT ![t] = f]
      /\ bestHit' = bestHit /\ bootstrapped' = bootstrapped
    BY DEF Suspend, signalVars
<1>2. ASSUME NEW u \in Task
      PROVE  FrameAgrees(T, pc'[u], frame'[u]) /\ (pc'[u] \in Unsynced => ~synced')
    <2>1. CASE u = t
        <3>1. pc'[u] = place /\ frame'[u] = f
            BY <1>1, <2>1 DEF Inv
        <3>2. QED
            BY <3>1
    <2>2. CASE u # t
        <3>1. pc'[u] = pc[u] /\ frame'[u] = frame[u]
            BY <1>1, <2>2 DEF Inv
        <3>2. pc[u] \in {"idle", "waiting"}
            BY <2>2, OthersOutside
        <3>3. FrameAgrees(T, pc[u], frame[u])
            BY DEF AgreeInv
        <3>4. QED
            BY <3>1, <3>2, <3>3 DEF Unsynced
    <2>3. QED
        BY <2>1, <2>2
<1>3. poll' = poll /\ pollAt' = pollAt
    BY DEF pollVars
<1>4. synced' => Recent(T)' /\ bestHit' = last' /\ bootstrapped'
    BY <1>1 DEF AgreeInv, Recent, Best
<1>5. QED
    BY <1>2, <1>3, <1>4 DEF AgreeInv

LEMMA GiveUpAgrees ==
    ASSUME Inv, NEW T, AgreeInv(T), NEW t \in Task, MayRun(t), GiveUp(t), UNCHANGED pollVars
    PROVE  AgreeInv(T)'
<1>1. Leave(t) /\ UNCHANGED <<rows, last, synced>>
    BY DEF GiveUp
<1>2. synced' => Recent(T)'
    BY <1>1 DEF AgreeInv, Recent, Best
<1>3. QED
    BY <1>1, <1>2, LeaveAgrees

LEMMA RollbackAgrees ==
    ASSUME Inv, NEW T \in Tips, AgreeInv(T), NEW t \in Task, MayRun(t), Rollback(t), UNCHANGED pollVars
    PROVE  AgreeInv(T)'
<1>1. Leave(t) /\ last' = NoBlock /\ synced' = FALSE
    BY DEF Rollback
<1>2. QED
    BY <1>1, LeaveAgrees

\* A save that ends a call, of headers that reach T or the one below.
LEMMA SaveAndLeaveAgrees ==
    ASSUME Inv, NEW T \in Tips, AgreeInv(T), NEW t \in Task, MayRun(t), UNCHANGED pollVars,
           NEW S, Fit(rows, S), S # {}, Height[Highest(S)] + 1 >= Height[T],
           NEW kept \in {last, NoBlock}, SaveAndLeave(t, S, kept)
    PROVE  AgreeInv(T)'
<1>1. CASE SaveOutcome(rows, S) = "inconsistent" /\ Rollback(t)
    BY <1>1, RollbackAgrees
<1>2. CASE /\ SaveOutcome(rows, S) = "saved"
           /\ rows' = InsertRows(rows, S)
           /\ last' = LastSaved(S)
           /\ Leave(t)
    <2>1. last' = Highest(S)
        BY <1>2 DEF LastSaved
    <2>2. Best' = Highest(S)
        BY <1>2, SavedBest DEF Inv, Best
    <2>3. last' \in Block
        BY <2>1, HighestExists DEF Fit
    <2>4. Recent(T)'
        BY <2>1, <2>2, <2>3, BlockAssumption DEF Recent
    <2>5. QED
        BY <1>2, <2>4, LeaveAgrees
<1>3. CASE synced' = FALSE /\ last' = kept /\ rows' = rows /\ Leave(t)
    BY <1>3, LeaveAgrees
<1>4. QED
    BY <1>1, <1>2, <1>3 DEF SaveAndLeave

LEMMA Quotients ==
    ASSUME NEW m \in Nat, NEW n \in Nat, NEW c \in Nat \ {0}
    PROVE  /\ m <= n => m \div c <= n \div c
           /\ (n \div c) * c <= n /\ n < (n \div c + 1) * c
           /\ n \div c \in Nat
<1> DEFINE p == m \div c
           q == n \div c
<1>1. /\ p \in Int /\ q \in Int /\ q >= 0
      /\ m = c * p + (m % c) /\ m % c \in 0..(c - 1)
      /\ n = c * q + (n % c) /\ n % c \in 0..(c - 1)
    OBVIOUS
<1> HIDE DEF p, q
<1>2. q * c <= n /\ n < (q + 1) * c
    BY <1>1
<1>3. ASSUME m <= n, p > q PROVE FALSE
    <2>1. c * p >= c * (q + 1)
        BY <1>1, <1>3
    <2>2. QED
        BY <1>1, <1>2, <1>3, <2>1
<1>4. QED
    BY <1>1, <1>2, <1>3 DEF p, q

\* on_new_header for T from the lock to its first await.
LEMMA ProcessAgrees ==
    ASSUME Inv, NEW T \in Tips, AgreeInv(T), NEW t \in Task, MayRun(t), UNCHANGED pollVars,
           NEW f \in FrameType, f.header = T, f.index = 0, f.saving = {}, Process(t, f)
    PROVE  AgreeInv(T)'
<1>1. /\ TableOK(rows) /\ Stacked(rows) /\ LastIsBest
      /\ synced => Recent(T) /\ bestHit = last /\ bootstrapped
    BY DEF Inv, TableOK, AgreeInv
<1>2. /\ (Best = NoBlock) <=> (DOMAIN rows = {})
      /\ DOMAIN rows # {} => /\ Best \in DOMAIN rows /\ Best \in Block
                             /\ Height[Best] \in Nat
                             /\ \A c \in DOMAIN rows : Height[c] <= Height[Best]
    BY <1>1, BestRow, HeightsNat DEF Best
<1> DEFINE g == [f EXCEPT !.base = Best]
<1>3. /\ g \in FrameType /\ g.header = T /\ g.base = Best
      /\ g.index = 0 /\ g.saving = {}
    BY <1>1, <1>2 DEF FrameType
<1> HIDE DEF g
<1>4. ASSUME AlreadyProcessed(t, f) PROVE AgreeInv(T)'
    <2>1. last = T /\ Leave(t) /\ last' = last /\ rows' = rows
        BY <1>4 DEF AlreadyProcessed
    <2>2. Recent(T)'
        BY <1>1, <2>1, TipFacts DEF LastIsBest, Recent, Best
    <2>3. QED
        BY <2>1, <2>2, LeaveAgrees
<1>5. ASSUME StartChunks(t, f) PROVE AgreeInv(T)'
    <2>1. /\ Suspend(t, "chunks", g) /\ synced' = FALSE /\ UNCHANGED <<rows, last>>
          /\ Best # NoBlock => Height[Best] < Height[T]
        BY <1>5 DEF StartChunks, LocalBehind, g
    <2>2. BaseHeight(g) \in Nat /\ (BaseHeight(g) = 0 \/ BaseHeight(g) < Height[T])
        BY <1>2, <1>3, <2>1 DEF BaseHeight
    <2>3. BaseHeight(g) <= Height[T]
        BY <2>2, TipFacts
    <2>4. ChunkIndex(g) = BaseHeight(g) \div ChunkSize
        BY <1>3, <2>2, ReactorAssumption, Quotients DEF ChunkIndex
    <2>5. ChunkIndex(g) <= Height[T] \div ChunkSize
        BY <2>2, <2>3, <2>4, Quotients, TipFacts, ReactorAssumption
    <2>6. FrameAgrees(T, "chunks", g)
        BY <1>3, <2>2, <2>5 DEF FrameAgrees
    <2>7. QED
        BY <2>1, <2>6, SuspendAgrees DEF Critical, Places
<1>6. ASSUME SaveHeader(t, f) PROVE AgreeInv(T)'
    <2>1. Best # NoBlock /\ Height[Best] = Height[T] - 1 /\ SaveAndLeave(t, {T}, last)
        BY <1>6 DEF SaveHeader, OneBehind, ManyBehind
    <2>2. \A c \in DOMAIN rows : Height[c] < Height[T]
        BY <1>1, <1>2, <2>1, HeightsNat, TipFacts DEF Stacked
    <2>3. Fit(rows, {T}) /\ {T} # {}
        BY <2>2, TipFacts DEF Fit
    <2>4. Highest({T}) = T
        BY HighestExists, TipFacts
    <2>5. Height[Highest({T})] + 1 >= Height[T]
        BY <2>4, TipFacts
    <2>6. QED
        BY <2>1, <2>3, <2>5, SaveAndLeaveAgrees
<1>7. ASSUME StartRange(t, f) PROVE AgreeInv(T)'
    <2>1. /\ Suspend(t, "range", g) /\ synced' = FALSE /\ UNCHANGED <<rows, last>>
        BY <1>7 DEF StartRange, g
    <2>2. FrameAgrees(T, "range", g)
        BY <1>1, <1>3, <2>1 DEF FrameAgrees, Best
    <2>3. QED
        BY <2>1, <2>2, SuspendAgrees DEF Critical, Places
<1>8. ASSUME NetworkBehind(t, f) PROVE AgreeInv(T)'
    <2>1. Suspend(t, "behind", f) /\ UNCHANGED <<rows, last, synced>>
        BY <1>8 DEF NetworkBehind
    <2>2. FrameAgrees(T, "behind", f)
        BY <1>1, <2>1 DEF FrameAgrees, Best
    <2>3. QED
        BY <2>1, <2>2, SuspendAgrees DEF Critical, Places, Unsynced
<1>9. ASSUME SameHeader(t, f) PROVE AgreeInv(T)'
    <2>1. /\ Best # NoBlock /\ Height[Best] = Height[T]
          /\ HeaderAtHeight(rows, Height[T]) \in {T, NoBlock}
          /\ Leave(t) /\ last' = T /\ UNCHANGED <<rows, synced>>
        BY <1>9 DEF SameHeader, SetLast
    <2>2. /\ HeaderAtHeight(rows, Height[T]) \in DOMAIN rows
          /\ Height[HeaderAtHeight(rows, Height[T])] = Height[T]
        BY <1>2, <2>1 DEF HeaderAtHeight
    <2>3. T = Best
        BY <1>1, <1>2, <2>1, <2>2, BlockAssumption DEF Stacked
    <2>4. Recent(T)'
        BY <2>1, <2>3, TipFacts DEF Recent, Best
    <2>5. QED
        BY <2>1, <2>4, LeaveAgrees
<1>10. ASSUME SuspectHeader(t, f) PROVE AgreeInv(T)'
    <2>1. Suspend(t, "ping", f) /\ UNCHANGED <<rows, last, synced>>
        BY <1>10 DEF SuspectHeader
    <2>2. FrameAgrees(T, "ping", f)
        BY DEF FrameAgrees
    <2>3. QED
        BY <2>1, <2>2, SuspendAgrees DEF Critical, Places, Unsynced
<1>11. QED
    BY <1>4, <1>5, <1>6, <1>7, <1>8, <1>9, <1>10 DEF Process

LEMMA RetryAgrees ==
    ASSUME Inv, NEW T \in Tips, AgreeInv(T), NEW t \in Task, pc[t] \in Critical, Retry(t)
    PROVE  AgreeInv(T)'
<1>1. MayRun(t) /\ frame[t] \in FrameType /\ frame[t].header = T
    BY DEF Inv, TaskOK, MayRun, AgreeInv, FrameAgrees, Critical
<1>2. UNCHANGED pollVars
    BY DEF Retry
<1>3. CASE MayRetry(frame[t]) /\ Process(t, NextTry(frame[t]))
    BY <1>1, <1>2, <1>3, NextTryFrame, TipFacts, ProcessAgrees
<1>4. CASE GiveUp(t)
    BY <1>1, <1>2, <1>4, GiveUpAgrees
<1>5. QED
    BY <1>3, <1>4 DEF Retry

\* The chunk that may be the last one has T in it.
LEMMA LastChunkHasTip ==
    ASSUME NEW T \in Tips, NEW f \in FrameType, FrameAgrees(T, "chunks", f), LastChunk(f)
    PROVE  T \in NewHeaders(f, ChunkOf(T, ChunkIndex(f)))
<1>1. /\ f.header = T /\ ChunkIndex(f) <= Height[T] \div ChunkSize
      /\ BaseHeight(f) = 0 \/ BaseHeight(f) < Height[T]
    BY DEF FrameAgrees
<1>2. /\ ChunkIndex(f) \in Nat /\ ChunkSize \in Nat \ {0}
      /\ Height[T] \in Nat /\ Height[T] \div ChunkSize \in Nat
      /\ (Height[T] \div ChunkSize) * ChunkSize <= Height[T]
      /\ Height[T] < (Height[T] \div ChunkSize + 1) * ChunkSize
    BY ChunkIndexNat, ReactorAssumption, TipFacts, Quotients
<1>3. ChunkIndex(f) = Height[T] \div ChunkSize
    BY <1>1, <1>2 DEF LastChunk
<1>4. T \in ChunkOf(T, ChunkIndex(f))
    BY <1>2, <1>3, TipFacts DEF ChunkOf
<1>5. BaseHeight(f) \in Nat
    BY ChunkIndexNat
<1>6. QED
    BY <1>1, <1>2, <1>4, <1>5 DEF NewHeaders

LEMMA ChunkAnswerAgrees ==
    ASSUME Inv, NEW T, Tips = {T}, AgreeInv(T), NEW t \in Task, ChunkAnswer(t)
    PROVE  AgreeInv(T)'
<1> DEFINE f      == frame[t]
           saving == f.saving \cup NewHeaders(f, ChunkOf(T, ChunkIndex(f)))
           kept   == IF Flushes(f) \/ saving = {} THEN last ELSE NoBlock
<1>1. /\ pc[t] = "chunks" /\ "chunks" \in Critical /\ MayRun(t) /\ T \in Tips
      /\ f \in FrameType /\ ChunksOK(rows, f) /\ TableOK(rows)
      /\ FrameAgrees(T, "chunks", f) /\ ~synced
    BY DEF ChunkAnswer, Inv, TaskOK, FrameOK, MayRun, Critical, Places, AgreeInv, Unsynced
<1>2. UNCHANGED pollVars
    BY DEF ChunkAnswer
<1>3. \/ LastChunk(f) /\ SaveAndLeave(t, saving, kept)
      \/ ~LastChunk(f) /\ (KeepChunk(t, saving) \/ SaveChunk(t, saving))
    BY DEF ChunkAnswer
<1>4. Fit(rows, saving) /\ saving \in SUBSET Block
    <2>1. Fit(rows, saving)
        <3> HIDE DEF f
        <3>1. QED
            BY <1>1, ChunkFits
    <2>2. QED
        BY <2>1 DEF Fit
<1>5. ASSUME NEW S \in SUBSET Block, ~LastChunk(f)
      PROVE  FrameAgrees(T, "chunks", Onward(f, S))
    <2> HIDE DEF f
    <2>1. ChunkIndex(f) + 1 <= Height[T] \div ChunkSize
        <3>1. ChunkIndex(f) \in Nat /\ Height[T] \div ChunkSize \in Nat
            BY <1>1, ChunkIndexNat, Quotients, TipFacts, ReactorAssumption
        <3>2. f.header = T
            BY <1>1 DEF FrameAgrees
        <3>3. QED
            BY <1>5, <3>1, <3>2 DEF LastChunk
    <2>2. QED
        BY <1>1, <2>1, NextChunk DEF FrameAgrees
<1> HIDE DEF f, saving, kept
<1>6. CASE LastChunk(f) /\ SaveAndLeave(t, saving, kept)
    <2>1. T \in saving
        BY <1>1, <1>6, LastChunkHasTip DEF saving
    <2>2. Highest(saving) \in Block /\ Height[T] <= Height[Highest(saving)]
        BY <1>4, <2>1, HighestExists
    <2>3. Height[Highest(saving)] + 1 >= Height[T] /\ saving # {}
        BY <2>1, <2>2, HeightsNat, TipFacts, <1>1
    <2>4. kept \in {last, NoBlock}
        BY DEF kept
    <2>5. QED
        BY <1>1, <1>2, <1>4, <1>6, <2>3, <2>4, SaveAndLeaveAgrees
<1>7. CASE ~LastChunk(f) /\ KeepChunk(t, saving)
    <2>1. /\ Suspend(t, "chunks", Onward(f, saving)) /\ last' \in {last, NoBlock}
          /\ UNCHANGED <<rows, synced>>
        BY <1>7 DEF KeepChunk, Onward, f
    <2>2. FrameAgrees(T, "chunks", Onward(f, saving))
        BY <1>4, <1>5, <1>7
    <2>3. QED
        BY <1>1, <1>2, <2>1, <2>2, SuspendAgrees
<1>8. CASE ~LastChunk(f) /\ SaveChunk(t, saving)
    <2>1. CASE /\ SaveOutcome(rows, saving) = "saved"
               /\ rows' = InsertRows(rows, saving)
               /\ last' = LastSaved(saving)
               /\ synced' = synced
               /\ Suspend(t, "chunks", Onward(f, {}))
        <3>1. FrameAgrees(T, "chunks", Onward(f, {}))
            BY <1>5, <1>8
        <3>2. QED
            BY <1>1, <1>2, <2>1, <3>1, SuspendAgrees
    <2>2. CASE Rollback(t)
        BY <1>1, <1>2, <2>2, RollbackAgrees
    <2>3. CASE GiveUp(t)
        BY <1>1, <1>2, <2>3, GiveUpAgrees
    <2>4. QED
        BY <1>8, <2>1, <2>2, <2>3 DEF SaveChunk, Onward, f
<1>9. QED
    BY <1>3, <1>6, <1>7, <1>8

\* A range goes up to the header below T.
LEMMA RangeAnswerAgrees ==
    ASSUME Inv, NEW T, Tips = {T}, "dropped" \notin Failures, AgreeInv(T),
           NEW t \in Task, RangeAnswer(t)
    PROVE  AgreeInv(T)'
<1>1. /\ pc[t] = "range" /\ "pause" \in Critical /\ MayRun(t) /\ T \in Tips
      /\ frame[t] \in FrameType /\ frame[t].header = T
      /\ DOMAIN rows # {} /\ frame[t].base = BestHeader(rows)
      /\ TableOK(rows) /\ ~synced
    BY DEF RangeAnswer, Inv, TaskOK, FrameOK, MayRun, Critical, Places, AgreeInv,
           FrameAgrees, Unsynced
<1>2. UNCHANGED pollVars
    BY DEF RangeAnswer
<1>3. PICK S \in RangeAnswers(frame[t]) :
         \/ /\ UNCHANGED <<rows, last, synced, announced>>
            /\ Suspend(t, "pause", frame[t])
         \/ GiveUp(t)
         \/ /\ S # {} /\ S # {Lowest(S)}
            /\ SaveAndLeave(t, S \ {Lowest(S)}, last)
    BY DEF RangeAnswer
<1>4. CASE /\ UNCHANGED <<rows, last, synced, announced>>
           /\ Suspend(t, "pause", frame[t])
    <2>1. FrameAgrees(T, "pause", frame[t])
        BY <1>1, <1>4 DEF FrameAgrees, Best
    <2>2. QED
        BY <1>1, <1>2, <1>4, <2>1, SuspendAgrees
<1>5. CASE GiveUp(t)
    BY <1>1, <1>2, <1>5, GiveUpAgrees
<1>6. CASE /\ S # {} /\ S # {Lowest(S)}
           /\ SaveAndLeave(t, S \ {Lowest(S)}, last)
    <2> DEFINE above == S \ {Lowest(S)}
    <2>1. Height[BestHeader(rows)] \in Nat
        BY <1>1, BestRow, HeightsNat DEF TableOK
    <2>2. /\ S \in SUBSET Block
          /\ \A b, c \in S : Height[b] = Height[c] => b = c
          /\ \A b \in S : Height[b] \in RangeHeights(frame[t])
          /\ \A h \in RangeHeights(frame[t]) : \E b \in S : Height[b] = h
        BY ReactorAssumption DEF RangeAnswers
    <2>3. Lowest(S) \in S /\ \A b \in S : Height[Lowest(S)] <= Height[b]
        BY <1>6, <2>2, LowestExists
    <2>4. ASSUME NEW b \in above PROVE Height[Lowest(S)] < Height[b]
        <3>1. Height[Lowest(S)] <= Height[b] /\ Height[Lowest(S)] # Height[b]
            BY <2>2, <2>3
        <3>2. QED
            BY <2>2, <2>3, <3>1, HeightsNat
    <2>5. RangeHeights(frame[t]) = Height[BestHeader(rows)] .. (Height[T] - 1)
        BY <1>1 DEF RangeHeights
    <2>6. above # {} /\ above \in SUBSET Block
        BY <1>6, <2>2, <2>3
    <2>7. Fit(rows, above)
        <3>1. ASSUME NEW b \in above, NEW c \in DOMAIN rows PROVE Height[c] < Height[b]
            <4>1. Height[c] <= Height[BestHeader(rows)] /\ c \in Block
                BY <1>1, BestRow DEF TableOK, Stacked
            <4>2. Height[BestHeader(rows)] <= Height[Lowest(S)]
                BY <2>1, <2>2, <2>3, <2>5, TipFacts, <1>1
            <4>3. Height[b] \in Nat /\ Height[c] \in Nat /\ Height[Lowest(S)] \in Nat
                BY <2>2, <2>3, <4>1, HeightsNat
            <4>4. QED
                BY <2>1, <2>4, <4>1, <4>2, <4>3
        <3>2. QED
            BY <2>2, <3>1 DEF Fit
    <2>8. Height[Highest(above)] + 1 >= Height[T]
        <3>1. Highest(above) \in above /\ \A c \in above : Height[c] <= Height[Highest(above)]
            BY <2>6, HighestExists
        <3>2. Height[T] - 1 \in RangeHeights(frame[t])
            BY <1>1, <2>1, <2>2, <2>3, <2>5, TipFacts
        <3>3. PICK b \in S : Height[b] = Height[T] - 1
            BY <2>2, <3>2
        <3>4. b \in above
            <4>1. ASSUME b = Lowest(S) PROVE FALSE
                <5>1. PICK c \in above : TRUE
                    BY <2>6
                <5>2. Height[b] < Height[c] /\ Height[c] <= Height[T] - 1
                    BY <2>1, <2>2, <2>4, <2>5, <4>1, TipFacts, <1>1
                <5>3. QED
                    BY <2>2, <3>3, <5>2, HeightsNat, TipFacts, <1>1
            <4>2. QED
                BY <4>1
        <3>5. Height[b] <= Height[Highest(above)] /\ Height[Highest(above)] \in Nat
            BY <2>6, <3>1, <3>4, HeightsNat
        <3>6. QED
            BY <1>1, <3>3, <3>5, TipFacts
    <2>9. QED
        BY <1>1, <1>2, <1>6, <2>6, <2>7, <2>8, SaveAndLeaveAgrees
<1>7. QED
    BY <1>3, <1>4, <1>5, <1>6

LEMMA EndsAgree ==
    ASSUME Inv, NEW T, AgreeInv(T), NEW t \in Task,
           CallFails(t) \/ BehindWakes(t) \/ PingEnds(t)
    PROVE  AgreeInv(T)'
<1>1. GiveUp(t) /\ pc[t] \in Critical /\ UNCHANGED pollVars
    BY DEF CallFails, BehindWakes, PingEnds, Critical, Places
<1>2. MayRun(t)
    BY <1>1 DEF Inv, TaskOK, MayRun
<1>3. QED
    BY <1>1, <1>2, GiveUpAgrees

LEMMA EnterAgrees ==
    ASSUME Inv, NEW T \in Tips, AgreeInv(T), NEW t \in Task, Enter(t)
    PROVE  AgreeInv(T)'
<1>1. /\ MayRun(t) /\ frame[t] \in FrameType /\ frame[t].header = T
      /\ frame[t].index = 0 /\ frame[t].saving = {}
      /\ Process(t, frame[t]) /\ UNCHANGED pollVars
    BY DEF Enter, LockFree, Inv, TaskOK, FrameOK, MayRun, AgreeInv, FrameAgrees
<1>2. QED
    BY <1>1, ProcessAgrees

LEMMA AdvanceAgrees ==
    ASSUME Inv, NEW T, Tips = {T}, "dropped" \notin Failures, AgreeInv(T),
           NEW t \in Task, Advance(t)
    PROVE  AgreeInv(T)'
<1>1. T \in Tips
    OBVIOUS
<1>2. CASE NoPeers(t) \/ EmptyRange(t) \/ EmptyChunk(t)
    BY <1>1, <1>2, RetryAgrees DEF NoPeers, EmptyRange, EmptyChunk, Critical, Places
<1>3. CASE CallFails(t) \/ BehindWakes(t) \/ PingEnds(t)
    BY <1>3, EndsAgree
<1>4. QED
    BY <1>2, <1>3, ChunkAnswerAgrees, RangeAnswerAgrees DEF Advance

\* A call is scheduled for T.
LEMMA ScheduleAgrees ==
    ASSUME Inv, NEW T \in Tips, AgreeInv(T), NEW t \in Task,
           pc' = [pc EXCEPT ![t] = "waiting"],
           frame' = [frame EXCEPT ![t] = Call(T, 0)],
           UNCHANGED <<rows, last, synced, bestHit, bootstrapped>>,
           poll' = "asking" => poll = "asking" /\ pollAt' = pollAt
    PROVE  AgreeInv(T)'
<1>1. ASSUME NEW u \in Task
      PROVE  FrameAgrees(T, pc'[u], frame'[u]) /\ (pc'[u] \in Unsynced => ~synced')
    <2>1. CASE u = t
        <3>1. pc'[u] = "waiting" /\ frame'[u].header = T
            BY <2>1, CallFrame DEF Inv
        <3>2. QED
            BY <3>1 DEF FrameAgrees, Unsynced
    <2>2. CASE u # t
        <3>1. pc'[u] = pc[u] /\ frame'[u] = frame[u]
            BY <2>2 DEF Inv
        <3>2. QED
            BY <3>1 DEF AgreeInv
    <2>3. QED
        BY <2>1, <2>2
<1>2. synced' => Recent(T)'
    BY DEF AgreeInv, Recent, Best
<1>3. QED
    BY <1>1, <1>2 DEF AgreeInv

LEMMA NotifyAgrees ==
    ASSUME Inv, NEW T, Tips = {T}, AgreeInv(T), NEW t \in Task, Notify(t)
    PROVE  AgreeInv(T)'
<1>1. /\ pc' = [pc EXCEPT ![t] = "waiting"] /\ frame' = [frame EXCEPT ![t] = Call(T, 0)]
      /\ UNCHANGED <<rows, last, synced, bestHit, bootstrapped, poll, pollAt>>
    BY DEF Notify, signalVars, pollVars
<1>2. QED
    BY <1>1, ScheduleAgrees

\* What the fallback loop asks for is T, or above it.
LEMMA CheckHeadersAgrees ==
    ASSUME Inv, NEW T, Tips = {T}, AgreeInv(T), CheckHeaders
    PROVE  AgreeInv(T)'
<1>1. T \in Tips
    OBVIOUS
<1>2. CASE \E t \in Task : PollAnswer(t)
    <2>1. PICK t \in Task : PollAnswer(t)
        BY <1>2
    <2>2. PICK b \in Chain[T] : Height[b] = pollAt /\ frame' = [frame EXCEPT ![t] = Call(b, 0)]
        BY <2>1 DEF PollAnswer
    <2>3. b = T
        <3>1. pollAt >= Height[T] /\ pollAt \in Nat
            BY <2>1 DEF PollAnswer, AgreeInv, Inv, SharedOK
        <3>2. QED
            BY <1>1, <2>2, <3>1, TipFacts
    <2>4. QED
        BY <1>1, <2>1, <2>2, <2>3, ScheduleAgrees DEF PollAnswer, signalVars
<1>3. CASE OnConnected \/ PollSuspends \/ PollWithoutHeader \/ PollAsks \/ PollMissing
    <2>1. UNCHANGED <<rows, bestHit, bootstrapped, last, synced, pc, frame>>
        BY <1>3 DEF OnConnected, PollSuspends, PollWithoutHeader, PollAsks, PollMissing,
                    signalVars
    <2>2. poll' = "asking" => pollAt' >= Height[T]
        <3>1. CASE PollAsks
            BY <3>1 DEF PollAsks, PollRuns, AgreeInv, Recent
        <3>2. CASE OnConnected \/ PollSuspends \/ PollWithoutHeader \/ PollMissing
            BY <3>2 DEF OnConnected, PollSuspends, PollWithoutHeader, PollMissing
        <3>3. QED
            BY <1>3, <3>1, <3>2
    <2>3. synced' => Recent(T)'
        BY <2>1 DEF AgreeInv, Recent, Best
    <2>4. QED
        BY <2>1, <2>2, <2>3 DEF AgreeInv
<1>4. QED
    BY <1>2, <1>3 DEF CheckHeaders

LEMMA UpAgrees ==
    ASSUME NEW T \in Tips, UpInit
    PROVE  AgreeInv(T)
<1>1. /\ \A t \in Task : pc[t] = "idle"
      /\ last = NoBlock /\ synced = FALSE /\ poll = "off"
    BY DEF UpInit
<1>2. QED
    BY <1>1 DEF AgreeInv, FrameAgrees, Unsynced

LEMMA RestartAgrees ==
    ASSUME NEW T \in Tips, Restart
    PROVE  AgreeInv(T)'
<1>1. /\ \A t \in Task : pc'[t] = "idle"
      /\ last' = NoBlock /\ synced' = FALSE /\ poll' = "off"
    BY DEF Restart
<1>2. QED
    BY <1>1 DEF AgreeInv, FrameAgrees, Unsynced

LEMMA StepAgrees ==
    ASSUME Inv, NEW T, Tips = {T}, "dropped" \notin Failures, AgreeInv(T), [Next]_vars
    PROVE  AgreeInv(T)'
<1>1. T \in Tips
    OBVIOUS
<1>2. CASE \E t \in Task : Notify(t) \/ Enter(t) \/ Advance(t)
    BY <1>1, <1>2, NotifyAgrees, EnterAgrees, AdvanceAgrees
<1>3. CASE CheckHeaders
    BY <1>3, CheckHeadersAgrees
<1>4. CASE Restart
    BY <1>1, <1>4, RestartAgrees
<1>5. CASE UNCHANGED vars
    <2>1. synced' => Recent(T)'
        BY <1>5 DEF vars, AgreeInv, Recent, Best
    <2>2. QED
        BY <1>5, <2>1 DEF vars, AgreeInv
<1>6. QED
    BY <1>2, <1>3, <1>4, <1>5 DEF Next, Run

\* When every server has the one chain that ends at T and no answer of a range is lost,
\* the reactor that is synced and free has T or the header below T as its last
\* processed and best header, whatever branch the table it started on was of.
THEOREM Aligned ==
    ASSUME NEW T, Tips = {T}, "dropped" \notin Failures
    PROVE  StaleSpec => []AlignedWhenSynced
<1>1. TableOK(rows) /\ UpInit => Inv /\ AgreeInv(T)
    BY UpKeepsAll, UpAgrees
<1>2. Inv /\ AgreeInv(T) /\ [Next]_vars => (Inv /\ AgreeInv(T))'
    BY StepKeeps, StepAgrees
<1>3. AgreeInv(T) => AlignedWhenSynced
    BY DEF AgreeInv, Recent, AlignedWhenSynced
<1>4. QED
    BY <1>1, <1>2, <1>3, PTL DEF StaleSpec

-----------------------------------------------------------------------------
(***************************************************************************)
(* When the servers are on one chain, though some lag.                     *)
(*                                                                         *)
(* The lowest header of a save has its parent in the table, checked by the *)
(* save; each other one has it in the save, if the list has no gap.  A     *)
(* chunk has none, up to where the server's chain ends: two chunks in one  *)
(* save have none only if no server lags.                                  *)
(***************************************************************************)
Linked(r) == \A b \in DOMAIN r \ {Genesis} : Prev[b] \in DOMAIN r

LinkedList(S) == \A b \in S \ {Genesis} : b = Lowest(S) \/ Prev[b] \in S

\* S is a piece of the chain of s and has every header of it from its own on,
\* below the height top.
Whole(S, s, top) ==
    /\ S \subseteq Chain[s]
    /\ \A c \in S, b \in Chain[s] : Height[c] <= Height[b] /\ Height[b] < top => b \in S

\* No two servers have different headers at one height.
OneChain == \A b, c \in UNION {Chain[s] : s \in Tips} : Height[b] = Height[c] => b = c

NoGaps == \/ SaveEvery = 1
          \/ \A s1, s2 \in Tips : s1 = s2

LinkInv ==
    /\ Linked(rows)
    /\ \A t \in Task, s \in Tips :
          pc[t] = "chunks" => Whole(frame[t].saving, s, Start(frame[t]))

\* A run on a table that an earlier one may have left, of any branch.
LinkedSpec == (TableOK(rows) /\ Linked(rows) /\ UpInit) /\ [][Next]_vars

LEMMA SaveLinks ==
    ASSUME NEW r, TableOK(r), Linked(r), NEW S, Fit(r, S), LinkedList(S),
           SaveOutcome(r, S) = "saved"
    PROVE  Linked(InsertRows(r, S))
<1>1. DOMAIN InsertRows(r, S) = DOMAIN r \cup S
    BY SaveKeepsTable
<1>2. ASSUME NEW b \in S \ {Genesis} PROVE Prev[b] \in DOMAIN r \cup S
    <2>1. CASE b = Lowest(S)
        <3>1. Height[b] # 0
            BY <1>2, BlockAssumption DEF Fit
        <3>2. QED
            BY <2>1, <3>1, SavedIsLinked DEF Fit, TableOK
    <2>2. CASE Prev[b] \in S
        BY <2>2
    <2>3. QED
        BY <1>2, <2>1, <2>2 DEF LinkedList
<1>3. QED
    BY <1>1, <1>2 DEF Linked

LEMMA CutLinks ==
    ASSUME NEW r, Stacked(r), Linked(r), NEW h \in Int
    PROVE  Linked(RemoveFrom(r, h))
<1>1. DOMAIN RemoveFrom(r, h) = {c \in DOMAIN r : Height[c] < h}
    BY DEF RemoveFrom
<1>2. ASSUME NEW b \in DOMAIN r \ {Genesis}, Height[b] < h
      PROVE  Prev[b] \in DOMAIN r /\ Height[Prev[b]] < h
    <2>1. Prev[b] \in DOMAIN r /\ b \in Block
        BY DEF Linked, Stacked
    <2>2. Height[b] = Height[Prev[b]] + 1 /\ Height[Prev[b]] \in Nat
        BY <2>1, BlockAssumption
    <2>3. QED
        BY <1>2, <2>1, <2>2
<1>3. QED
    BY <1>1, <1>2 DEF Linked

LEMMA LeaveLinks ==
    ASSUME Inv, LinkInv, NEW t \in Task, MayRun(t), Leave(t), Linked(rows')
    PROVE  LinkInv'
<1>1. pc' = [pc EXCEPT ![t] = "idle"] /\ frame' = [frame EXCEPT ![t] = NoFrame]
    BY DEF Leave
<1>2. ASSUME NEW u \in Task PROVE pc'[u] # "chunks"
    <2>1. CASE u = t
        BY <1>1, <2>1 DEF Inv
    <2>2. CASE u # t
        BY <1>1, <2>2, OthersOutside DEF Inv
    <2>3. QED
        BY <2>1, <2>2
<1>3. QED
    BY <1>2 DEF LinkInv

LEMMA SuspendLinks ==
    ASSUME Inv, LinkInv, NEW t \in Task, MayRun(t), NEW place \in Critical, NEW f,
           Suspend(t, place, f), Linked(rows'),
           place = "chunks" => \A s \in Tips : Whole(f.saving, s, Start(f))
    PROVE  LinkInv'
<1>1. pc' = [pc EXCEPT ![t] = place] /\ frame' = [frame EXCEPT ![t] = f]
    BY DEF Suspend
<1>2. ASSUME NEW u \in Task, NEW s \in Tips, pc'[u] = "chunks"
      PROVE  Whole(frame'[u].saving, s, Start(frame'[u]))
    <2>1. u = t
        BY <1>1, <1>2, OthersOutside DEF Inv
    <2>2. frame'[u] = f /\ place = "chunks"
        BY <1>1, <1>2, <2>1 DEF Inv
    <2>3. QED
        BY <2>2
<1>3. QED
    BY <1>2 DEF LinkInv

LEMMA GiveUpLinks ==
    ASSUME Inv, LinkInv, NEW t \in Task, MayRun(t), GiveUp(t)
    PROVE  LinkInv'
    BY LeaveLinks DEF GiveUp, LinkInv

LEMMA RollbackLinks ==
    ASSUME Inv, LinkInv, NEW t \in Task, MayRun(t), DOMAIN rows # {}, Rollback(t)
    PROVE  LinkInv'
<1>1. Stacked(rows) /\ Linked(rows)
    BY DEF Inv, TableOK, LinkInv
<1>2. Height[Best] \in Nat
    BY <1>1, BestRow, HeightsNat DEF Best
<1>3. NearestParent(Height[Best]) \in Int
    BY <1>2, NearestParentBelow
<1>4. Linked(rows')
    BY <1>1, <1>3, CutLinks DEF Rollback
<1>5. QED
    BY <1>4, LeaveLinks DEF Rollback

LEMMA SaveAndLeaveLinks ==
    ASSUME Inv, LinkInv, NEW t \in Task, MayRun(t), NEW S, Fit(rows, S), LinkedList(S),
           NEW kept, SaveAndLeave(t, S, kept)
    PROVE  LinkInv'
<1>1. TableOK(rows) /\ Linked(rows)
    BY DEF Inv, LinkInv
<1>2. CASE /\ SaveOutcome(rows, S) = "saved"
           /\ rows' = InsertRows(rows, S)
           /\ Leave(t)
    BY <1>1, <1>2, SaveLinks, LeaveLinks
<1>3. CASE SaveOutcome(rows, S) = "inconsistent" /\ Rollback(t)
    BY <1>3, InconsistentNotEmpty, RollbackLinks
<1>4. CASE rows' = rows /\ Leave(t)
    BY <1>1, <1>4, LeaveLinks
<1>5. QED
    BY <1>2, <1>3, <1>4 DEF SaveAndLeave

LEMMA ProcessLinks ==
    ASSUME Inv, LinkInv, NEW t \in Task, MayRun(t), NEW f \in FrameType,
           f.header \in Block, f.index = 0, f.saving = {}, Process(t, f)
    PROVE  LinkInv'
<1>1. Linked(rows) /\ Stacked(rows)
    BY DEF LinkInv, Inv, TableOK
<1>2. CASE SaveHeader(t, f)
    <2>1. Best # NoBlock /\ Height[Best] = Height[f.header] - 1
        BY <1>2 DEF SaveHeader, OneBehind, ManyBehind
    <2>2. \A c \in DOMAIN rows : Height[c] <= Height[Best] /\ Height[Best] \in Nat
        BY <1>1, <2>1, BestRow, HeightsNat DEF Best
    <2>3. \A c \in DOMAIN rows : Height[c] < Height[f.header]
        BY <1>1, <2>1, <2>2, HeightsNat DEF Stacked
    <2>4. Fit(rows, {f.header})
        BY <2>3 DEF Fit
    <2>5. LinkedList({f.header})
        BY LowestExists DEF LinkedList
    <2>6. QED
        BY <1>2, <2>4, <2>5, SaveAndLeaveLinks DEF SaveHeader
<1>3. CASE AlreadyProcessed(t, f) \/ SameHeader(t, f)
    BY <1>1, <1>3, LeaveLinks DEF AlreadyProcessed, SameHeader
<1>4. CASE StartRange(t, f) \/ NetworkBehind(t, f) \/ SuspectHeader(t, f)
    BY <1>1, <1>4, SuspendLinks DEF StartRange, NetworkBehind, SuspectHeader, Critical, Places
<1>5. CASE StartChunks(t, f)
    <2> DEFINE g == [f EXCEPT !.base = Best]
    <2>1. Suspend(t, "chunks", g) /\ rows' = rows
        BY <1>5 DEF StartChunks
    <2>2. g.saving = {}
        BY DEF FrameType
    <2> HIDE DEF g
    <2>3. \A s \in Tips : Whole(g.saving, s, Start(g))
        BY <2>2 DEF Whole
    <2>4. QED
        BY <1>1, <2>1, <2>3, SuspendLinks DEF Critical, Places
<1>6. QED
    BY <1>2, <1>3, <1>4, <1>5 DEF Process

LEMMA RetryLinks ==
    ASSUME Inv, LinkInv, NEW t \in Task, pc[t] \in Critical, Retry(t)
    PROVE  LinkInv'
<1>1. MayRun(t) /\ frame[t] \in FrameType /\ frame[t].header \in Block
    BY DEF Inv, TaskOK, MayRun, FrameOK, Critical
<1>2. CASE MayRetry(frame[t]) /\ Process(t, NextTry(frame[t]))
    BY <1>1, <1>2, NextTryFrame, ProcessLinks
<1>3. CASE GiveUp(t)
    BY <1>1, <1>3, GiveUpLinks
<1>4. QED
    BY <1>2, <1>3 DEF Retry

\* With the chunk that arrives, what waits to be saved has no gap still.
LEMMA ChunkWhole ==
    ASSUME NEW r, TableOK(r), NEW f \in FrameType, ChunksOK(r, f), NEW s \in Tips,
           Whole(f.saving, s, Start(f)),
           NEW saving, saving = f.saving \cup NewHeaders(f, ChunkOf(s, ChunkIndex(f)))
    PROVE  Whole(saving, s, Start(f) + ChunkSize)
<1> DEFINE new == NewHeaders(f, ChunkOf(s, ChunkIndex(f)))
           lo  == Start(f)
           H   == BaseHeight(f)
<1>1. /\ H \in Nat /\ lo \in Nat /\ ChunkIndex(f) \in Nat
      /\ ChunkSize \in Nat /\ ChunkSize > 0
    BY ChunkIndexNat, ReactorAssumption
<1>2. (ChunkIndex(f) + 1) * ChunkSize = lo + ChunkSize
    BY <1>1 DEF Start
<1>3. \A b \in Chain[s] : b \in Block /\ Height[b] \in Nat
    BY ReactorAssumption, HeightsNat
<1>4. new = {b \in Chain[s] : /\ lo <= Height[b] /\ Height[b] < lo + ChunkSize
                              /\ H = 0 \/ Height[b] > H}
    BY <1>2, <1>3 DEF NewHeaders, ChunkOf, Start
<1>5. ASSUME NEW c \in f.saving PROVE H = 0 \/ Height[c] > H
    BY DEF BaseHeight, ChunksOK
<1> HIDE DEF new, lo, H
<1>6. /\ f.saving \subseteq Chain[s]
      /\ \A c \in f.saving, b \in Chain[s] :
            Height[c] <= Height[b] /\ Height[b] < lo => b \in f.saving
    BY DEF Whole, lo
<1>7. ASSUME NEW c \in saving, NEW b \in Chain[s],
             Height[c] <= Height[b], Height[b] < lo + ChunkSize
      PROVE  b \in saving
    <2>1. c \in Chain[s] /\ Height[c] \in Nat /\ Height[b] \in Nat
        BY <1>3, <1>4, <1>6 DEF new
    <2>2. CASE c \in new
        BY <1>1, <1>4, <1>7, <2>1, <2>2 DEF new
    <2>3. CASE c \in f.saving /\ Height[b] < lo
        BY <1>6, <1>7, <2>3
    <2>4. CASE c \in f.saving /\ ~(Height[b] < lo)
        <3>1. H = 0 \/ Height[b] > H
            BY <1>1, <1>5, <1>7, <2>1, <2>4
        <3>2. b \in new
            BY <1>1, <1>4, <1>7, <2>1, <2>4, <3>1
        <3>3. QED
            BY <3>2 DEF new
    <2>5. QED
        BY <2>2, <2>3, <2>4 DEF new
<1>8. saving \subseteq Chain[s]
    BY <1>4, <1>6 DEF new
<1>9. QED
    BY <1>7, <1>8 DEF Whole, lo

LEMMA WholeLinked ==
    ASSUME NEW s \in Tips, NEW S, NEW top \in Nat, Whole(S, s, top),
           \A b \in S : Height[b] < top
    PROVE  LinkedList(S)
<1>1. /\ S \in SUBSET Block /\ S \subseteq Chain[s]
      /\ \A b, c \in Chain[s] : Height[b] = Height[c] => b = c
      /\ \A b \in Chain[s] \ {Genesis} : Prev[b] \in Chain[s]
    BY ReactorAssumption DEF Whole
<1>2. ASSUME NEW b \in S \ {Genesis}, b # Lowest(S) PROVE Prev[b] \in S
    <2>1. Lowest(S) \in S /\ Height[Lowest(S)] <= Height[b]
        BY <1>1, LowestExists
    <2>2. Height[Lowest(S)] # Height[b]
        BY <1>1, <1>2, <2>1
    <2>3. /\ Height[b] = Height[Prev[b]] + 1 /\ Height[Prev[b]] \in Nat
          /\ Height[Lowest(S)] \in Nat /\ Height[b] \in Nat
        BY <1>1, <2>1, BlockAssumption
    <2>4. Height[Lowest(S)] <= Height[Prev[b]] /\ Height[Prev[b]] < top
        BY <2>1, <2>2, <2>3
    <2>5. QED
        BY <1>1, <2>1, <2>4 DEF Whole
<1>3. QED
    BY <1>2 DEF LinkedList

LEMMA ChunkAnswerLinks ==
    ASSUME Inv, LinkInv, NoGaps, NEW t \in Task, ChunkAnswer(t)
    PROVE  LinkInv'
<1> DEFINE f == frame[t]
<1>1. /\ pc[t] = "chunks" /\ "chunks" \in Critical /\ MayRun(t)
      /\ f \in FrameType /\ ChunksOK(rows, f) /\ TableOK(rows) /\ Linked(rows)
      /\ \A s \in Tips : Whole(f.saving, s, Start(f))
    BY DEF ChunkAnswer, Inv, TaskOK, FrameOK, MayRun, Critical, Places, LinkInv
<1>2. PICK s \in Tips :
         LET headers == ChunkOf(s, ChunkIndex(f))
             saving  == f.saving \cup NewHeaders(f, headers)
         IN  \/ SaveAndLeave(t, saving,
                    IF Flushes(f) \/ saving = {} THEN last ELSE NoBlock)
             \/ KeepChunk(t, saving)
             \/ SaveChunk(t, saving)
    BY DEF ChunkAnswer
<1> DEFINE saving == f.saving \cup NewHeaders(f, ChunkOf(s, ChunkIndex(f)))
           kept   == IF Flushes(f) \/ saving = {} THEN last ELSE NoBlock
           top    == Start(f) + ChunkSize
<1>3. /\ Fit(rows, saving) /\ saving \in SUBSET Block
      /\ Whole(saving, s, top) /\ LinkedList(saving)
    <2> HIDE DEF f
    <2>1. Fit(rows, saving) /\ \A b \in saving : Height[b] < top
        BY <1>1, ChunkFits
    <2>2. Whole(saving, s, top)
        BY <1>1, ChunkWhole
    <2>3. top \in Nat
        BY <1>1, ChunkIndexNat, ReactorAssumption
    <2> HIDE DEF top, saving
    <2>4. QED
        BY <2>1, <2>2, <2>3, WholeLinked DEF Fit
<1> HIDE DEF f, saving, kept, top
<1>4. CASE SaveAndLeave(t, saving, kept)
    BY <1>1, <1>3, <1>4, SaveAndLeaveLinks
<1>5. CASE KeepChunk(t, saving)
    <2>1. /\ Suspend(t, "chunks", Onward(f, saving)) /\ rows' = rows /\ ~Flushes(f)
        BY <1>5 DEF KeepChunk, Onward, f
    <2>2. SaveEvery # 1
        <3>1. f.index \in Nat
            BY <1>1 DEF FrameType
        <3>2. f.index % 1 = 0
            BY <3>1
        <3>3. QED
            BY <2>1, <3>2 DEF Flushes
    <2>3. \A s2 \in Tips : s2 = s
        BY <2>2 DEF NoGaps
    <2>4. Start(Onward(f, saving)) = top /\ Onward(f, saving).saving = saving
        BY <1>1, <1>3, NextChunk DEF top
    <2>5. \A s2 \in Tips : Whole(Onward(f, saving).saving, s2, Start(Onward(f, saving)))
        BY <1>3, <2>3, <2>4
    <2>6. QED
        BY <1>1, <2>1, <2>5, SuspendLinks
<1>6. CASE SaveChunk(t, saving)
    <2>1. CASE /\ SaveOutcome(rows, saving) = "saved"
               /\ rows' = InsertRows(rows, saving)
               /\ Suspend(t, "chunks", Onward(f, {}))
        <3>1. Linked(rows')
            BY <1>1, <1>3, <2>1, SaveLinks
        <3>2. Onward(f, {}).saving = {}
            BY <1>1, NextChunk
        <3>3. \A s2 \in Tips : Whole(Onward(f, {}).saving, s2, Start(Onward(f, {})))
            BY <3>2 DEF Whole
        <3>4. QED
            BY <1>1, <2>1, <3>1, <3>3, SuspendLinks
    <2>2. CASE SaveOutcome(rows, saving) = "inconsistent" /\ Rollback(t)
        BY <1>1, <2>2, InconsistentNotEmpty, RollbackLinks
    <2>3. CASE GiveUp(t)
        BY <1>1, <2>3, GiveUpLinks
    <2>4. QED
        BY <1>6, <2>1, <2>2, <2>3 DEF SaveChunk, Onward, f
<1>7. QED
    BY <1>2, <1>4, <1>5, <1>6 DEF saving, kept

LEMMA RangeAnswerLinks ==
    ASSUME Inv, LinkInv, OneChain, "dropped" \notin Failures, NEW t \in Task, RangeAnswer(t)
    PROVE  LinkInv'
<1>1. /\ pc[t] = "range" /\ "pause" \in Critical /\ MayRun(t)
      /\ frame[t] \in FrameType /\ frame[t].header \in Block
      /\ DOMAIN rows # {} /\ frame[t].base = BestHeader(rows)
      /\ TableOK(rows) /\ Linked(rows)
    BY DEF RangeAnswer, Inv, TaskOK, FrameOK, MayRun, Critical, Places, LinkInv
<1>2. PICK S \in RangeAnswers(frame[t]) :
         \/ /\ UNCHANGED <<rows, last, synced, announced>>
            /\ Suspend(t, "pause", frame[t])
         \/ GiveUp(t)
         \/ S # {} /\ SaveAndLeave(t, S \ {Lowest(S)}, last)
    BY DEF RangeAnswer
<1>3. CASE rows' = rows /\ Suspend(t, "pause", frame[t])
    BY <1>1, <1>3, SuspendLinks
<1>4. CASE GiveUp(t)
    BY <1>1, <1>4, GiveUpLinks
<1>5. CASE S # {} /\ SaveAndLeave(t, S \ {Lowest(S)}, last)
    <2> DEFINE above == S \ {Lowest(S)}
               lo    == Height[BestHeader(rows)]
               hi    == Height[frame[t].header] - 1
    <2>1. lo \in Nat /\ hi \in Int
        BY <1>1, BestRow, HeightsNat DEF TableOK
    <2>2. /\ S \in SUBSET Block
          /\ S \subseteq UNION {Chain[s] : s \in Tips}
          /\ \A b, c \in S : Height[b] = Height[c] => b = c
          /\ \A b \in S : Height[b] \in lo..hi
          /\ \A h \in lo..hi : \E b \in S : Height[b] = h
        BY <1>1, ReactorAssumption DEF RangeAnswers, RangeHeights
    <2>3. Lowest(S) \in S /\ \A b \in S : Height[Lowest(S)] <= Height[b]
        BY <1>5, <2>2, LowestExists
    <2>4. ASSUME NEW b \in above PROVE Height[Lowest(S)] < Height[b]
        <3>1. Height[Lowest(S)] <= Height[b] /\ Height[Lowest(S)] # Height[b]
            BY <2>2, <2>3
        <3>2. QED
            BY <2>2, <2>3, <3>1, HeightsNat
    <2> HIDE DEF lo, hi
    <2>5. Fit(rows, above)
        <3>1. ASSUME NEW b \in above, NEW c \in DOMAIN rows PROVE Height[c] < Height[b]
            <4>1. Height[c] <= lo /\ c \in Block
                BY <1>1, BestRow DEF TableOK, Stacked, lo
            <4>2. lo <= Height[Lowest(S)]
                BY <2>1, <2>2, <2>3
            <4>3. Height[b] \in Nat /\ Height[c] \in Nat /\ Height[Lowest(S)] \in Nat
                BY <2>2, <2>3, <4>1, HeightsNat
            <4>4. QED
                BY <2>1, <2>4, <4>1, <4>2, <4>3
        <3>2. QED
            BY <2>2, <3>1 DEF Fit
    \* Every height has its header in S, which on one chain is the parent's.
    <2>6. ASSUME NEW b \in above \ {Genesis} PROVE Prev[b] \in S
        <3>1. PICK s \in Tips : b \in Chain[s]
            BY <2>2
        <3>2. Prev[b] \in Chain[s] /\ b \in Block
            BY <2>2, <2>6, <3>1, ReactorAssumption
        <3>3. Height[b] = Height[Prev[b]] + 1 /\ Height[Prev[b]] \in Nat
            BY <2>6, <3>2, BlockAssumption
        <3>4. Height[Prev[b]] \in lo..hi
            <4>1. Height[Lowest(S)] \in lo..hi /\ Height[b] \in lo..hi
                BY <2>2, <2>3
            <4>2. QED
                BY <2>1, <2>4, <3>3, <4>1
        <3>5. PICK c \in S : Height[c] = Height[Prev[b]]
            BY <2>2, <3>4
        <3>6. c = Prev[b]
            BY <2>2, <3>2, <3>5 DEF OneChain
        <3>7. QED
            BY <3>5, <3>6
    <2>7. LinkedList(above)
        <3>1. ASSUME NEW b \in above \ {Genesis}, b # Lowest(above) PROVE Prev[b] \in above
            <4>1. Prev[b] \in S
                BY <2>6
            <4>2. Prev[b] # Lowest(S)
                <5>1. ASSUME Prev[b] = Lowest(S) PROVE FALSE
                    <6>1. /\ Lowest(above) \in above /\ Height[Lowest(above)] <= Height[b]
                          /\ above \in SUBSET Block
                        BY <2>2, <3>1, LowestExists
                    <6>2. Height[Lowest(S)] < Height[Lowest(above)]
                        BY <2>4, <6>1
                    <6>3. Height[Lowest(above)] # Height[b]
                        BY <2>2, <3>1, <6>1
                    <6>4. /\ Height[b] = Height[Lowest(S)] + 1
                          /\ Height[Lowest(S)] \in Nat /\ Height[Lowest(above)] \in Nat
                        BY <5>1, <6>1, <3>1, <2>2, <2>3, BlockAssumption
                    <6>5. QED
                        BY <6>1, <6>2, <6>3, <6>4
                <5>2. QED
                    BY <5>1
            <4>3. QED
                BY <4>1, <4>2
        <3>2. QED
            BY <3>1 DEF LinkedList
    <2>8. QED
        BY <1>1, <1>5, <2>5, <2>7, SaveAndLeaveLinks
<1>6. QED
    BY <1>2, <1>3, <1>4, <1>5

LEMMA AdvanceLinks ==
    ASSUME Inv, LinkInv, OneChain, NoGaps, "dropped" \notin Failures,
           NEW t \in Task, Advance(t)
    PROVE  LinkInv'
<1>1. CASE NoPeers(t) \/ EmptyRange(t) \/ EmptyChunk(t)
    BY <1>1, RetryLinks DEF NoPeers, EmptyRange, EmptyChunk, Critical, Places
<1>2. CASE CallFails(t) \/ BehindWakes(t) \/ PingEnds(t)
    <2>1. GiveUp(t) /\ pc[t] \in Critical
        BY <1>2 DEF CallFails, BehindWakes, PingEnds, Critical, Places
    <2>2. MayRun(t)
        BY <2>1 DEF Inv, TaskOK, MayRun
    <2>3. QED
        BY <2>1, <2>2, GiveUpLinks
<1>3. QED
    BY <1>1, <1>2, ChunkAnswerLinks, RangeAnswerLinks DEF Advance

\* The steps that leave the table and every download alone.
LEMMA OtherStepsLink ==
    ASSUME Inv, LinkInv, rows' = rows,
           \A u \in Task : \/ pc'[u] = pc[u] /\ frame'[u] = frame[u]
                           \/ pc'[u] # "chunks"
    PROVE  LinkInv'
    BY DEF LinkInv

LEMMA StepLinks ==
    ASSUME Inv, LinkInv, OneChain, NoGaps, "dropped" \notin Failures, [Next]_vars
    PROVE  LinkInv'
<1>1. ASSUME NEW t \in Task, Enter(t) PROVE LinkInv'
    <2>1. /\ MayRun(t) /\ frame[t] \in FrameType /\ frame[t].header \in Block
          /\ frame[t].index = 0 /\ frame[t].saving = {} /\ Process(t, frame[t])
        BY <1>1 DEF Enter, LockFree, Inv, TaskOK, FrameOK, MayRun
    <2>2. QED
        BY <2>1, ProcessLinks
<1>2. ASSUME NEW t \in Task, Notify(t) \/ PollAnswer(t) PROVE LinkInv'
    <2>1. /\ pc' = [pc EXCEPT ![t] = "waiting"] /\ rows' = rows
          /\ \E b : frame' = [frame EXCEPT ![t] = Call(b, 0)]
        BY <1>2 DEF Notify, PollAnswer
    <2>2. \A u \in Task : \/ pc'[u] = pc[u] /\ frame'[u] = frame[u]
                          \/ pc'[u] # "chunks"
        BY <2>1 DEF Inv
    <2>3. QED
        BY <2>1, <2>2, OtherStepsLink
<1>3. CASE OnConnected \/ PollSuspends \/ PollWithoutHeader \/ PollAsks \/ PollMissing
    <2>1. UNCHANGED <<rows, pc, frame>>
        BY <1>3 DEF OnConnected, PollSuspends, PollWithoutHeader, PollAsks, PollMissing
    <2>2. QED
        BY <2>1, OtherStepsLink
<1>4. CASE Restart
    BY <1>4, OtherStepsLink DEF Restart
<1>5. CASE UNCHANGED vars
    BY <1>5, OtherStepsLink DEF vars
<1>6. QED
    BY <1>1, <1>2, <1>3, <1>4, <1>5, AdvanceLinks DEF Next, Run, CheckHeaders

\* In a linked stack that starts at the genesis block, the row before is the parent's.
LEMMA LinkedNeighbours ==
    ASSUME NEW r, TableOK(r), Linked(r), NEW b \in DOMAIN r \ {Genesis}
    PROVE  Neighbour(r, b, -1) = Prev[b]
<1> DEFINE p == Prev[b]
<1>1. /\ Stacked(r) /\ b \in Block /\ p \in DOMAIN r /\ p \in Block
      /\ Height[b] = Height[p] + 1 /\ Height[p] \in Nat
    BY BlockAssumption DEF TableOK, Linked, Stacked
<1>2. \A c \in DOMAIN r : r[c] \in Nat \ {0} /\ Height[c] \in Nat
    BY <1>1, HeightsNat DEF Stacked
<1>3. \A c, d \in DOMAIN r : r[c] = r[d] => c = d
    BY <1>1, <1>2 DEF Stacked
<1>4. Cardinality(DOMAIN r) \in Nat
    BY <1>1, StackFinite
<1>5. r[p] < r[b]
    BY <1>1, <1>2 DEF Stacked
<1>6. r[p] = r[b] - 1
    <2>1. SUFFICES ASSUME r[p] < r[b] - 1 PROVE FALSE
        BY <1>1, <1>2, <1>5
    <2>2. r[b] - 1 \in {r[c] : c \in DOMAIN r}
        <3>1. r[b] \in 1..Cardinality(DOMAIN r)
            BY <1>1 DEF Stacked
        <3>2. r[b] - 1 \in 1..Cardinality(DOMAIN r)
            BY <1>1, <1>2, <1>4, <2>1, <3>1
        <3>3. QED
            BY <1>1, <3>2 DEF Stacked
    <2>3. PICK c \in DOMAIN r : r[c] = r[b] - 1
        BY <2>2
    <2>4. Height[p] < Height[c] /\ Height[c] < Height[b]
        BY <1>1, <1>2, <2>1, <2>3 DEF Stacked
    <2>5. QED
        BY <1>1, <1>2, <2>4
<1>7. \A c \in DOMAIN r : (r[c] = r[b] + (-1)) <=> (c = p)
    BY <1>1, <1>2, <1>3, <1>6
<1>8. QED
    BY <1>1, <1>7 DEF Neighbour

\* When the servers are on one chain and no answer of a range is lost, the row before a
\* header's is its parent's, whatever branch the table was of: if each chunk is
\* saved by itself, however far some servers lag; and for any number of chunks in a
\* save, if none lags.
THEOREM Neighbours ==
    ASSUME OneChain, NoGaps, "dropped" \notin Failures
    PROVE  LinkedSpec => []NeighboursAreParents
<1>1. TableOK(rows) /\ Linked(rows) /\ UpInit => Inv /\ LinkInv
    <2>1. SUFFICES ASSUME TableOK(rows), Linked(rows), UpInit PROVE Inv /\ LinkInv
        OBVIOUS
    <2>2. \A t \in Task : pc[t] = "idle"
        BY <2>1 DEF UpInit
    <2>3. QED
        BY <2>1, <2>2, UpKeepsAll DEF LinkInv
<1>2. Inv /\ LinkInv /\ [Next]_vars => (Inv /\ LinkInv)'
    BY StepKeeps, StepLinks
<1>3. Inv /\ LinkInv => NeighboursAreParents
    BY LinkedNeighbours DEF Inv, LinkInv, NeighboursAreParents
<1>4. QED
    BY <1>1, <1>2, <1>3, PTL DEF LinkedSpec
=============================================================================
