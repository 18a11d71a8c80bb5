------------------------ MODULE TreeAggregationProofs ------------------------
(***************************************************************************)
(* Proofs about the aggregation tree, for every number of meters, groups,  *)
(* queries and crashes, and about the walk through the overlay (MCOverlay).*)
(*                                                                         *)
(* The first half is about data: that the parent and child arithmetic of   *)
(* Overlay makes a tree of each group, what a subtree is and what the fold *)
(* of aggregate() computes.  The second half is about the protocol:        *)
(* StuckInv for members that wait and the values that get into sums,       *)
(* WholeInv for the whole sum.                                             *)
(***************************************************************************)
EXTENDS TreeAggregation, MCOverlay, OverlayProofs, FiniteSetTheorems, SequenceTheorems, TLAPS

------------------------------------------------------------------------------
(* The tree of a group. *)

\* The first and the number of the members of the group that is modelled.
First == group_begin(GroupNum, NumGroups, NumMeters)
Size == group_size_of(GroupNum, NumGroups, NumMeters)

\* The members of the group are an interval.
LEMMA MembersAre ==
  /\ First \in Nat /\ Size \in Nat /\ Size >= 2
  /\ Member = First..(First + Size - 1)
<1>1. Sizes(NumGroups, NumMeters) /\ GroupNum \in 0..(NumGroups - 1) /\ NumMeters \in Nat
  BY TreeAssumption DEF Sizes
<1>2. /\ First \in Nat /\ Size \in Nat /\ Size >= 2 /\ First + Size <= NumMeters
      /\ \A m \in Nat : m < NumMeters =>
           (aggregation_group_for(m, NumGroups, NumMeters) = GroupNum
              <=> First <= m /\ m < First + Size)
  BY <1>1, GroupBounds DEF First, Size
<1>3. ASSUME NEW m PROVE m \in Member <=> m \in First..(First + Size - 1)
  BY <1>1, <1>2 DEF Member
<1> QED
  BY <1>2, <1>3

\* The parent by the arithmetic of aggregation_tree_parent.
LEMMA ParentIs ==
  ASSUME NEW m \in Member
  PROVE  Parent(m) = IF m = First THEN -1 ELSE (m - First - 1) \div 2 + First
BY DEF Parent, aggregation_tree_parent, Member, First

\* The children by the arithmetic of aggregation_tree_children.
LEMMA ChildrenAre ==
  ASSUME NEW m \in Member
  PROVE  Children(m) = {c \in Member : c = 2 * m - First + 1 \/ c = 2 * m - First + 2}
<1> DEFINE right == (m - First + 1) * 2
           Present(relative) == IF relative < Size THEN relative + First ELSE -1
<1>1. aggregation_tree_children(m, NumGroups, NumMeters) = <<Present(right - 1), Present(right)>>
  BY DEF aggregation_tree_children, Member, First, Size
<1>2. Range(<<Present(right - 1), Present(right)>>) = {Present(right - 1), Present(right)}
  BY DEF Range
<1>3. Children(m) = {c \in {Present(right - 1), Present(right)} : c # -1}
  BY <1>1, <1>2 DEF Children
<1>4. m \in Nat /\ First <= m /\ right \in Nat /\ right = 2 * m - First - First + 2
  BY MembersAre
<1>5. \A c \in Member : c # -1
  BY MembersAre
<1>6. ASSUME NEW relative \in Nat
      PROVE  /\ Present(relative) # -1 <=> relative < Size
             /\ Present(relative) # -1 <=> Present(relative) \in Member
             /\ Present(relative) # -1 => Present(relative) = relative + First
             /\ relative + First \in Member <=> relative < Size
  BY MembersAre
<1>7. right - 1 \in Nat /\ right - 1 + First = 2 * m - First + 1
      /\ right + First = 2 * m - First + 2
  BY <1>4, MembersAre
<1> HIDE DEF right, Present
<1>8. /\ Present(right - 1) # -1 <=> 2 * m - First + 1 \in Member
      /\ Present(right - 1) # -1 => Present(right - 1) = 2 * m - First + 1
  BY <1>6, <1>7
<1>9. /\ Present(right) # -1 <=> 2 * m - First + 2 \in Member
      /\ Present(right) # -1 => Present(right) = 2 * m - First + 2
  BY <1>4, <1>6, <1>7
<1> QED
  BY <1>3, <1>5, <1>8, <1>9

\* Parents and children agree, and children have greater numbers.
LEMMA Tree ==
  /\ IsFiniteSet(Member) /\ Cardinality(Member) = Size
  /\ \A m \in Member : m \in Nat /\ Children(m) \subseteq Member
  /\ \A m \in Member : \A c \in Children(m) : Parent(c) = m /\ c > m
  /\ \A m \in Member : Parent(m) # Utility => Parent(m) \in Member /\ m \in Children(Parent(m))
<1>1. IsFiniteSet(Member) /\ Cardinality(Member) = Size
  BY MembersAre, FS_Interval
<1>2. \A m \in Member : m \in Nat /\ Children(m) \subseteq Member
  BY MembersAre, ChildrenAre
<1>3. ASSUME NEW m \in Member, NEW c \in Children(m)
      PROVE  Parent(c) = m /\ c > m
  <2>1. c \in Member /\ m \in Nat /\ m >= First
        /\ (c = 2 * m - First + 1 \/ c = 2 * m - First + 2)
    <3>1. m \in Nat /\ m >= First
      BY MembersAre
    <3>2. c \in Member /\ (c = 2 * m - First + 1 \/ c = 2 * m - First + 2)
      BY ChildrenAre
    <3> QED
      BY <3>1, <3>2
  <2>2. c > m /\ c # First /\ (c - First - 1) \div 2 = m - First
    <3> DEFINE d == m - First
    <3>1. d \in Nat /\ m = d + First /\ First \in Nat
      BY <2>1, MembersAre
    <3> HIDE DEF d
    <3>2. c - First - 1 = 2 * d \/ c - First - 1 = 2 * d + 1
      BY <2>1, <3>1
    <3>3. (2 * d) \div 2 = d /\ (2 * d + 1) \div 2 = d
      BY <3>1
    <3>4. c > m /\ c # First
      BY <2>1, <3>1
    <3>5. d = m - First
      BY <3>1
    <3> QED
      BY <3>2, <3>3, <3>4, <3>5
  <2>3. Parent(c) = (m - First) + First
    BY <2>1, <2>2, ParentIs
  <2> QED
    BY <2>1, <2>2, <2>3, MembersAre
<1>4. ASSUME NEW m \in Member, Parent(m) # Utility
      PROVE  Parent(m) \in Member /\ m \in Children(Parent(m))
  <2> DEFINE p == (m - First - 1) \div 2
  <2>1. m \in Nat /\ m > First /\ m < First + Size /\ Parent(m) = p + First
    BY <1>4, ParentIs, MembersAre DEF Utility
  <2>2. p \in Nat /\ (m - First - 1 = 2 * p \/ m - First - 1 = 2 * p + 1)
    BY <2>1, MembersAre
  <2> HIDE DEF p
  <2>3. p + First \in Member
    BY <2>1, <2>2, MembersAre
  <2>4. m = 2 * (p + First) - First + 1 \/ m = 2 * (p + First) - First + 2
    BY <2>1, <2>2, MembersAre
  <2> QED
    BY <2>1, <2>3, <2>4, ChildrenAre
<1> QED
  BY <1>1, <1>2, <1>3, <1>4

------------------------------------------------------------------------------
(* Subtrees. *)

\* The levels of the subtree of m: r[k] is what is reached in k steps.
Levels(m, r) ==
  r = [k \in 0..Cardinality(Member) |->
         IF k = 0 THEN {m} ELSE r[k-1] \cup UNION {Children(c) : c \in r[k-1]}]

\* The recursive function that defines Subtree exists.
LEMMA LevelsDefined ==
  ASSUME NEW m
  PROVE  \E r : Levels(m, r) /\ Subtree(m) = r[Cardinality(Member)]
<1> DEFINE N == Cardinality(Member)
           Step(r, k) == IF k = 0 THEN {m} ELSE r[k-1] \cup UNION {Children(c) : c \in r[k-1]}
           Good(r, n) == \A k \in 0..n : r[k] = Step(r, k)
           P == {n \in 0..N : \E r : Good(r, n)}
<1>1. N \in Nat
  BY Tree, FS_CardinalityType
<1> HIDE DEF N
<1>2. 0 \in P
  <2> DEFINE r == [k \in 0..N |-> {m}]
  <2>1. Good(r, 0)
    BY <1>1
  <2> HIDE DEF r, Good
  <2> QED
    BY <1>1, <2>1
<1>3. ASSUME NEW n \in 0..(N - 1), n \in P PROVE n + 1 \in P
  <2>1. PICK r : Good(r, n)
    BY <1>3
  <2> DEFINE g == [k \in 0..N |-> IF k <= n THEN r[k] ELSE Step(r, k)]
  <2>2. ASSUME NEW k \in 0..(n + 1) PROVE g[k] = Step(g, k)
    <3>1. k \in 0..N /\ g[k] = Step(r, k)
      <4>1. k \in 0..N /\ (k <= n => k \in 0..n)
        BY <1>1
      <4>2. k <= n => r[k] = Step(r, k)
        BY <2>1, <4>1
      <4> HIDE DEF Step
      <4> QED
        BY <4>1, <4>2
    <3>2. CASE k = 0
      BY <3>1, <3>2
    <3>3. CASE k # 0
      <4>1. k - 1 \in 0..N /\ k - 1 <= n
        BY <1>1, <3>3
      <4>2. g[k-1] = r[k-1]
        BY <4>1
      <4> HIDE DEF g
      <4> QED
        BY <3>1, <3>3, <4>2
    <3> QED
      BY <3>2, <3>3
  <2> HIDE DEF g
  <2>3. Good(g, n + 1)
    BY <2>2
  <2>4. n + 1 \in 0..N
    BY <1>1
  <2> QED
    BY <2>3, <2>4
<1>4. N \in P
  <2> HIDE DEF P
  <2>1. 0..N \subseteq P
    BY <1>1, <1>2, <1>3, UpTo
  <2> QED
    BY <1>1, <2>1
<1>5. PICK g : Good(g, N)
  BY <1>4
<1> DEFINE f == [k \in 0..N |-> g[k]]
<1>6. ASSUME NEW k \in 0..N PROVE f[k] = Step(f, k)
  <2>1. CASE k = 0
    BY <1>5, <2>1
  <2>2. CASE k # 0
    <3>1. k - 1 \in 0..N
      BY <1>1, <2>2
    <3>2. f[k-1] = g[k-1] /\ f[k] = g[k] /\ g[k] = Step(g, k)
      BY <1>5, <3>1
    <3> HIDE DEF f
    <3> QED
      BY <2>2, <3>2
  <2> QED
    BY <2>1, <2>2
<1>7. f = [k \in 0..N |-> Step(f, k)]
  BY <1>6
<1> DEFINE reach == CHOOSE h : h = [k \in 0..N |-> Step(h, k)]
<1>8. reach = [k \in 0..N |-> Step(reach, k)]
  <2> HIDE DEF f
  <2> QED
    BY <1>7
<1>9. Subtree(m) = reach[N]
  BY DEF Subtree, N
<1> HIDE DEF reach
<1>10. Levels(m, reach)
  BY <1>8 DEF Levels, N
<1> QED
  BY <1>9, <1>10 DEF N

\* The equations of the levels.
LEMMA LevelByLevel ==
  ASSUME NEW m, NEW r, Levels(m, r), NEW N \in Nat, N = Cardinality(Member)
  PROVE  /\ r[0] = {m}
         /\ \A k \in 0..(N - 1) : r[k + 1] = r[k] \cup UNION {Children(c) : c \in r[k]}
<1>1. r[0] = {m}
  BY DEF Levels
<1>2. ASSUME NEW k \in 0..(N - 1)
      PROVE  r[k + 1] = r[k] \cup UNION {Children(c) : c \in r[k]}
  <2>1. k + 1 \in 0..N /\ k + 1 # 0 /\ (k + 1) - 1 = k
    OBVIOUS
  <2> QED
    BY <2>1 DEF Levels
<1> QED
  BY <1>1, <1>2

\* A subtree holds its root and with a member its children. The levels stop
\* growing because a child has a greater number than its parent.
LEMMA SubtreeClosed ==
  ASSUME NEW m \in Member
  PROVE  /\ m \in Subtree(m) /\ Subtree(m) \subseteq Member
         /\ \A x \in Subtree(m) : Children(x) \subseteq Subtree(m)
<1> DEFINE N == Cardinality(Member)
<1>1. N = Size /\ N \in Nat /\ N >= 2
  BY Tree, MembersAre
<1>2. PICK r : Levels(m, r) /\ Subtree(m) = r[N]
  BY LevelsDefined
<1> HIDE DEF N
<1>3. /\ r[0] = {m}
      /\ \A k \in 0..(N - 1) : r[k + 1] = r[k] \cup UNION {Children(c) : c \in r[k]}
  BY <1>1, <1>2, LevelByLevel DEF N
<1> DEFINE P == {k \in 0..N : m \in r[k] /\ r[k] \subseteq Member
                                /\ (k # 0 => \A x \in r[k] \ r[k-1] : x >= m + k)}
<1>4. 0 \in P
  BY <1>1, <1>3
<1>5. ASSUME NEW k \in 0..(N - 1), k \in P PROVE k + 1 \in P
  <2>1. r[k + 1] = r[k] \cup UNION {Children(c) : c \in r[k]}
    BY <1>3
  <2>2. m \in r[k + 1] /\ r[k + 1] \subseteq Member
    BY <1>5, <2>1, Tree
  <2>3. ASSUME NEW x \in r[k + 1] \ r[k] PROVE x >= m + (k + 1)
    <3>1. PICK c \in r[k] : x \in Children(c)
      BY <2>1
    <3>2. c \in Member /\ x > c /\ c \in Nat /\ x \in Nat /\ m \in Nat
      BY <1>5, <3>1, Tree
    <3>3. CASE k = 0
      BY <1>3, <3>1, <3>2, <3>3
    <3>4. CASE k # 0
      <4>1. r[k] = r[k-1] \cup UNION {Children(d) : d \in r[k-1]}
        <5>1. k - 1 \in 0..(N - 1) /\ (k - 1) + 1 = k
          BY <1>1, <3>4
        <5> QED
          BY <1>3, <5>1
      <4>2. c \notin r[k-1]
        BY <3>1, <4>1
      <4>3. c >= m + k
        BY <1>5, <3>4, <4>2
      <4> QED
        BY <3>2, <4>3
    <3> QED
      BY <3>3, <3>4
  <2>4. k + 1 \in 0..N /\ (k + 1) - 1 = k
    BY <1>1
  <2> QED
    BY <2>2, <2>3, <2>4
<1>6. N \in P /\ N - 1 \in P
  <2> HIDE DEF P
  <2>1. 0..N \subseteq P
    BY <1>1, <1>4, <1>5, UpTo
  <2> QED
    BY <1>1, <2>1
<1>7. r[N] = r[N-1] \cup UNION {Children(c) : c \in r[N-1]}
  <2>1. N - 1 \in 0..(N - 1) /\ (N - 1) + 1 = N
    BY <1>1
  <2> QED
    BY <1>3, <2>1
<1>8. r[N] \subseteq r[N-1]
  <2> SUFFICES ASSUME NEW x \in r[N] \ r[N-1] PROVE FALSE
    OBVIOUS
  <2>1. x >= m + N /\ x \in Member
    BY <1>1, <1>6
  <2>2. m >= First /\ x < First + Size
    BY <2>1, MembersAre
  <2> QED
    BY <1>1, <2>1, <2>2, MembersAre
<1> QED
  BY <1>2, <1>6, <1>7, <1>8

\* It is the least such set.
LEMMA SubtreeLeast ==
  ASSUME NEW m \in Member, NEW X, m \in X, \A x \in X : Children(x) \subseteq X
  PROVE  Subtree(m) \subseteq X
<1> DEFINE N == Cardinality(Member)
<1>1. N \in Nat
  BY Tree, MembersAre
<1>2. PICK r : Levels(m, r) /\ Subtree(m) = r[N]
  BY LevelsDefined
<1> HIDE DEF N
<1>3. /\ r[0] = {m}
      /\ \A k \in 0..(N - 1) : r[k + 1] = r[k] \cup UNION {Children(d) : d \in r[k]}
  BY <1>1, <1>2, LevelByLevel DEF N
<1> DEFINE P == {k \in 0..N : r[k] \subseteq X}
<1>4. 0 \in P
  BY <1>1, <1>3
<1>5. ASSUME NEW k \in 0..(N - 1), k \in P PROVE k + 1 \in P
  <2>1. r[k + 1] = r[k] \cup UNION {Children(d) : d \in r[k]}
    BY <1>3
  <2>2. r[k + 1] \subseteq X
    BY <1>5, <2>1
  <2> QED
    BY <1>1, <2>2
<1>6. N \in P
  <2> HIDE DEF P
  <2>1. 0..N \subseteq P
    BY <1>1, <1>4, <1>5, UpTo
  <2> QED
    BY <1>1, <2>1
<1> QED
  BY <1>2, <1>6

\* The subtree of a child is a part of its parent's.
LEMMA ChildSubtree ==
  ASSUME NEW m \in Member, NEW c \in Children(m)
  PROVE  c \in Member /\ Subtree(c) \subseteq Subtree(m)
<1>1. c \in Member /\ c \in Subtree(m)
  BY SubtreeClosed, Tree
<1> QED
  BY <1>1, SubtreeClosed, SubtreeLeast

\* A subtree holds no smaller number than its root, and the parent of all else.
LEMMA SubtreeAbove ==
  ASSUME NEW m \in Member, NEW x \in Subtree(m)
  PROVE  x >= m /\ (x # m => Parent(x) \in Subtree(m))
<1> DEFINE X == {y \in Subtree(m) : y >= m /\ (y # m => Parent(y) \in Subtree(m))}
<1>1. m \in X
  BY SubtreeClosed, MembersAre
<1>2. ASSUME NEW y \in X, NEW c \in Children(y) PROVE c \in X
  <2>1. y \in Member /\ y \in Subtree(m) /\ c \in Subtree(m) /\ y >= m
    BY <1>2, SubtreeClosed
  <2>2. Parent(c) = y /\ c > y /\ c \in Nat /\ y \in Nat /\ m \in Nat
    BY <2>1, Tree
  <2> QED
    BY <2>1, <2>2
<1>3. Subtree(m) \subseteq X
  <2> HIDE DEF X
  <2>1. \A y \in X : Children(y) \subseteq X
    BY <1>2
  <2> QED
    BY <1>1, <2>1, SubtreeLeast
<1> QED
  BY <1>3

\* A subtree is its root and the subtrees of the root's children ...
LEMMA SubtreeSplit ==
  ASSUME NEW m \in Member
  PROVE  Subtree(m) = {m} \cup UNION {Subtree(c) : c \in Children(m)}
<1> DEFINE X == {m} \cup UNION {Subtree(c) : c \in Children(m)}
<1>1. ASSUME NEW x \in X PROVE Children(x) \subseteq X
  <2>1. CASE x = m
    BY <2>1, SubtreeClosed, Tree
  <2>2. CASE \E c \in Children(m) : x \in Subtree(c)
    BY <2>2, SubtreeClosed, Tree
  <2> QED
    BY <2>1, <2>2
<1>2. Subtree(m) \subseteq X
  <2>1. m \in X
    OBVIOUS
  <2> HIDE DEF X
  <2> QED
    BY <1>1, <2>1, SubtreeLeast
<1>3. X \subseteq Subtree(m)
  BY SubtreeClosed, ChildSubtree
<1> QED
  BY <1>2, <1>3

\* ... which do not overlap.
LEMMA SubtreesApart ==
  ASSUME NEW m \in Member, NEW c \in Children(m), NEW d \in Children(m), c # d
  PROVE  Subtree(c) \cap Subtree(d) = {} /\ m \notin Subtree(c)
<1> DEFINE X == {x \in Subtree(c) : x \notin Subtree(d)}
<1>1. /\ c \in Member /\ d \in Member /\ c \in Nat /\ d \in Nat /\ m \in Nat
      /\ Parent(c) = m /\ Parent(d) = m /\ m < c /\ m < d
  BY Tree
<1>2. m \notin Subtree(c) /\ m \notin Subtree(d)
  BY <1>1, SubtreeAbove
<1>3. c \in X
  <2>1. c \in Subtree(c)
    BY <1>1, SubtreeClosed
  <2>2. c \notin Subtree(d)
    BY <1>1, <1>2, SubtreeAbove
  <2> QED
    BY <2>1, <2>2
<1>4. ASSUME NEW x \in X, NEW y \in Children(x) PROVE y \in X
  <2>1. x \in Member /\ x \in Subtree(c) /\ x \notin Subtree(d) /\ y \in Subtree(c)
    BY <1>1, SubtreeClosed
  <2>2. Parent(y) = x
    BY <2>1, Tree
  <2>3. y # d
    BY <1>1, <1>2, <2>1, <2>2
  <2>4. y \notin Subtree(d)
    BY <1>1, <2>1, <2>2, <2>3, SubtreeAbove
  <2> QED
    BY <2>1, <2>4
<1>5. Subtree(c) \subseteq X
  <2> HIDE DEF X
  <2>1. \A x \in X : Children(x) \subseteq X
    BY <1>4
  <2> QED
    BY <1>1, <1>3, <2>1, SubtreeLeast
<1> QED
  BY <1>2, <1>5

\* The first member is the one that reports to the utility, and everyone is
\* below it.
LEMMA RootAboveAll ==
  /\ First \in Member /\ Parent(First) = Utility /\ Subtree(First) = Member
  /\ \A m \in Member : Parent(m) = Utility => m = First
<1>1. First \in Member /\ Parent(First) = Utility
  BY MembersAre, ParentIs DEF Utility
<1>2. ASSUME NEW m \in Member, m # First
      PROVE Parent(m) \in Member /\ Parent(m) < m /\ m \in Children(Parent(m))
  <2>1. Parent(m) # Utility
    <3>1. m \in Nat /\ m >= First + 1 /\ First \in Nat
      BY <1>2, MembersAre
    <3>2. (m - First - 1) \div 2 \in Nat
      BY <3>1
    <3>3. Parent(m) = (m - First - 1) \div 2 + First
      BY <1>2, ParentIs
    <3> QED
      BY <3>1, <3>2, <3>3 DEF Utility
  <2> QED
    BY <2>1, Tree
<1> DEFINE P == {k \in Nat : \A m \in Member : m <= First + k => m \in Subtree(First)}
<1>3. 0 \in P
  <2>1. ASSUME NEW m \in Member, m <= First + 0 PROVE m = First
    BY <2>1, MembersAre
  <2> QED
    BY <1>1, <2>1, SubtreeClosed
<1>4. ASSUME NEW k \in Nat, k \in P PROVE k + 1 \in P
  <2> SUFFICES ASSUME NEW m \in Member, m <= First + (k + 1) PROVE m \in Subtree(First)
    OBVIOUS
  <2>1. CASE m = First
    BY <1>1, <2>1, SubtreeClosed
  <2>2. CASE m # First
    <3>1. Parent(m) \in Member /\ Parent(m) < m /\ m \in Children(Parent(m))
      BY <1>2, <2>2
    <3>2. Parent(m) <= First + k
      BY <3>1, MembersAre
    <3>3. Parent(m) \in Subtree(First)
      BY <1>4, <3>1, <3>2
    <3> QED
      BY <1>1, <3>1, <3>3, SubtreeClosed
  <2> QED
    BY <2>1, <2>2
<1>5. Nat \subseteq P
  <2> HIDE DEF P
  <2> QED
    BY <1>3, <1>4, Induction
<1>6. ASSUME NEW m \in Member PROVE m \in Subtree(First)
  <2>1. m - First \in Nat /\ m <= First + (m - First)
    BY MembersAre
  <2>2. m - First \in P
    BY <1>5, <2>1
  <2> QED
    BY <2>1, <2>2
<1>7. Subtree(First) \subseteq Member
  BY <1>1, SubtreeClosed
<1>8. \A m \in Member : Parent(m) = Utility => m = First
  <2> SUFFICES ASSUME NEW m \in Member, Parent(m) = Utility, m # First PROVE FALSE
    OBVIOUS
  <2> QED
    BY <1>2, MembersAre DEF Utility
<1> QED
  BY <1>1, <1>6, <1>7, <1>8

------------------------------------------------------------------------------
(* Folds of messages. *)

\* What aggregate() makes of the data of a sequence of messages.
Merge(base, seq) == FoldSeq(LAMBDA msg, sum : msg.data (+) sum, base, seq)

\* What the fold makes of the messages at the indices of s, from what f makes
\* of all of them but one.
MergeStep(base, seq, f, s) ==
  IF s = {} THEN base
  ELSE seq[CHOOSE x \in s : TRUE].data (+) f[s \ {CHOOSE x \in s : TRUE}]

\* The recursive function behind the fold exists.
LEMMA MergeDefined ==
  ASSUME NEW base, NEW seq, IsFiniteSet(DOMAIN seq)
  PROVE  \E f : /\ f = [s \in SUBSET DOMAIN seq |-> MergeStep(base, seq, f, s)]
                /\ Merge(base, seq) = f[DOMAIN seq]
<1> DEFINE D == DOMAIN seq
           Upto(n) == {s \in SUBSET D : Cardinality(s) <= n}
           Good(f, n) == \A s \in Upto(n) : f[s] = MergeStep(base, seq, f, s)
           P == {n \in Nat : \E f : Good(f, n)}
<1>1. \A s \in SUBSET D : IsFiniteSet(s) /\ Cardinality(s) \in Nat
  BY FS_Subset, FS_CardinalityType
<1>2. ASSUME NEW s \in SUBSET D, s # {}
      PROVE  /\ s \ {CHOOSE x \in s : TRUE} \in SUBSET D
             /\ Cardinality(s \ {CHOOSE x \in s : TRUE}) = Cardinality(s) - 1
  BY <1>1, <1>2, FS_RemoveElement
<1>3. 0 \in P
  <2> DEFINE f == [s \in SUBSET D |-> base]
  <2>1. \A s \in Upto(0) : s = {}
    BY <1>1, FS_EmptySet
  <2>2. Good(f, 0)
    BY <2>1 DEF MergeStep
  <2> QED
    BY <2>2
<1>4. ASSUME NEW n \in Nat, n \in P PROVE n + 1 \in P
  <2>1. PICK f : Good(f, n)
    BY <1>4
  <2> DEFINE g == [s \in SUBSET D |-> IF s \in Upto(n) THEN f[s] ELSE MergeStep(base, seq, f, s)]
  <2>2. ASSUME NEW s \in Upto(n + 1) PROVE g[s] = MergeStep(base, seq, f, s)
    BY <2>1
  <2>3. ASSUME NEW s \in Upto(n + 1)
        PROVE  MergeStep(base, seq, f, s) = MergeStep(base, seq, g, s)
    <3>1. CASE s = {}
      BY <3>1 DEF MergeStep
    <3>2. CASE s # {}
      <4>1. s \ {CHOOSE x \in s : TRUE} \in Upto(n)
        BY <1>1, <1>2, <3>2
      <4>2. g[s \ {CHOOSE x \in s : TRUE}] = f[s \ {CHOOSE x \in s : TRUE}]
        BY <4>1
      <4> QED
        BY <4>2 DEF MergeStep
    <3> QED
      BY <3>1, <3>2
  <2>4. Good(g, n + 1)
    BY <2>2, <2>3
  <2> HIDE DEF g
  <2> QED
    BY <2>4
<1>5. Cardinality(D) \in P
  <2> HIDE DEF P
  <2>1. Nat \subseteq P
    BY <1>3, <1>4, Induction
  <2>2. Cardinality(D) \in Nat
    BY <1>1
  <2> QED
    BY <2>1, <2>2
<1>6. PICK g : Good(g, Cardinality(D))
  BY <1>5
<1> DEFINE f == [s \in SUBSET D |-> g[s]]
<1>7. \A s \in SUBSET D : s \in Upto(Cardinality(D))
  BY FS_Subset
<1>8. ASSUME NEW s \in SUBSET D PROVE f[s] = MergeStep(base, seq, f, s)
  <2>1. f[s] = MergeStep(base, seq, g, s)
    BY <1>6, <1>7
  <2>2. CASE s = {}
    BY <2>1, <2>2 DEF MergeStep
  <2>3. CASE s # {}
    BY <1>2, <2>1, <2>3 DEF MergeStep
  <2> QED
    BY <2>2, <2>3
<1>9. f = [s \in SUBSET D |-> MergeStep(base, seq, f, s)]
  BY <1>8
<1> DEFINE iter == CHOOSE h : h = [s \in SUBSET D |-> MergeStep(base, seq, h, s)]
<1>10. iter = [s \in SUBSET D |-> MergeStep(base, seq, iter, s)]
  <2> HIDE DEF f
  <2> QED
    BY <1>9
<1>11. Merge(base, seq) = iter[D]
  BY DEF Merge, FoldSeq, FoldFunction, FoldFunctionOnSet, MapThenFoldSet, MergeStep
<1> HIDE DEF iter
<1> QED
  BY <1>10, <1>11

\* What holds of the sum of no messages, and is handed on when one is added,
\* holds of the sum of all: G[s] are the sums that are right for the indices s.
LEMMA FoldStepByStep ==
  ASSUME NEW S, NEW seq \in Seq(S), NEW base, NEW G, base \in G[{}],
         \A s \in SUBSET DOMAIN seq : \A i \in (DOMAIN seq) \ s : \A d \in G[s] :
            seq[i].data (+) d \in G[s \cup {i}]
  PROVE  Merge(base, seq) \in G[DOMAIN seq]
<1> DEFINE X == DOMAIN seq
<1>1. X = 1..Len(seq) /\ Len(seq) \in Nat
  BY LenProperties
<1>2. IsFiniteSet(X)
  BY <1>1, FS_Interval
<1>0. \A s \in SUBSET X : \A i \in X \ s : \A d \in G[s] : seq[i].data (+) d \in G[s \cup {i}]
  OBVIOUS
<1>3. PICK f : /\ f = [s \in SUBSET X |-> MergeStep(base, seq, f, s)]
               /\ Merge(base, seq) = f[X]
  BY <1>2, MergeDefined
<1> HIDE DEF X
<1> DEFINE Q == {n \in Nat : \A s \in SUBSET X : Cardinality(s) = n => f[s] \in G[s]}
<1>4. \A s \in SUBSET X : IsFiniteSet(s) /\ Cardinality(s) \in Nat
  BY <1>2, FS_Subset, FS_CardinalityType
<1>5. 0 \in Q
  <2> SUFFICES ASSUME NEW s \in SUBSET X, Cardinality(s) = 0 PROVE f[s] \in G[s]
    OBVIOUS
  <2>1. s = {}
    BY <1>4, FS_EmptySet
  <2> QED
    BY <1>3, <2>1 DEF MergeStep
<1>6. ASSUME NEW n \in Nat, n \in Q PROVE n + 1 \in Q
  <2> SUFFICES ASSUME NEW s \in SUBSET X, Cardinality(s) = n + 1 PROVE f[s] \in G[s]
    OBVIOUS
  <2>1. s # {}
    BY <1>4, FS_EmptySet
  <2> DEFINE i == CHOOSE x \in s : TRUE
             t == s \ {i}
  <2>2. i \in s /\ i \in X
    BY <2>1
  <2>3. f[s] = seq[i].data (+) f[t]
    BY <1>3, <2>1 DEF MergeStep
  <2> HIDE DEF i
  <2>4. IsFiniteSet(s)
    BY <1>4
  <2>5. t \in SUBSET X /\ i \in X \ t /\ s = t \cup {i} /\ Cardinality(t) = n
    <3>1. Cardinality(t) = Cardinality(s) - 1
      BY <2>2, <2>4, FS_RemoveElement
    <3>2. t \in SUBSET X /\ i \in X \ t /\ s = t \cup {i}
      BY <2>2
    <3> QED
      BY <3>1, <3>2
  <2> HIDE DEF t
  <2>6. f[t] \in G[t]
    BY <1>6, <2>5
  <2>7. seq[i].data (+) f[t] \in G[t \cup {i}]
    BY <1>0, <2>5, <2>6
  <2> QED
    BY <2>3, <2>5, <2>7
<1>7. X \in SUBSET X /\ Cardinality(X) \in Nat
  BY <1>4
<1>8. Nat \subseteq Q
  <2> HIDE DEF Q
  <2> QED
    BY <1>5, <1>6, Induction
<1> QED
  BY <1>3, <1>7, <1>8 DEF X

------------------------------------------------------------------------------
(* Messages that hold only values from below their sender. *)

\* A value one member contributed to one query, bags of them, and the messages
\* that carry them.
Value == [query : Int, holder : Member]
Data == UNION {[values -> Nat \ {0}] : values \in SUBSET Value}
Message == [from : Member, query : Int, data : Data]

\* The messages that hold their sender's own value and otherwise only values
\* from below it ...
Sound == {msg \in Message : msg.from \in Holders(msg) /\ Holders(msg) \subseteq Subtree(msg.from)}

\* ... and those of them that are for m.
For(m) == {msg \in Sound : Parent(msg.from) = m}

\* The sum of two bags of values holds the values of both.
LEMMA MergedData ==
  ASSUME NEW a \in Data, NEW b \in Data
  PROVE  a (+) b \in Data /\ DOMAIN (a (+) b) = DOMAIN a \cup DOMAIN b
<1>1. PICK A \in SUBSET Value : a \in [A -> Nat \ {0}]
  BY DEF Data
<1>2. PICK B \in SUBSET Value : b \in [B -> Nat \ {0}]
  BY DEF Data
<1>3. a (+) b = [e \in A \cup B |-> (IF e \in A THEN a[e] ELSE 0) + (IF e \in B THEN b[e] ELSE 0)]
  BY <1>1, <1>2 DEF (+)
<1>4. \A e \in A \cup B :
        (IF e \in A THEN a[e] ELSE 0) + (IF e \in B THEN b[e] ELSE 0) \in Nat \ {0}
  BY <1>1, <1>2
<1>5. a (+) b \in [A \cup B -> Nat \ {0}]
  BY <1>3, <1>4
<1> QED
  BY <1>1, <1>2, <1>5 DEF Data

\* A member makes a sound message from sound messages of its children.
LEMMA AggregateSound ==
  ASSUME NEW m \in Member, NEW q \in Int, NEW received \in Seq(For(m)),
         NEW times \in Nat \ {0}
  PROVE  /\ aggregate(m, q, received, times) \in Sound
         /\ aggregate(m, q, received, times).from = m
         /\ aggregate(m, q, received, times).query = q
<1> DEFINE own == [query |-> q, holder |-> m]
           base == [v \in {own} |-> times]
           D == {d \in Data : own \in DOMAIN d /\ \A v \in DOMAIN d : v.holder \in Subtree(m)}
<1>1. base \in D
  <2>1. own \in Value
    BY DEF Value
  <2>2. base \in [{own} -> Nat \ {0}] /\ DOMAIN base = {own}
    OBVIOUS
  <2>3. base \in Data
    BY <2>1, <2>2 DEF Data
  <2> QED
    BY <2>2, <2>3, SubtreeClosed
<1>2. ASSUME NEW msg \in For(m), NEW d \in D PROVE msg.data (+) d \in D
  <2>1. msg \in Sound /\ msg \in Message /\ msg.from \in Member
        /\ Parent(msg.from) = m /\ msg.data \in Data
    BY DEF For, Sound, Message
  <2>2. msg.from \in Children(m)
    <3>1. Parent(msg.from) # Utility
      BY <2>1, MembersAre DEF Utility
    <3> QED
      BY <2>1, <3>1, Tree
  <2>3. \A v \in DOMAIN msg.data : v.holder \in Subtree(m)
    BY <2>1, <2>2, ChildSubtree DEF Sound, Holders, BagToSet
  <2>4. msg.data (+) d \in Data /\ DOMAIN (msg.data (+) d) = DOMAIN msg.data \cup DOMAIN d
    BY <2>1, MergedData
  <2> QED
    BY <2>3, <2>4
<1> DEFINE sum == aggregate(m, q, received, times)
<1>3. sum = [from |-> m, query |-> q, data |-> Merge(base, received)]
  BY DEF aggregate, Merge
<1>4. Merge(base, received) \in D
  <2> DEFINE G == [s \in SUBSET DOMAIN received |-> D]
  <2>1. base \in G[{}]
    BY <1>1
  <2>2. \A i \in DOMAIN received : received[i] \in For(m)
    BY LenProperties
  <2>3. \A s \in SUBSET DOMAIN received : \A i \in (DOMAIN received) \ s : \A d \in G[s] :
           received[i].data (+) d \in G[s \cup {i}]
    <3> HIDE DEF D, base
    <3> QED
      BY <1>2, <2>2
  <2>4. G[DOMAIN received] = D
    BY DEF G
  <2> HIDE DEF G, D, base
  <2>5. Merge(base, received) \in G[DOMAIN received]
    BY <2>1, <2>3, FoldStepByStep
  <2> QED
    BY <2>4, <2>5
<1> HIDE DEF base, sum
<1>5. sum \in Message /\ sum.from = m /\ sum.query = q /\ sum.data \in D
  BY <1>3, <1>4 DEF Message
<1>6. Holders(sum) = {v.holder : v \in DOMAIN sum.data}
  BY DEF Holders, BagToSet
<1>7. sum \in Sound
  BY <1>5, <1>6 DEF Sound
<1> QED
  BY <1>5, <1>7 DEF sum

\* msg is what m sends when it has handled the first i of the messages it
\* received; each that comes after the last one needed adds m's value again.
Adds(msg, m, q, needed, received) ==
  \E i \in needed..Len(received) :
    msg = aggregate(m, q, SubSeq(received, 1, i), i - needed + 1)

\* Whatever a member sends when messages come in is of that form and sound, and
\* it sends nothing only while it still waits for some.
LEMMA AggregatesSound ==
  ASSUME NEW m \in Member, NEW q \in Int,
         NEW s \in [needed : Nat, received : Seq(For(m))],
         Len(s.received) < s.needed,
         NEW incoming \in Seq(For(m))
  PROVE  /\ \A msg \in Aggregates(m, q, s, incoming) :
               /\ msg \in Sound /\ msg.from = m /\ msg.query = q
               /\ Adds(msg, m, q, s.needed, s.received \o incoming)
         /\ Aggregates(m, q, s, incoming) = {} => Len(s.received \o incoming) < s.needed
<1> DEFINE out == Aggregates(m, q, s, incoming)
           all == s.received \o incoming
<1>1. /\ s.received \in Seq(For(m)) /\ s.needed \in Nat
      /\ Len(s.received) \in Nat /\ Len(incoming) \in Nat
  BY LenProperties
<1>2. all \in Seq(For(m)) /\ Len(all) = Len(s.received) + Len(incoming)
  BY <1>1, ConcatProperties
<1>3. out = {aggregate(m, q, SubSeq(all, 1, i), i - s.needed + 1) :
               i \in {j \in (Len(s.received) + 1)..Len(all) : j >= s.needed}}
  BY DEF Aggregates
<1> HIDE DEF out, all
<1>4. ASSUME NEW msg \in out
      PROVE  /\ msg \in Sound /\ msg.from = m /\ msg.query = q
             /\ Adds(msg, m, q, s.needed, all)
  <2>1. PICK i \in (Len(s.received) + 1)..Len(all) :
          i >= s.needed /\ msg = aggregate(m, q, SubSeq(all, 1, i), i - s.needed + 1)
    BY <1>3
  <2>2. i - s.needed + 1 \in Nat \ {0} /\ i \in Nat /\ i <= Len(all)
    BY <1>1, <1>2, <2>1
  <2>3. SubSeq(all, 1, i) \in Seq(For(m))
    <3>1. \A j \in 1..i : all[j] \in For(m)
      BY <1>2, <2>2, ElementOfSeq
    <3> QED
      BY <2>2, <3>1, SubSeqProperties
  <2>6. i \in s.needed..Len(all)
    BY <1>1, <1>2, <2>1
  <2>7. Adds(msg, m, q, s.needed, all)
    BY <2>1, <2>6 DEF Adds
  <2> DEFINE received == SubSeq(all, 1, i)
             times == i - s.needed + 1
  <2>4. msg = aggregate(m, q, received, times)
    BY <2>1
  <2>5. received \in Seq(For(m)) /\ times \in Nat \ {0}
    BY <2>2, <2>3
  <2> HIDE DEF received, times
  <2> QED
    BY <2>4, <2>5, <2>7, AggregateSound
<1>5. ASSUME out = {} PROVE Len(all) < s.needed
  <2>1. ~(Len(all) \in (Len(s.received) + 1)..Len(all) /\ Len(all) >= s.needed)
    BY <1>3, <1>5
  <2> QED
    BY <1>1, <1>2, <2>1
<1> QED
  BY <1>4, <1>5 DEF out, all

------------------------------------------------------------------------------
(* Messages that hold all of them. *)

\* No two messages of seq have the same sender.
Distinct(seq) == \A i, j \in DOMAIN seq : seq[i].from = seq[j].from => i = j

\* The contributions of the members in S to the first query.
ValuesOf(S) == {[query |-> 0, holder |-> x] : x \in S}

\* The sum of c when nothing below c is missing or counted twice.
Whole(c) == SetToBag(ValuesOf(Subtree(c)))

\* Values of different members add up to the values of both.
LEMMA Union ==
  ASSUME NEW S, NEW T, S \cap T = {}
  PROVE  SetToBag(ValuesOf(S)) (+) SetToBag(ValuesOf(T)) = SetToBag(ValuesOf(S \cup T))
<1> DEFINE A == ValuesOf(S)
           B == ValuesOf(T)
<1>1. A \cap B = {} /\ A \cup B = ValuesOf(S \cup T)
  BY DEF ValuesOf
<1> HIDE DEF A, B
<1>2. SetToBag(A) (+) SetToBag(B) = SetToBag(A \cup B)
  BY <1>1 DEF SetToBag, (+)
<1> QED
  BY <1>1, <1>2 DEF A, B

\* A member that has heard once from each of its children, and from each the
\* whole sum, makes the whole sum of its own subtree.
LEMMA AggregateWhole ==
  ASSUME NEW m \in Member, NEW received \in Seq(For(m)), Distinct(received),
         \A msg \in Range(received) : msg.data = Whole(msg.from),
         Children(m) \subseteq {msg.from : msg \in Range(received)}
  PROVE  aggregate(m, 0, received, 1).data = Whole(m)
<1> DEFINE X == DOMAIN received
           Below(s) == {m} \cup UNION {Subtree(received[i].from) : i \in s}
           G == [s \in SUBSET X |-> {SetToBag(ValuesOf(Below(s)))}]
           own == [query |-> 0, holder |-> m]
           base == [v \in {own} |-> 1]
<1>1. \A i \in X : received[i] \in For(m) /\ received[i] \in Range(received)
  BY LenProperties DEF Range
<1>2. ASSUME NEW i \in X
      PROVE  received[i].from \in Children(m) /\ received[i].data = Whole(received[i].from)
  <2>1. received[i].from \in Member /\ Parent(received[i].from) = m
    BY <1>1 DEF For, Sound, Message
  <2>2. m # Utility
    BY MembersAre DEF Utility
  <2> QED
    BY <1>1, <2>1, <2>2, Tree
<1>3. base \in G[{}]
  <2>1. Below({}) = {m}
    OBVIOUS
  <2>2. ValuesOf({m}) = {own}
    BY DEF ValuesOf
  <2>3. base = SetToBag({own})
    BY DEF SetToBag
  <2>4. G[{}] = {SetToBag(ValuesOf(Below({})))}
    OBVIOUS
  <2> HIDE DEF base, G, Below
  <2> QED
    BY <2>1, <2>2, <2>3, <2>4
<1>4. ASSUME NEW s \in SUBSET X, NEW i \in X \ s, NEW d \in G[s]
      PROVE  received[i].data (+) d \in G[s \cup {i}]
  <2> DEFINE c == received[i].from
  <2>1. c \in Children(m) /\ received[i].data = SetToBag(ValuesOf(Subtree(c)))
    BY <1>2 DEF Whole
  <2>2. d = SetToBag(ValuesOf(Below(s)))
    OBVIOUS
  <2>3. Subtree(c) \cap Below(s) = {}
    <3>1. ASSUME NEW j \in s PROVE Subtree(c) \cap Subtree(received[j].from) = {}
      <4>1. j \in X /\ j # i
        OBVIOUS
      <4>2. received[j].from # c
        BY <4>1 DEF Distinct
      <4>3. received[j].from \in Children(m)
        BY <1>2, <4>1
      <4> HIDE DEF c
      <4> QED
        BY <2>1, <4>2, <4>3, SubtreesApart
    <3>2. m \notin Subtree(c)
      <4>1. c \in Member /\ c > m /\ m \in Nat
        BY <2>1, Tree
      <4> HIDE DEF c
      <4> QED
        BY <4>1, SubtreeAbove
    <3> HIDE DEF c
    <3> QED
      BY <3>1, <3>2
  <2>4. Below(s \cup {i}) = Subtree(c) \cup Below(s)
    OBVIOUS
  <2>5. G[s \cup {i}] = {SetToBag(ValuesOf(Below(s \cup {i})))}
    OBVIOUS
  <2> HIDE DEF c, Below, G
  <2> QED
    BY <2>1, <2>2, <2>3, <2>4, <2>5, Union
<1>5. Merge(base, received) \in G[X]
  <2> HIDE DEF base, G
  <2> QED
    BY <1>3, <1>4, FoldStepByStep
<1>6. Below(X) = Subtree(m)
  <2>1. {received[i].from : i \in X} = Children(m)
    <3>1. Children(m) \subseteq {received[i].from : i \in X}
      BY DEF Range
    <3> QED
      BY <1>2, <3>1
  <2>2. Below(X) = {m} \cup UNION {Subtree(c) : c \in Children(m)}
    BY <2>1
  <2> QED
    BY <2>2, SubtreeSplit
<1>7. aggregate(m, 0, received, 1).data = Merge(base, received)
  BY DEF aggregate, Merge
<1>8. G[X] = {SetToBag(ValuesOf(Below(X)))}
  OBVIOUS
<1> HIDE DEF G, Below, base
<1> QED
  BY <1>5, <1>6, <1>7, <1>8 DEF Whole

------------------------------------------------------------------------------
(* The invariant of a member that waits. *)

\* The messages a member holds, and all that some member may still add.
Kept(m) == Range(future[m]) \cup Range(agg[m].received)
Anywhere == net \cup UNION {Kept(m) : m \in Member}

\* Types, and where messages are: a member holds only messages for it.
TypeInv ==
  /\ query \in [Member -> Int] /\ issued \in Int /\ crashed \subseteq Member
  /\ phase \in [Member -> {"OVERLAY", "AGGREGATE", "IDLE"}]
  /\ \A m \in Member : query[m] >= -1 /\ (phase[m] # "IDLE" => query[m] >= 0)
  /\ net \cup utility \subseteq Sound
  /\ agg \in [Member -> [needed : Nat, received : Seq(Sound)]]
  /\ future \in [Member -> Seq(Sound)]
  /\ \A m \in Member : agg[m].received \in Seq(For(m)) /\ future[m] \in Seq(For(m))

\* No member is past the overlay phase of a query that a live member has not
\* started.
Together ==
  \A m \in Member : phase[m] # "OVERLAY" => \A p \in Member \ crashed : query[p] >= query[m]

\* A member that is aggregating still waits for some child it counts on.
Waits ==
  \A m \in Member : phase[m] = "AGGREGATE" =>
    /\ Len(agg[m].received) < agg[m].needed
    /\ \E failed \in SUBSET crashed : agg[m].needed = Cardinality(Children(m) \ failed)

\* Among msgs is the answer of c to the query m is at.
Told(m, c, msgs) == \E msg \in msgs : msg.from = c /\ msg.query = query[m]

\* A child that is done with the query its parent is at has told the parent,
\* or the message is still in flight.
Reports ==
  \A m \in Member \ crashed : \A c \in Children(m) :
    query[c] = query[m] /\ query[m] # -1 /\ phase[c] = "IDLE" =>
      /\ phase[m] = "OVERLAY" => Told(m, c, net \cup Range(future[m]))
      /\ phase[m] = "AGGREGATE" => Told(m, c, net \cup Range(agg[m].received))

\* The inductive invariant behind StuckOnlyBelowCrash and OnlySubtreeSummed.
StuckInv == TypeInv /\ Together /\ Waits /\ Reports

------------------------------------------------------------------------------
(* What a member does when it starts to aggregate or handles a message. *)

\* What a member does when it starts to aggregate or handles a message: it now
\* has handled received, sends out and leaves wire in flight. The steps of both
\* actions are reduced to this one.
Advance(m, s, received, out, wire) ==
  /\ m \in Member \ crashed
  /\ phase[m] # "IDLE"
  /\ s \in [needed : Nat, received : Seq(For(m))]
  /\ s.received = received
  /\ \A msg \in out : /\ msg \in Sound /\ msg.from = m /\ msg.query = query[m]
                      /\ Adds(msg, m, query[m], s.needed, received)
  /\ out = {} => Len(s.received) < s.needed
  /\ \E failed \in SUBSET crashed : s.needed = Cardinality(Children(m) \ failed)
  /\ wire \subseteq net
  /\ \A msg \in net \ wire : Parent(msg.from) = m
  /\ Send(m, out, wire)
  /\ agg' = [agg EXCEPT ![m] = s]
  /\ UNCHANGED <<query, issued, crashed>>

\* What a member sends that waits for nobody.
LEMMA LeafSound ==
  ASSUME TypeInv, NEW m \in Member
  PROVE  LET sum == aggregate(m, query[m], <<>>, 1)
         IN sum \in Sound /\ sum.from = m /\ sum.query = query[m]
<1> DEFINE q == query[m]
           none == <<>>
           one == 1
<1>1. q \in Int /\ none \in Seq(For(m)) /\ one \in Nat \ {0}
  BY DEF TypeInv
<1> HIDE DEF q, none, one
<1>2. /\ aggregate(m, q, none, one) \in Sound
      /\ aggregate(m, q, none, one).from = m
      /\ aggregate(m, q, none, one).query = q
  BY <1>1, AggregateSound
<1> QED
  BY <1>2 DEF q, none, one

\* A record of the phase with other messages.
LEMMA Refill ==
  ASSUME NEW m, NEW s \in [needed : Nat, received : Seq(For(m))], NEW x
  PROVE  [s EXCEPT !.received = x] = [needed |-> s.needed, received |-> x]
OBVIOUS

\* start_aggregate_phase is an advance, which sends at once when there are no
\* children to wait for and else handles the early messages.
LEMMA StartAdvances ==
  ASSUME StuckInv, NEW m \in Member, StartAggregatePhase(m)
  PROVE  /\ phase[m] = "OVERLAY" /\ \A p \in Member \ crashed : query[p] >= query[m]
         /\ \E s, out :
              \/ /\ Advance(m, s, <<>>, out, net) /\ out # {} /\ future' = future
              \/ /\ Advance(m, s, future[m], out, net)
                 /\ future' = [future EXCEPT ![m] = <<>>]
<1>1. /\ m \in Member \ crashed /\ phase[m] = "OVERLAY"
      /\ \A p \in Member \ crashed : query[p] >= query[m]
      /\ UNCHANGED <<query, issued, crashed>>
  BY DEF StartAggregatePhase
<1>2. PICK failed \in SUBSET crashed :
       LET s == initialize(m, failed)
       IN \/ /\ s.needed = 0
             /\ Send(m, {aggregate(m, query[m], <<>>, 1)}, net)
             /\ agg' = [agg EXCEPT ![m] = s]
             /\ future' = future
          \/ /\ s.needed > 0
             /\ Send(m, Aggregates(m, query[m], s, future[m]), net)
             /\ agg' = [agg EXCEPT ![m] = [s EXCEPT !.received = future[m]]]
             /\ future' = [future EXCEPT ![m] = <<>>]
  BY DEF StartAggregatePhase
<1> DEFINE s == initialize(m, failed)
<1>3. s = [needed |-> Cardinality(Children(m) \ failed), received |-> <<>>]
  BY DEF initialize
<1>4. Cardinality(Children(m) \ failed) \in Nat
  <2>1. IsFiniteSet(Children(m) \ failed)
    BY Tree, FS_Subset
  <2> QED
    BY <2>1, FS_CardinalityType
<1>5. query[m] \in Int /\ future[m] \in Seq(For(m)) /\ <<>> \in Seq(For(m))
  BY EmptySeq DEF StuckInv, TypeInv
<1>6. CASE s.needed = 0
  <2> DEFINE out == {aggregate(m, query[m], <<>>, 1)}
  <2>1. \A msg \in out : msg \in Sound /\ msg.from = m /\ msg.query = query[m]
    BY LeafSound DEF StuckInv
  <2>2. Send(m, out, net) /\ agg' = [agg EXCEPT ![m] = s] /\ future' = future
    BY <1>2, <1>6
  <2>3. out # {}
    OBVIOUS
  <2>4. s \in [needed : Nat, received : Seq(For(m))] /\ s.received = <<>>
    BY <1>3, <1>4, <1>5
  <2>5. \E f \in SUBSET crashed : s.needed = Cardinality(Children(m) \ f)
    <3>1. s.needed = Cardinality(Children(m) \ failed)
      BY <1>3
    <3> HIDE DEF s
    <3> QED
      BY <3>1
  <2>7. \A msg \in out : Adds(msg, m, query[m], s.needed, <<>>)
    <3>1. Len(<<>>) = 0 /\ 0 \in 0..0 /\ 0 - 0 + 1 = 1 /\ SubSeq(<<>>, 1, 0) = <<>>
      OBVIOUS
    <3>2. aggregate(m, query[m], SubSeq(<<>>, 1, 0), 0 - 0 + 1) = aggregate(m, query[m], <<>>, 1)
      BY <3>1
    <3>3. Adds(aggregate(m, query[m], <<>>, 1), m, query[m], 0, <<>>)
      BY <3>1, <3>2, Zenon DEF Adds
    <3> QED
      BY <1>6, <3>3
  <2> HIDE DEF out, s
  <2>6. Advance(m, s, <<>>, out, net)
    BY <1>1, <2>7, <2>1, <2>2, <2>3, <2>4, <2>5 DEF Advance
  <2> QED
    BY <1>1, <2>2, <2>3, <2>6
<1>7. CASE s.needed # 0
  <2> DEFINE out == Aggregates(m, query[m], s, future[m])
             t == [needed |-> s.needed, received |-> future[m]]
  <2>1. s \in [needed : Nat, received : Seq(For(m))] /\ Len(s.received) = 0 /\ s.needed \in Nat
    BY <1>3, <1>4, <1>5, EmptySeq
  <2>2. s.received \o future[m] = future[m]
    BY <1>3, <1>5, ConcatEmptySeq
  <2>3. /\ \A msg \in out : /\ msg \in Sound /\ msg.from = m /\ msg.query = query[m]
                            /\ Adds(msg, m, query[m], s.needed, future[m])
        /\ out = {} => Len(future[m]) < s.needed
    <3>1. Len(s.received) < s.needed
      BY <1>7, <2>1
    <3> DEFINE q == query[m]
               incoming == future[m]
    <3>2. q \in Int /\ incoming \in Seq(For(m))
      BY <1>5
    <3> HIDE DEF q, incoming, s
    <3>3. /\ \A msg \in Aggregates(m, q, s, incoming) :
               /\ msg \in Sound /\ msg.from = m /\ msg.query = q
               /\ Adds(msg, m, q, s.needed, s.received \o incoming)
          /\ Aggregates(m, q, s, incoming) = {} => Len(s.received \o incoming) < s.needed
      BY <2>1, <3>1, <3>2, AggregatesSound
    <3> QED
      BY <2>2, <3>3 DEF q, incoming
  <2>4. /\ Send(m, out, net) /\ agg' = [agg EXCEPT ![m] = [s EXCEPT !.received = future[m]]]
        /\ future' = [future EXCEPT ![m] = <<>>]
    BY <1>2, <1>7
  <2>5. [s EXCEPT !.received = future[m]] = t
    BY <2>1, Refill, Zenon
  <2> HIDE DEF out, s
  <2>6. Advance(m, t, future[m], out, net)
    BY <1>1, <1>3, <1>5, <2>1, <2>3, <2>4, <2>5 DEF Advance
  <2> QED
    BY <1>1, <2>4, <2>6
<1> QED
  BY <1>6, <1>7

\* Handling a message is an advance by that message.
LEMMA HandleAdvances ==
  ASSUME StuckInv, NEW m \in Member, HandleAggregate(m)
  PROVE  /\ phase[m] = "AGGREGATE" /\ future' = future
         /\ \E s, out : \E msg \in net :
              /\ Parent(msg.from) = m
              /\ Advance(m, s, Append(agg[m].received, msg), out, net \ {msg})
<1>1. /\ m \in Member \ crashed /\ phase[m] = "AGGREGATE"
      /\ UNCHANGED <<query, future, issued, crashed>>
  BY DEF HandleAggregate
<1>2. PICK msg \in net :
       /\ Parent(msg.from) = m
       /\ Send(m, Aggregates(m, query[m], agg[m], <<msg>>), net \ {msg})
       /\ agg' = [agg EXCEPT ![m] = [agg[m] EXCEPT !.received = Append(agg[m].received, msg)]]
  BY DEF HandleAggregate
<1> DEFINE s == agg[m]
           out == Aggregates(m, query[m], s, <<msg>>)
           t == [needed |-> s.needed, received |-> Append(s.received, msg)]
<1>3. /\ query[m] \in Int /\ s \in [needed : Nat, received : Seq(For(m))]
      /\ s.received \in Seq(For(m))
      /\ msg \in For(m)
  BY <1>2 DEF StuckInv, TypeInv, For
<1>4. /\ Len(s.received) < s.needed
      /\ \E failed \in SUBSET crashed : s.needed = Cardinality(Children(m) \ failed)
  BY <1>1 DEF StuckInv, Waits
<1>5. [s EXCEPT !.received = Append(s.received, msg)] = t
  BY <1>3, Refill, Zenon
<1>6. t \in [needed : Nat, received : Seq(For(m))]
      /\ s.received \o <<msg>> = Append(s.received, msg)
  BY <1>3
<1>7. <<msg>> \in Seq(For(m))
  BY <1>3
<1>8. /\ \A x \in out : /\ x \in Sound /\ x.from = m /\ x.query = query[m]
                        /\ Adds(x, m, query[m], t.needed, t.received)
      /\ out = {} => Len(t.received) < t.needed
  <2>1. /\ \A x \in out : /\ x \in Sound /\ x.from = m /\ x.query = query[m]
                          /\ Adds(x, m, query[m], s.needed, s.received \o <<msg>>)
        /\ out = {} => Len(s.received \o <<msg>>) < s.needed
    BY <1>3, <1>4, <1>7, AggregatesSound, Zenon
  <2> QED
    BY <1>6, <2>1
<1>9. Send(m, out, net \ {msg}) /\ agg' = [agg EXCEPT ![m] = t]
  BY <1>2, <1>5
<1>10. t.received = Append(agg[m].received, msg) /\ t.needed = s.needed
  OBVIOUS
<1> HIDE DEF out, s, t
<1>11. Advance(m, t, Append(agg[m].received, msg), out, net \ {msg})
  BY <1>1, <1>2, <1>4, <1>6, <1>8, <1>9, <1>10 DEF Advance
<1> QED
  BY <1>1, <1>2, <1>11

------------------------------------------------------------------------------
(* The invariant is kept by every step. *)

\* The invariant holds before the first query.
LEMMA StuckInit == Init => StuckInv
<1> SUFFICES ASSUME Init PROVE StuckInv
  OBVIOUS
<1>1. TypeInv
  <2>1. \A m \in Member : <<>> \in Seq(For(m)) /\ <<>> \in Seq(Sound)
    OBVIOUS
  <2>2. Fresh \in [needed : Nat, received : Seq(Sound)] /\ Fresh.received = <<>>
    BY DEF Fresh
  <2> QED
    BY <2>1, <2>2 DEF Init, TypeInv
<1>2. Together
  BY DEF Init, Together
<1>3. Waits
  BY DEF Init, Waits
<1>4. Reports
  BY DEF Init, Reports
<1> QED
  BY <1>1, <1>2, <1>3, <1>4 DEF StuckInv

\* What an advance leaves true: the types, ...
LEMMA AdvanceTypes ==
  ASSUME StuckInv, NEW m, NEW s, NEW received, NEW out, NEW wire,
         Advance(m, s, received, out, wire),
         \/ future' = future
         \/ future' = [future EXCEPT ![m] = <<>>]
  PROVE  TypeInv'
<1>1. /\ m \in Member \ crashed
      /\ query' = query /\ issued' = issued /\ crashed' = crashed
      /\ agg' = [agg EXCEPT ![m] = s]
      /\ phase' = [phase EXCEPT ![m] = IF out = {} THEN "AGGREGATE" ELSE "IDLE"]
      /\ phase[m] # "IDLE"
  BY DEF Advance, Send
<1>2. net' \cup utility' \subseteq Sound
  BY DEF Advance, Send, StuckInv, TypeInv
<1>3. s \in [needed : Nat, received : Seq(For(m))]
  BY DEF Advance
<1>4. s \in [needed : Nat, received : Seq(Sound)] /\ s.received \in Seq(For(m))
  <2>1. For(m) \subseteq Sound
    BY DEF For
  <2> QED
    BY <1>3, <2>1
<1>5. /\ agg' \in [Member -> [needed : Nat, received : Seq(Sound)]]
      /\ \A k \in Member : agg'[k].received \in Seq(For(k))
  <2>1. \A k \in Member : agg'[k] = IF k = m THEN s ELSE agg[k]
    BY <1>1 DEF StuckInv, TypeInv
  <2>2. agg' \in [Member -> [needed : Nat, received : Seq(Sound)]]
    BY <1>1, <1>4 DEF StuckInv, TypeInv
  <2>3. \A k \in Member : agg'[k].received \in Seq(For(k))
    BY <1>4, <2>1 DEF StuckInv, TypeInv
  <2> QED
    BY <2>2, <2>3
<1>6. /\ future' \in [Member -> Seq(Sound)]
      /\ \A k \in Member : future'[k] \in Seq(For(k))
  <2>1. /\ future \in [Member -> Seq(Sound)]
        /\ \A k \in Member : future[k] \in Seq(For(k))
    BY DEF StuckInv, TypeInv
  <2>2. CASE future' = future
    BY <2>1, <2>2
  <2>3. CASE future' = [future EXCEPT ![m] = <<>>]
    <3>1. \A k \in Member : future'[k] = IF k = m THEN <<>> ELSE future[k]
      BY <2>1, <2>3
    <3>2. \A k \in Member : <<>> \in Seq(For(k)) /\ <<>> \in Seq(Sound)
      OBVIOUS
    <3>3. future' \in [Member -> Seq(Sound)]
      BY <2>1, <2>3, <3>2
    <3> QED
      BY <2>1, <3>1, <3>2, <3>3
  <2> QED
    BY <2>2, <2>3
<1>7. /\ phase' \in [Member -> {"OVERLAY", "AGGREGATE", "IDLE"}]
      /\ \A k \in Member : phase'[k] # "IDLE" => query[k] >= 0
  BY <1>1 DEF StuckInv, TypeInv
<1> QED
  BY <1>1, <1>2, <1>5, <1>6, <1>7 DEF StuckInv, TypeInv

\* ... that nobody is ahead of a live member, ...
LEMMA AdvanceTogether ==
  ASSUME StuckInv, NEW m, NEW s, NEW received, NEW out, NEW wire,
         Advance(m, s, received, out, wire),
         \A p \in Member \ crashed : query[p] >= query[m]
  PROVE  Together' /\ Waits'
<1>1. /\ m \in Member \ crashed
      /\ query' = query /\ issued' = issued /\ crashed' = crashed
      /\ agg' = [agg EXCEPT ![m] = s]
      /\ phase' = [phase EXCEPT ![m] = IF out = {} THEN "AGGREGATE" ELSE "IDLE"]
  BY DEF Advance, Send
<1>2. Together'
  BY <1>1 DEF StuckInv, TypeInv, Together
<1>3. /\ out = {} => Len(s.received) < s.needed
      /\ \E failed \in SUBSET crashed : s.needed = Cardinality(Children(m) \ failed)
  BY DEF Advance
<1>4. Waits'
  <2> SUFFICES ASSUME NEW k \in Member, phase'[k] = "AGGREGATE"
               PROVE  /\ Len(agg'[k].received) < agg'[k].needed
                      /\ \E failed \in SUBSET crashed :
                           agg'[k].needed = Cardinality(Children(k) \ failed)
    BY <1>1 DEF Waits
  <2>1. CASE k = m
    <3>1. agg'[k] = s /\ out = {}
      BY <1>1, <2>1 DEF StuckInv, TypeInv
    <3> QED
      BY <1>3, <2>1, <3>1
  <2>2. CASE k # m
    <3>1. agg'[k] = agg[k] /\ phase[k] = "AGGREGATE"
      BY <1>1, <2>2 DEF StuckInv, TypeInv
    <3> QED
      BY <3>1 DEF StuckInv, Waits
  <2> QED
    BY <2>1, <2>2
<1> QED
  BY <1>2, <1>4

\* ... and the reports, of the member's own children and to its parent.
LEMMA AdvanceReports ==
  ASSUME StuckInv, NEW m, NEW s, NEW received, NEW out, NEW wire,
         Advance(m, s, received, out, wire),
         \/ future' = future
         \/ future' = [future EXCEPT ![m] = <<>>],
         \A c \in Children(m) :
           query[c] = query[m] /\ phase[c] = "IDLE" /\ out = {}
             => Told(m, c, wire \cup Range(received))
  PROVE  Reports'
<1>1. /\ m \in Member \ crashed
      /\ query' = query /\ issued' = issued /\ crashed' = crashed
      /\ agg' = [agg EXCEPT ![m] = s]
      /\ phase' = [phase EXCEPT ![m] = IF out = {} THEN "AGGREGATE" ELSE "IDLE"]
      /\ net' = wire \cup (IF Parent(m) \in crashed \cup {Utility} THEN {} ELSE out)
      /\ s.received = received /\ wire \subseteq net
      /\ \A msg \in net \ wire : Parent(msg.from) = m
      /\ \A msg \in out : msg.from = m /\ msg.query = query[m]
  BY DEF Advance, Send
<1>2. StuckInv
  OBVIOUS
<1> SUFFICES ASSUME NEW k \in Member \ crashed, NEW c \in Children(k),
                    query[c] = query[k], query[k] # -1, phase'[c] = "IDLE"
             PROVE  /\ phase'[k] = "OVERLAY" => Told(k, c, net' \cup Range(future'[k]))
                    /\ phase'[k] = "AGGREGATE" => Told(k, c, net' \cup Range(agg'[k].received))
  BY <1>1 DEF Reports, Told
<1>3. c \in Member /\ Parent(c) = k /\ c # k
  BY Tree
<1>4. CASE k = m
  <2>1. phase'[k] # "OVERLAY" /\ (phase'[k] = "AGGREGATE" => out = {}) /\ agg'[k] = s
    BY <1>1, <1>4 DEF StuckInv, TypeInv
  <2>2. phase[c] = "IDLE"
    BY <1>1, <1>3, <1>4 DEF StuckInv, TypeInv
  <2>3. phase'[k] = "AGGREGATE" => Told(k, c, wire \cup Range(received))
    BY <1>4, <2>1, <2>2
  <2> QED
    BY <1>1, <2>1, <2>3 DEF Told
<1>5. CASE k # m /\ c = m
  <2>1. out # {} /\ phase'[k] = phase[k]
    BY <1>1, <1>3, <1>5 DEF StuckInv, TypeInv
  <2>2. Parent(m) \notin crashed \cup {Utility}
    BY <1>3, <1>5, MembersAre DEF Utility
  <2>3. PICK msg \in out : TRUE
    BY <2>1
  <2>4. msg \in net' /\ msg.from = c /\ msg.query = query[k]
    BY <1>1, <1>5, <2>2
  <2> QED
    BY <2>4 DEF Told
<1>6. CASE k # m /\ c # m
  <2>1. phase[c] = "IDLE" /\ phase'[k] = phase[k] /\ agg'[k] = agg[k] /\ future'[k] = future[k]
    BY <1>1, <1>3, <1>6 DEF StuckInv, TypeInv
  <2>2. \A msg \in net : msg.from = c => msg \in net'
    BY <1>1, <1>3, <1>6
  <2>3. /\ phase[k] = "OVERLAY" => Told(k, c, net \cup Range(future[k]))
        /\ phase[k] = "AGGREGATE" => Told(k, c, net \cup Range(agg[k].received))
    BY <2>1 DEF StuckInv, Reports
  <2> QED
    BY <2>1, <2>2, <2>3 DEF Told
<1> QED
  BY <1>4, <1>5, <1>6

\* The invariant is kept when a member starts to aggregate, ...
LEMMA StartAggregateKeeps ==
  ASSUME StuckInv, NEW m \in Member, StartAggregatePhase(m)
  PROVE  StuckInv'
<1>1. phase[m] = "OVERLAY" /\ \A p \in Member \ crashed : query[p] >= query[m]
  BY StartAdvances
<1>2. PICK s, out :
        \/ /\ Advance(m, s, <<>>, out, net) /\ out # {} /\ future' = future
        \/ /\ Advance(m, s, future[m], out, net)
           /\ future' = [future EXCEPT ![m] = <<>>]
  BY StartAdvances
<1>3. CASE Advance(m, s, <<>>, out, net) /\ out # {} /\ future' = future
  <2>1. TypeInv'
    BY <1>3, AdvanceTypes
  <2>2. Together' /\ Waits'
    BY <1>1, <1>3, AdvanceTogether
  <2>3. Reports'
    BY <1>3, AdvanceReports
  <2> QED
    BY <2>1, <2>2, <2>3 DEF StuckInv
<1>4. CASE Advance(m, s, future[m], out, net) /\ future' = [future EXCEPT ![m] = <<>>]
  <2>1. TypeInv'
    BY <1>4, AdvanceTypes
  <2>2. Together' /\ Waits'
    BY <1>1, <1>4, AdvanceTogether
  <2>3. m \in Member \ crashed /\ query[m] # -1
    <3>1. m \in Member \ crashed
      BY <1>4 DEF Advance
    <3>2. query[m] \in Int /\ query[m] >= 0
      BY <1>1 DEF StuckInv, TypeInv
    <3> QED
      BY <3>1, <3>2
  <2>4. \A c \in Children(m) :
           query[c] = query[m] /\ phase[c] = "IDLE" => Told(m, c, net \cup Range(future[m]))
    BY <1>1, <2>3 DEF StuckInv, Reports
  <2>5. Reports'
    BY <1>4, <2>4, AdvanceReports
  <2> QED
    BY <2>1, <2>2, <2>5 DEF StuckInv
<1> QED
  BY <1>2, <1>3, <1>4

\* ... when it handles a message, ...
LEMMA HandleKeeps ==
  ASSUME StuckInv, NEW m \in Member, HandleAggregate(m)
  PROVE  StuckInv'
<1>1. phase[m] = "AGGREGATE" /\ future' = future
  BY HandleAdvances
<1>2. PICK s, out : \E msg \in net :
              /\ Parent(msg.from) = m
              /\ Advance(m, s, Append(agg[m].received, msg), out, net \ {msg})
  BY HandleAdvances
<1>0. PICK msg \in net : 
              /\ Parent(msg.from) = m
              /\ Advance(m, s, Append(agg[m].received, msg), out, net \ {msg})
  BY <1>2
<1>3. TypeInv'
  BY <1>0, <1>1, AdvanceTypes
<1>4. \A p \in Member \ crashed : query[p] >= query[m]
  BY <1>1 DEF StuckInv, Together
<1>5. Together' /\ Waits'
  BY <1>0, <1>4, AdvanceTogether
<1>6. m \in Member \ crashed /\ query[m] # -1
  <2>1. m \in Member \ crashed
    BY <1>0 DEF Advance
  <2>2. query[m] \in Int /\ query[m] >= 0
    BY <1>1 DEF StuckInv, TypeInv
  <2> QED
    BY <2>1, <2>2
<1>7. Range(Append(agg[m].received, msg)) = Range(agg[m].received) \cup {msg}
  <2>1. agg[m].received \in Seq(Sound) /\ msg \in Sound
    BY DEF StuckInv, TypeInv
  <2> QED
    BY <2>1, RangeOfAppend
<1>8. \A c \in Children(m) :
           query[c] = query[m] /\ phase[c] = "IDLE" => Told(m, c, net \cup Range(agg[m].received))
  BY <1>1, <1>6 DEF StuckInv, Reports
<1>9. \A c \in Children(m) :
           query[c] = query[m] /\ phase[c] = "IDLE"
             => Told(m, c, (net \ {msg}) \cup Range(Append(agg[m].received, msg)))
  BY <1>7, <1>8 DEF Told
<1>10. Reports'
  BY <1>0, <1>1, <1>9, AdvanceReports
<1> QED
  BY <1>3, <1>5, <1>10 DEF StuckInv

\* ... when it starts a query, which drops what it held, ...
LEMMA StartQueryKeeps ==
  ASSUME StuckInv, NEW m \in Member, StartQuery(m)
  PROVE  StuckInv'
<1>1. /\ m \in Member \ crashed
      /\ query' = [query EXCEPT ![m] = query[m] + 1]
      /\ phase' = [phase EXCEPT ![m] = "OVERLAY"]
      /\ agg' = [agg EXCEPT ![m] = Fresh]
      /\ UNCHANGED <<future, net, utility, issued, crashed>>
  BY DEF StartQuery
<1>2. /\ query \in [Member -> Int] /\ phase \in [Member -> {"OVERLAY", "AGGREGATE", "IDLE"}]
      /\ DOMAIN agg = Member /\ crashed \subseteq Member
  BY DEF StuckInv, TypeInv
<1>3. \A k \in Member : /\ query'[k] = (IF k = m THEN query[m] + 1 ELSE query[k])
                        /\ phase'[k] = (IF k = m THEN "OVERLAY" ELSE phase[k])
                        /\ agg'[k] = (IF k = m THEN Fresh ELSE agg[k])
  BY <1>1, <1>2
<1>4. Together'
  <2> SUFFICES ASSUME NEW k \in Member, phase'[k] # "OVERLAY", NEW p \in Member \ crashed
               PROVE  query'[p] >= query'[k]
    BY <1>1 DEF Together
  <2>1. k # m /\ query'[k] = query[k] /\ phase[k] # "OVERLAY"
    BY <1>3
  <2>2. query[p] >= query[k]
    BY <2>1 DEF StuckInv, Together
  <2> QED
    BY <1>2, <1>3, <2>1, <2>2
<1>5. TypeInv'
  <2>1. Fresh \in [needed : Nat, received : Seq(Sound)] /\ Fresh.received \in Seq(For(m))
    BY DEF Fresh
  <2>2. query' \in [Member -> Int] /\ phase' \in [Member -> {"OVERLAY", "AGGREGATE", "IDLE"}]
    BY <1>1, <1>2
  <2>3. \A k \in Member : query'[k] >= -1 /\ (phase'[k] # "IDLE" => query'[k] >= 0)
    <3> TAKE k \in Member
    <3>1. query[k] \in Int /\ query[k] >= -1 /\ (phase[k] # "IDLE" => query[k] >= 0)
      BY DEF StuckInv, TypeInv
    <3> QED
      BY <1>3, <3>1
  <2>4. agg' \in [Member -> [needed : Nat, received : Seq(Sound)]]
    BY <1>1, <2>1 DEF StuckInv, TypeInv
  <2>5. \A k \in Member : agg'[k].received \in Seq(For(k)) /\ future'[k] \in Seq(For(k))
    <3> TAKE k \in Member
    <3>1. agg[k].received \in Seq(For(k)) /\ future[k] \in Seq(For(k))
      BY DEF StuckInv, TypeInv
    <3> QED
      BY <1>1, <1>3, <2>1, <3>1
  <2>6. /\ issued' \in Int /\ crashed' \subseteq Member
        /\ net' \cup utility' \subseteq Sound /\ future' \in [Member -> Seq(Sound)]
    BY <1>1 DEF StuckInv, TypeInv
  <2> QED
    BY <2>2, <2>3, <2>4, <2>5, <2>6 DEF TypeInv
<1>6. Waits'
  <2> SUFFICES ASSUME NEW k \in Member, phase'[k] = "AGGREGATE"
               PROVE  /\ Len(agg'[k].received) < agg'[k].needed
                      /\ \E failed \in SUBSET crashed' :
                           agg'[k].needed = Cardinality(Children(k) \ failed)
    BY DEF Waits
  <2>1. phase[k] = "AGGREGATE" /\ agg'[k] = agg[k] /\ crashed' = crashed
    BY <1>1, <1>3
  <2>2. /\ Len(agg[k].received) < agg[k].needed
        /\ \E failed \in SUBSET crashed : agg[k].needed = Cardinality(Children(k) \ failed)
    BY <2>1 DEF StuckInv, Waits
  <2> QED
    BY <2>1, <2>2
<1>7. Reports'
  <2> SUFFICES ASSUME NEW k \in Member \ crashed, NEW c \in Children(k),
                      query'[c] = query'[k], query'[k] # -1, phase'[c] = "IDLE"
               PROVE  /\ phase'[k] = "OVERLAY" => Told(k, c, net \cup Range(future[k]))'
                      /\ phase'[k] = "AGGREGATE" => Told(k, c, net \cup Range(agg[k].received))'
    BY <1>1 DEF Reports
  <2>1. c \in Member /\ k \in Member /\ c # m /\ query'[c] = query[c] /\ phase[c] = "IDLE"
    BY <1>3, Tree
  <2>2. k # m
    <3> SUFFICES ASSUME k = m PROVE FALSE
      OBVIOUS
    <3>1. query[c] = query[m] + 1
      BY <1>3, <2>1
    <3>2. query[m] >= query[c]
      BY <1>1, <2>1 DEF StuckInv, Together
    <3> QED
      BY <1>1, <1>2, <3>1, <3>2
  <2>3. query'[k] = query[k] /\ phase'[k] = phase[k] /\ agg'[k] = agg[k]
    BY <1>3, <2>1, <2>2
  <2>4. /\ phase[k] = "OVERLAY" => Told(k, c, net \cup Range(future[k]))
        /\ phase[k] = "AGGREGATE" => Told(k, c, net \cup Range(agg[k].received))
    BY <2>1, <2>3 DEF StuckInv, Reports
  <2> QED
    BY <1>1, <2>3, <2>4 DEF Told
<1> QED
  BY <1>4, <1>5, <1>6, <1>7 DEF StuckInv

\* ... when it keeps an early message, ...
LEMMA BufferKeeps ==
  ASSUME StuckInv, NEW m \in Member, BufferAggregate(m)
  PROVE  StuckInv'
<1>1. /\ m \in Member \ crashed /\ phase[m] # "AGGREGATE"
      /\ UNCHANGED <<query, phase, agg, utility, issued, crashed>>
  BY DEF BufferAggregate
<1>2. PICK msg \in net :
       /\ Parent(msg.from) = m
       /\ future' = IF msg.query = query[m]
                    THEN [future EXCEPT ![m] = Append(future[m], msg)]
                    ELSE future
       /\ net' = net \ {msg}
  BY DEF BufferAggregate
<1>3. /\ future \in [Member -> Seq(Sound)] /\ \A k \in Member : future[k] \in Seq(For(k))
      /\ msg \in For(m) /\ msg \in Sound
  BY <1>2 DEF StuckInv, TypeInv, For
<1>4. future' \in [Member -> Seq(Sound)] /\ \A k \in Member : future'[k] \in Seq(For(k))
  <2>1. Append(future[m], msg) \in Seq(Sound) /\ Append(future[m], msg) \in Seq(For(m))
    BY <1>3, AppendProperties
  <2> QED
    BY <1>2, <1>3, <2>1
<1>5. TypeInv'
  BY <1>1, <1>2, <1>4 DEF StuckInv, TypeInv
<1>6. Together' /\ Waits'
  BY <1>1 DEF StuckInv, Together, Waits
<1>7. \A k \in Member : k # m => future'[k] = future[k]
  BY <1>2, <1>3
<1>8. /\ Range(future[m]) \subseteq Range(future'[m])
      /\ msg.query = query[m] => msg \in Range(future'[m])
  <2>1. Range(Append(future[m], msg)) = Range(future[m]) \cup {msg}
    BY <1>3, RangeOfAppend
  <2> QED
    BY <1>2, <1>3, <2>1
<1>9. Reports'
  <2> SUFFICES ASSUME NEW k \in Member \ crashed, NEW c \in Children(k),
                      query[c] = query[k], query[k] # -1, phase[c] = "IDLE"
               PROVE  /\ phase[k] = "OVERLAY" => Told(k, c, net' \cup Range(future'[k]))
                      /\ phase[k] = "AGGREGATE" => Told(k, c, net' \cup Range(agg[k].received))
    BY <1>1 DEF Reports, Told
  <2>1. /\ phase[k] = "OVERLAY" => Told(k, c, net \cup Range(future[k]))
        /\ phase[k] = "AGGREGATE" => Told(k, c, net \cup Range(agg[k].received))
    BY DEF StuckInv, Reports
  <2>2. CASE k = m
    BY <1>1, <1>2, <1>8, <2>1, <2>2 DEF Told
  <2>3. CASE k # m
    <3>1. Parent(c) = k /\ k \in Member
      BY Tree
    <3>2. \A x \in net : x.from = c => x \in net'
      BY <1>2, <2>3, <3>1
    <3> QED
      BY <1>7, <2>1, <2>3, <3>2 DEF Told
  <2> QED
    BY <2>2, <2>3
<1> QED
  BY <1>5, <1>6, <1>9 DEF StuckInv

\* ... when it crashes, ...
LEMMA CrashKeeps ==
  ASSUME StuckInv, NEW m \in Member, Crash(m)
  PROVE  StuckInv'
<1>1. /\ crashed' = crashed \cup {m}
      /\ net' = {msg \in net : Parent(msg.from) # m}
      /\ UNCHANGED <<query, phase, agg, future, utility, issued>>
  BY DEF Crash, memberVars
<1>2. TypeInv'
  BY <1>1 DEF StuckInv, TypeInv
<1>3. Together'
  BY <1>1 DEF StuckInv, Together
<1>4. Waits'
  <2>1. SUBSET crashed \subseteq SUBSET crashed'
    BY <1>1
  <2> QED
    BY <1>1, <2>1 DEF StuckInv, Waits
<1>5. Reports'
  <2> SUFFICES ASSUME NEW k \in Member \ crashed', NEW c \in Children(k),
                      query[c] = query[k], query[k] # -1, phase[c] = "IDLE"
               PROVE  /\ phase[k] = "OVERLAY" => Told(k, c, net' \cup Range(future[k]))
                      /\ phase[k] = "AGGREGATE" => Told(k, c, net' \cup Range(agg[k].received))
    BY <1>1 DEF Reports, Told
  <2>1. k \in Member \ crashed /\ k # m
    BY <1>1
  <2>2. /\ phase[k] = "OVERLAY" => Told(k, c, net \cup Range(future[k]))
        /\ phase[k] = "AGGREGATE" => Told(k, c, net \cup Range(agg[k].received))
    BY <2>1 DEF StuckInv, Reports
  <2>3. Parent(c) = k
    BY <2>1, Tree
  <2>4. \A x \in net : x.from = c => x \in net'
    BY <1>1, <2>1, <2>3
  <2> QED
    BY <2>2, <2>4 DEF Told
<1> QED
  BY <1>2, <1>3, <1>4, <1>5 DEF StuckInv

\* ... and when the utility sends out a query.
LEMMA OthersKeep ==
  ASSUME StuckInv, UNCHANGED <<query, phase, agg, future, net, utility, crashed>>, issued' \in Int
  PROVE  StuckInv'
<1>1. TypeInv'
  BY DEF StuckInv, TypeInv
<1>2. Together'
  BY DEF StuckInv, Together
<1>3. Waits'
  BY DEF StuckInv, Waits
<1>4. Reports'
  BY DEF StuckInv, Reports, Told
<1> QED
  BY <1>1, <1>2, <1>3, <1>4 DEF StuckInv

\* The invariant is inductive.
LEMMA StuckNext == StuckInv /\ [Next]_vars => StuckInv'
<1> SUFFICES ASSUME StuckInv, [Next]_vars PROVE StuckInv'
  OBVIOUS
<1>1. CASE IssueQuery
  <2>1. UNCHANGED <<query, phase, agg, future, net, utility, crashed>>
    BY <1>1 DEF IssueQuery, memberVars
  <2>2. issued' \in Int
    BY <1>1 DEF IssueQuery, StuckInv, TypeInv
  <2> QED
    BY <2>1, <2>2, OthersKeep
<1>2. ASSUME NEW m \in Member, MemberStep(m) PROVE StuckInv'
  BY <1>2, StartQueryKeeps, StartAggregateKeeps, HandleKeeps, BufferKeeps DEF MemberStep
<1>3. ASSUME NEW m \in Member, Crash(m) PROVE StuckInv'
  BY <1>3, CrashKeeps
<1>4. CASE UNCHANGED vars
  <2>1. UNCHANGED <<query, phase, agg, future, net, utility, crashed>> /\ issued' = issued
    BY <1>4 DEF vars
  <2>2. issued \in Int
    BY DEF StuckInv, TypeInv
  <2> QED
    BY <2>1, <2>2, OthersKeep
<1> QED
  BY <1>1, <1>2, <1>3, <1>4 DEF Next

------------------------------------------------------------------------------
(* What follows from it. *)

\* A sequence shorter than a set does not name all of the set: injections and
\* the pigeonhole principle.
LEMMA Pigeons ==
  ASSUME NEW S, IsFiniteSet(S), NEW n \in Nat, n < Cardinality(S), NEW f \in [S -> 1..n]
  PROVE  \E c, d \in S : c # d /\ f[c] = f[d]
<1> DEFINE T == 1..n
<1>1. IsFiniteSet(T) /\ Cardinality(T) = n
  BY FS_Interval
<1>2. f \in [S -> T]
  OBVIOUS
<1> HIDE DEF T
<1> QED
  BY <1>1, <1>2, FS_PigeonHole

\* Nothing is in flight and nobody is in an overlay phase or behind a query.
Quiet == net = {} /\ \A m \in Member \ crashed : phase[m] # "OVERLAY" /\ query[m] = issued

\* A member that waits although everybody below it is up waits for a child that
\* does: one that is done has told it, and there are fewer messages than
\* children.
LEMMA WaitsForWaiting ==
  ASSUME StuckInv, Quiet, NEW m \in Member \ crashed, phase[m] = "AGGREGATE",
         Subtree(m) \cap crashed = {}
  PROVE  \E c \in Children(m) : phase[c] = "AGGREGATE" /\ c \notin crashed
                               /\ Subtree(c) \cap crashed = {}
<1> DEFINE received == agg[m].received
           n == Len(received)
<1>1. received \in Seq(For(m)) /\ n \in Nat /\ DOMAIN received = 1..n
  BY LenProperties DEF StuckInv, TypeInv
<1>2. query[m] # -1
  <2>1. query[m] \in Int /\ query[m] >= 0
    BY DEF StuckInv, TypeInv
  <2> QED
    BY <2>1
<1>3. \A c \in Children(m) : c \in Member \ crashed /\ Subtree(c) \cap crashed = {}
  BY SubtreeClosed, ChildSubtree
<1>4. \A c \in Children(m) : phase[c] \in {"AGGREGATE", "IDLE"} /\ query[c] = query[m]
  BY <1>3 DEF Quiet, StuckInv, TypeInv
<1> SUFFICES ASSUME \A c \in Children(m) : phase[c] = "IDLE" PROVE FALSE
  BY <1>3, <1>4
<1>5. \A c \in Children(m) : Told(m, c, Range(received))
  BY <1>2, <1>4 DEF StuckInv, Reports, Quiet
<1>6. \A c \in Children(m) : \E i \in 1..n : received[i].from = c
  BY <1>1, <1>5 DEF Told, Range
<1> DEFINE f == [c \in Children(m) |-> CHOOSE i \in 1..n : received[i].from = c]
<1>7. f \in [Children(m) -> 1..n] /\ \A c \in Children(m) : received[f[c]].from = c
  BY <1>6
<1>8. IsFiniteSet(Children(m))
  BY Tree, FS_Subset
<1>9. n < Cardinality(Children(m))
  <2>1. PICK failed \in SUBSET crashed :
          n < agg[m].needed /\ agg[m].needed = Cardinality(Children(m) \ failed)
    BY DEF StuckInv, Waits
  <2>2. Children(m) \ failed = Children(m)
    BY <1>3
  <2> QED
    BY <2>1, <2>2
<1> HIDE DEF f, n
<1>10. PICK c, d \in Children(m) : c # d /\ f[c] = f[d]
  BY <1>1, <1>7, <1>8, <1>9, Pigeons
<1> QED
  BY <1>7, <1>10

\* So the last member that waits has somebody below it who is down.
LEMMA StuckFollows == StuckInv => StuckOnlyBelowCrash
<1> SUFFICES ASSUME StuckInv, Quiet,
                    NEW m \in Member \ crashed, phase[m] = "AGGREGATE",
                    Subtree(m) \cap crashed = {}
             PROVE  FALSE
  BY DEF StuckOnlyBelowCrash, Quiet
<1> DEFINE Bad(k) == k \in Member \ crashed /\ phase[k] = "AGGREGATE"
                     /\ Subtree(k) \cap crashed = {}
           P == {n \in Nat : \A k \in Member : k >= First + Size - n => ~ Bad(k)}
<1>1. 0 \in P
  BY MembersAre
<1>2. ASSUME NEW n \in Nat, n \in P PROVE n + 1 \in P
  <2> SUFFICES ASSUME NEW k \in Member, k >= First + Size - (n + 1), Bad(k) PROVE FALSE
    OBVIOUS
  <2>1. PICK c \in Children(k) : phase[c] = "AGGREGATE" /\ c \notin crashed
                                /\ Subtree(c) \cap crashed = {}
    BY WaitsForWaiting
  <2>2. c \in Member /\ c > k
    BY Tree
  <2>3. Bad(c)
    BY <2>1, <2>2
  <2>4. c >= First + Size - n
    BY <2>2, MembersAre
  <2> HIDE DEF Bad
  <2> QED
    BY <1>2, <2>2, <2>3, <2>4
<1>3. Nat \subseteq P
  <2> HIDE DEF P
  <2> QED
    BY <1>1, <1>2, Induction
<1>4. Size \in P /\ m >= First + Size - Size /\ Bad(m)
  BY <1>3, MembersAre
<1> HIDE DEF Bad
<1> QED
  BY <1>4

\* What is in flight or has reached the utility is sound.
LEMMA SumsFollow == StuckInv => OnlySubtreeSummed
BY DEF StuckInv, TypeInv, Sound, OnlySubtreeSummed

\* StuckOnlyBelowCrash for every number of meters, groups, queries and crashes:
\* start_aggregate_phase and handle_message leave no member waiting in
\* is_done_receiving() unless somebody below it has crashed.
THEOREM Stuck == Spec => []StuckOnlyBelowCrash
<1>1. Spec => []StuckInv
  BY StuckInit, StuckNext, PTL DEF Spec
<1> QED
  BY <1>1, StuckFollows, PTL

\* OnlySubtreeSummed for all constants: aggregate() adds to a member's own value
\* nothing but values from below it in the tree, whatever has crashed and
\* however late a message of an earlier query comes.
THEOREM Sums == Spec => []OnlySubtreeSummed
<1>1. Spec => []StuckInv
  BY StuckInit, StuckNext, PTL DEF Spec
<1> QED
  BY <1>1, SumsFollow, PTL

------------------------------------------------------------------------------
(* The invariant of the whole sum. *)

\* The senders of the messages of seq.
Froms(seq) == {msg.from : msg \in Range(seq)}

\* No message is of a query that some live member has not started.
Bound ==
  \A msg \in Anywhere : 0 <= msg.query /\ \A p \in Member \ crashed : msg.query <= query[p]

\* Only the root reports to the utility.
Addressed == \A msg \in utility : Parent(msg.from) = Utility

\* Every message of the first query carries the whole sum of its sender.
Exact == \A msg \in Anywhere \cup utility : msg.query = 0 => msg.data = Whole(msg.from)

\* A message of the first query is from a member that is done with it.
Sent == \A msg \in Anywhere : msg.query = 0 /\ query[msg.from] = 0 => phase[msg.from] = "IDLE"

\* None of msgs is from a sender for m that m has heard of.
Unheard(m, msgs, heard) ==
  \A msg \in msgs : Parent(msg.from) = m => msg.from \notin Froms(heard)

\* In the first query a member hears of every child at most once.
Once ==
  \A m \in Member : query[m] = 0 =>
    /\ Distinct(future[m]) /\ Distinct(agg[m].received)
    /\ Unheard(m, net, future[m]) /\ Unheard(m, net, agg[m].received)

\* The inductive invariant behind RootSumsAll.
WholeInv ==
  /\ StuckInv /\ Bound /\ Addressed
  /\ crashed = {} => Exact /\ Sent /\ Once

\* It holds before the first query.
LEMMA WholeInit == Init => WholeInv
<1> SUFFICES ASSUME Init PROVE WholeInv
  OBVIOUS
<1>1. Anywhere = {} /\ utility = {} /\ net = {}
  <2>1. \A m \in Member : future[m] = <<>> /\ agg[m].received = <<>>
    BY DEF Init, Fresh
  <2>2. Range(<<>>) = {}
    BY DEF Range
  <2> QED
    BY <2>1, <2>2 DEF Init, Anywhere, Kept
<1>2. Bound /\ Addressed /\ Exact /\ Sent
  BY <1>1 DEF Bound, Addressed, Exact, Sent
<1>3. Once
  BY DEF Init, Once
<1> QED
  BY <1>2, <1>3, StuckInit DEF WholeInv

------------------------------------------------------------------------------
(* It is kept by every step. *)

\* An advance makes no messages but those it sends.
LEMMA AdvanceAdds ==
  ASSUME StuckInv, NEW m, NEW s, NEW received, NEW out, NEW wire,
         Advance(m, s, received, out, wire),
         Range(received) \subseteq Anywhere,
         \/ future' = future
         \/ future' = [future EXCEPT ![m] = <<>>]
  PROVE  /\ Anywhere' \subseteq Anywhere \cup out
         /\ utility' \subseteq utility \cup out
<1>1. m \in Member /\ agg' = [agg EXCEPT ![m] = s] /\ s.received = received
  BY DEF Advance
<1>2. net' \subseteq net \cup out /\ utility' \subseteq utility \cup out
  BY DEF Advance, Send
<1>3. ASSUME NEW k \in Member PROVE Kept(k)' \subseteq Anywhere
  <2>1. Range(agg'[k].received) \subseteq Anywhere
    <3>1. Range(agg[k].received) \subseteq Anywhere
      BY DEF Anywhere, Kept
    <3>2. agg'[k] = IF k = m THEN s ELSE agg[k]
      BY <1>1 DEF StuckInv, TypeInv
    <3> QED
      BY <1>1, <3>1, <3>2
  <2>2. Range(future'[k]) \subseteq Anywhere
    <3>1. Range(future[k]) \subseteq Anywhere
      BY DEF Anywhere, Kept
    <3>2. future'[k] = future[k] \/ future'[k] = <<>>
      BY DEF StuckInv, TypeInv
    <3>3. Range(<<>>) = {}
      BY DEF Range
    <3> QED
      BY <3>1, <3>2, <3>3
  <2> QED
    BY <2>1, <2>2 DEF Kept
<1>4. Anywhere' = net' \cup UNION {Kept(k)' : k \in Member}
  BY DEF Anywhere
<1>5. net \subseteq Anywhere
  BY DEF Anywhere
<1> QED
  BY <1>2, <1>3, <1>4, <1>5

\* A member that answers the first query without failures has heard from all
\* its children, and once, and so sends the whole sum.
LEMMA AdvanceWhole ==
  ASSUME StuckInv, NEW m, NEW s, NEW received, NEW out, NEW wire,
         Advance(m, s, received, out, wire),
         crashed = {}, query[m] = 0, Distinct(received),
         \A msg \in Range(received) : msg.data = Whole(msg.from)
  PROVE  \A msg \in out : msg.data = Whole(m)
<1> SUFFICES ASSUME NEW msg \in out PROVE msg.data = Whole(m)
  OBVIOUS
<1> DEFINE n == Len(received)
           C == Children(m)
<1>1. m \in Member /\ received \in Seq(For(m)) /\ s.needed = Cardinality(C)
  <2>1. /\ m \in Member /\ received \in Seq(For(m))
        /\ \E failed \in SUBSET crashed : s.needed = Cardinality(Children(m) \ failed)
    BY DEF Advance
  <2>2. \A failed \in SUBSET crashed : Children(m) \ failed = C
    OBVIOUS
  <2> QED
    BY <2>1, <2>2
<1>2. n \in Nat /\ DOMAIN received = 1..n /\ \A i \in 1..n : received[i] \in For(m)
  BY <1>1, LenProperties
<1>3. C \subseteq Member /\ IsFiniteSet(C) /\ Cardinality(C) \in Nat
  BY <1>1, Tree, FS_Subset, FS_CardinalityType
<1> HIDE DEF n, C
<1> DEFINE f == [i \in 1..n |-> received[i].from]
<1>4. f \in Injection(1..n, C)
  <2>1. ASSUME NEW i \in 1..n PROVE received[i].from \in C
    <3>1. received[i].from \in Member /\ Parent(received[i].from) = m
      BY <1>2 DEF For, Sound, Message
    <3>2. m # Utility
      BY <1>1, MembersAre DEF Utility
    <3> QED
      BY <3>1, <3>2, Tree DEF C
  <2>2. f \in [1..n -> C]
    BY <2>1
  <2>3. \A i, j \in 1..n : f[i] = f[j] => i = j
    BY <1>2 DEF Distinct
  <2> HIDE DEF f
  <2> QED
    BY <2>2, <2>3 DEF Injection, IsInjective
<1>5. n <= Cardinality(C) /\ (n = Cardinality(C) => f \in Surjection(1..n, C))
  <2> DEFINE T == 1..n
  <2>1. IsFiniteSet(T) /\ Cardinality(T) = n
    BY <1>2, FS_Interval
  <2>2. f \in Injection(T, C)
    BY <1>4
  <2> HIDE DEF T, f
  <2>3. Cardinality(T) <= Cardinality(C)
        /\ (Cardinality(T) = Cardinality(C) <=> f \in Surjection(T, C))
    BY <1>3, <2>2, FS_Injection
  <2> QED
    BY <2>1, <2>3 DEF T
<1>6. Adds(msg, m, 0, Cardinality(C), received)
  <2>1. Adds(msg, m, query[m], s.needed, received)
    BY DEF Advance
  <2> QED
    BY <1>1, <2>1
<1>7. PICK i \in Cardinality(C)..n :
        msg = aggregate(m, 0, SubSeq(received, 1, i), i - Cardinality(C) + 1)
  BY <1>6 DEF Adds, n
<1>8. i = n /\ n = Cardinality(C) /\ i - Cardinality(C) + 1 = 1
  BY <1>2, <1>3, <1>5
<1>9. SubSeq(received, 1, i) = received
  BY <1>1, <1>8, SubSeqFull DEF n
<1>10. msg = aggregate(m, 0, received, 1)
  BY <1>7, <1>8, <1>9
<1>11. C \subseteq {x.from : x \in Range(received)}
  <2>1. \A c \in C : \E j \in 1..n : f[j] = c
    BY <1>5, <1>8 DEF Surjection
  <2>2. \A j \in 1..n : f[j] = received[j].from /\ received[j] \in Range(received)
    BY <1>2 DEF Range
  <2> HIDE DEF f
  <2> QED
    BY <2>1, <2>2
<1> QED
  BY <1>1, <1>10, <1>11, AggregateWhole DEF C

\* Nobody is its own parent.
LEMMA ParentBelow ==
  ASSUME NEW m \in Member
  PROVE  Parent(m) # m
<1>1. m \in Nat /\ (Parent(m) # Utility => m > Parent(m))
  BY Tree
<1> QED
  BY <1>1 DEF Utility

\* All messages are sound.
LEMMA AllSound ==
  ASSUME StuckInv
  PROVE  Anywhere \subseteq Sound
<1>1. ASSUME NEW m \in Member PROVE Kept(m) \subseteq Sound
  <2>1. future[m] \in Seq(Sound) /\ agg[m].received \in Seq(Sound)
    BY DEF StuckInv, TypeInv
  <2> QED
    BY <2>1, LenProperties DEF Kept, Range
<1>2. net \subseteq Sound
  BY DEF StuckInv, TypeInv
<1> QED
  BY <1>1, <1>2 DEF Anywhere

\* An advance keeps the invariant.
LEMMA AdvanceKeepsWhole ==
  ASSUME WholeInv, StuckInv', NEW m, NEW s, NEW received, NEW out, NEW wire,
         Advance(m, s, received, out, wire),
         \A p \in Member \ crashed : query[p] >= query[m],
         Range(received) \subseteq Anywhere,
         \/ future' = future
         \/ future' = [future EXCEPT ![m] = <<>>],
         crashed = {} /\ query[m] = 0 =>
           /\ Distinct(future'[m]) /\ Distinct(received)
           /\ Unheard(m, wire, future'[m]) /\ Unheard(m, wire, received)
  PROVE  WholeInv'
<1>0. StuckInv
  BY DEF WholeInv
<1>1. /\ m \in Member \ crashed /\ phase[m] # "IDLE"
      /\ query' = query /\ crashed' = crashed
      /\ agg' = [agg EXCEPT ![m] = s] /\ s.received = received
      /\ phase' = [phase EXCEPT ![m] = IF out = {} THEN "AGGREGATE" ELSE "IDLE"]
      /\ net' = wire \cup (IF Parent(m) \in crashed \cup {Utility} THEN {} ELSE out)
      /\ utility' = utility \cup (IF Parent(m) = Utility THEN out ELSE {})
      /\ wire \subseteq net
      /\ \A msg \in out : msg \in Sound /\ msg.from = m /\ msg.query = query[m]
  BY DEF Advance, Send
<1>2. Anywhere' \subseteq Anywhere \cup out /\ utility' \subseteq utility \cup out
  BY <1>0, AdvanceAdds
<1>3. query[m] \in Int /\ query[m] >= 0
  BY <1>0, <1>1 DEF StuckInv, TypeInv
<1>4. Bound'
  <2> SUFFICES ASSUME NEW msg \in Anywhere'
               PROVE  0 <= msg.query /\ \A p \in Member \ crashed : msg.query <= query[p]
    BY <1>1 DEF Bound
  <2>1. CASE msg \in Anywhere
    BY <2>1 DEF WholeInv, Bound
  <2>2. CASE msg \in out
    <3>1. msg.query = query[m]
      BY <1>1, <2>2
    <3>2. \A p \in Member \ crashed : query[p] \in Int
      BY <1>0 DEF StuckInv, TypeInv
    <3> QED
      BY <1>3, <3>1, <3>2
  <2> QED
    BY <1>2, <2>1, <2>2
<1>5. Addressed'
  BY <1>1 DEF WholeInv, Addressed
<1>6. ASSUME crashed = {} PROVE Exact' /\ Sent' /\ Once'
  <2>1. Bound /\ Exact /\ Sent /\ Once /\ m \in Member
    BY <1>1, <1>6 DEF WholeInv
  <2>2. Exact'
    <3> SUFFICES ASSUME NEW msg \in Anywhere' \cup utility', msg.query = 0
                 PROVE  msg.data = Whole(msg.from)
      BY DEF Exact
    <3>1. CASE msg \in Anywhere \cup utility
      BY <2>1, <3>1 DEF Exact
    <3>2. CASE msg \in out
      <4>1. query[m] = 0 /\ msg.from = m
        BY <1>1, <3>2
      <4>2. ASSUME NEW x \in Range(received) PROVE x.data = Whole(x.from)
        <5>1. x \in Anywhere
          OBVIOUS
        <5>2. 0 <= x.query /\ x.query <= query[m]
          BY <1>1, <2>1, <5>1 DEF Bound
        <5>3. x.query \in Int
          <6>1. received \in Seq(For(m))
            BY DEF Advance
          <6>2. x \in For(m)
            BY <6>1, LenProperties DEF Range
          <6> QED
            BY <6>2 DEF For, Sound, Message
        <5>4. x.query = 0
          BY <4>1, <5>2, <5>3
        <5> QED
          BY <2>1, <5>1, <5>4 DEF Exact
      <4>3. Distinct(received)
        BY <1>6, <4>1
      <4> QED
        BY <1>0, <1>6, <3>2, <4>1, <4>2, <4>3, AdvanceWhole
    <3> QED
      BY <1>2, <3>1, <3>2
  <2>3. Sent'
    <3> SUFFICES ASSUME NEW msg \in Anywhere', msg.query = 0, query[msg.from] = 0
                 PROVE  phase'[msg.from] = "IDLE"
      BY <1>1 DEF Sent
    <3>1. CASE msg \in out
      BY <1>0, <1>1, <3>1 DEF StuckInv, TypeInv
    <3>2. CASE msg \in Anywhere
      <4>1. phase[msg.from] = "IDLE"
        BY <2>1, <3>2 DEF Sent
      <4>2. msg.from # m
        BY <1>1, <4>1
      <4> QED
        BY <1>0, <1>1, <4>1, <4>2 DEF StuckInv, TypeInv
    <3> QED
      BY <1>2, <3>1, <3>2
  <2>4. Once'
    <3> SUFFICES ASSUME NEW k \in Member, query[k] = 0
                 PROVE  /\ Distinct(future'[k]) /\ Distinct(agg'[k].received)
                        /\ Unheard(k, net', future'[k]) /\ Unheard(k, net', agg'[k].received)
      BY <1>1 DEF Once, Unheard, Distinct, Froms
    <3>1. CASE k = m
      <4>1. agg'[k].received = received
        BY <1>0, <1>1, <3>1 DEF StuckInv, TypeInv
      <4>2. Parent(m) # m
        BY <2>1, ParentBelow
      <4>3. \A msg \in net' : Parent(msg.from) = m => msg \in wire
        BY <1>1, <4>2
      <4>4. /\ Distinct(future'[m]) /\ Distinct(received)
            /\ Unheard(m, wire, future'[m]) /\ Unheard(m, wire, received)
        BY <1>6, <3>1
      <4> QED
        BY <3>1, <4>1, <4>3, <4>4 DEF Unheard
    <3>2. CASE k # m
      <4>1. agg'[k] = agg[k] /\ future'[k] = future[k]
        BY <1>0, <1>1, <3>2 DEF StuckInv, TypeInv
      <4>2. /\ Distinct(future[k]) /\ Distinct(agg[k].received)
            /\ Unheard(k, net, future[k]) /\ Unheard(k, net, agg[k].received)
        BY <2>1 DEF Once
      <4>3. ASSUME out # {}, Parent(m) = k
            PROVE  m \notin Froms(future[k]) \cup Froms(agg[k].received)
        <5> SUFFICES ASSUME NEW x \in Kept(k), x.from = m PROVE FALSE
          BY DEF Froms, Kept
        <5>1. x \in Anywhere
          BY DEF Anywhere
        <5>2. PICK msg \in out : TRUE
          BY <4>3
        <5>3. x.query \in Int /\ 0 <= x.query /\ x.query <= query[k]
          <6>1. k \notin crashed
            BY <1>6
          <6>2. x \in Sound
            BY <1>0, <5>1, AllSound
          <6> QED
            BY <2>1, <5>1, <6>1, <6>2 DEF Bound, Sound, Message
        <5>4. query[k] >= query[m]
          BY <1>6
        <5>5. x.query = 0 /\ query[m] = 0
          BY <1>3, <5>3, <5>4
        <5> QED
          BY <1>1, <2>1, <5>1, <5>5 DEF Sent
      <4>4. \A msg \in net' : msg \in net \/ (msg \in out /\ msg.from = m)
        BY <1>1
      <4> QED
        BY <4>1, <4>2, <4>3, <4>4 DEF Unheard
    <3> QED
      BY <3>1, <3>2
  <2> QED
    BY <2>2, <2>3, <2>4
<1> QED
  BY <1>1, <1>4, <1>5, <1>6 DEF WholeInv

\* While a live member is at the first query all messages are of that query.
LEMMA OfFirstQuery ==
  ASSUME WholeInv, NEW m \in Member \ crashed, query[m] = 0, NEW msg \in Anywhere
  PROVE  msg.query = 0
<1>1. msg.query \in Int
  BY AllSound DEF WholeInv, Sound, Message
<1>2. 0 <= msg.query /\ msg.query <= 0
  BY DEF WholeInv, Bound
<1> QED
  BY <1>1, <1>2

\* The invariant is kept when a member starts to aggregate, ...
LEMMA StartAggregateWhole ==
  ASSUME WholeInv, NEW m \in Member, StartAggregatePhase(m)
  PROVE  WholeInv'
<1>0. StuckInv /\ StuckInv'
  BY StartAggregateKeeps DEF WholeInv
<1>1. \A p \in Member \ crashed : query[p] >= query[m]
  BY <1>0, StartAdvances
<1>2. PICK s, out :
        \/ /\ Advance(m, s, <<>>, out, net) /\ out # {} /\ future' = future
        \/ /\ Advance(m, s, future[m], out, net)
           /\ future' = [future EXCEPT ![m] = <<>>]
  BY <1>0, StartAdvances
<1>3. crashed = {} /\ query[m] = 0 =>
        Distinct(future[m]) /\ Unheard(m, net, future[m])
  BY DEF WholeInv, Once
<1>4. Distinct(<<>>) /\ Unheard(m, net, <<>>) /\ Range(<<>>) = {}
  BY DEF Distinct, Unheard, Froms, Range
<1>5. Range(future[m]) \subseteq Anywhere
  BY DEF Anywhere, Kept
<1>6. CASE Advance(m, s, <<>>, out, net) /\ future' = future
  <2> DEFINE none == <<>>
  <2>1. Advance(m, s, none, out, net)
    BY <1>6
  <2>2. Range(none) \subseteq Anywhere
    BY <1>4
  <2>3. crashed = {} /\ query[m] = 0 =>
          /\ Distinct(future'[m]) /\ Distinct(none)
          /\ Unheard(m, net, future'[m]) /\ Unheard(m, net, none)
    BY <1>3, <1>4, <1>6
  <2> HIDE DEF none
  <2> QED
    BY <1>0, <1>1, <1>6, <2>1, <2>2, <2>3, AdvanceKeepsWhole
<1>7. CASE Advance(m, s, future[m], out, net) /\ future' = [future EXCEPT ![m] = <<>>]
  <2> DEFINE received == future[m]
  <2>1. Advance(m, s, received, out, net)
    BY <1>7
  <2>2. Range(received) \subseteq Anywhere
    BY <1>5
  <2>3. future'[m] = <<>>
    BY <1>0, <1>7 DEF StuckInv, TypeInv
  <2>4. crashed = {} /\ query[m] = 0 =>
          /\ Distinct(future'[m]) /\ Distinct(received)
          /\ Unheard(m, net, future'[m]) /\ Unheard(m, net, received)
    BY <1>3, <1>4, <2>3
  <2> HIDE DEF received
  <2> QED
    BY <1>0, <1>1, <1>7, <2>1, <2>2, <2>4, AdvanceKeepsWhole
<1> QED
  BY <1>2, <1>6, <1>7

\* A message of a new sender keeps senders apart.
LEMMA DistinctAppend ==
  ASSUME NEW S, NEW seq \in Seq(S), NEW x \in S, Distinct(seq), x.from \notin Froms(seq)
  PROVE  /\ Distinct(Append(seq, x))
         /\ Froms(Append(seq, x)) = Froms(seq) \cup {x.from}
<1> DEFINE n == Len(seq)
           all == Append(seq, x)
<1>1. n \in Nat /\ DOMAIN seq = 1..n
  BY LenProperties
<1>2. DOMAIN all = 1..(n + 1) /\ all[n + 1] = x /\ \A i \in 1..n : all[i] = seq[i]
  BY <1>1, AppendProperties, LenProperties
<1>3. Range(all) = Range(seq) \cup {x}
  BY RangeOfAppend
<1> HIDE DEF n, all
<1>4. Froms(all) = Froms(seq) \cup {x.from}
  BY <1>3 DEF Froms
<1>5. \A i \in 1..n : seq[i].from # x.from
  BY <1>1 DEF Froms, Range
<1>6. \A i \in 1..(n + 1) : i \in 1..n \/ i = n + 1
  BY <1>1
<1>7. Distinct(all)
  <2> SUFFICES ASSUME NEW i \in 1..(n + 1), NEW j \in 1..(n + 1), all[i].from = all[j].from
               PROVE  i = j
    BY <1>2 DEF Distinct
  <2>1. CASE i \in 1..n /\ j \in 1..n
    BY <1>1, <1>2, <2>1 DEF Distinct
  <2>2. CASE i = n + 1 /\ j \in 1..n
    BY <1>2, <1>5, <2>2
  <2>3. CASE i \in 1..n /\ j = n + 1
    BY <1>2, <1>5, <2>3
  <2> QED
    BY <1>6, <2>1, <2>2, <2>3
<1> QED
  BY <1>4, <1>7 DEF all

\* Taking a message off the network, m hears of its sender for the first and
\* the last time.
LEMMA HearsOnce ==
  ASSUME WholeInv, crashed = {}, NEW m \in Member, query[m] = 0,
         NEW msg \in net, Parent(msg.from) = m,
         NEW seq \in Seq(Sound), Distinct(seq), Unheard(m, net, seq)
  PROVE  /\ Distinct(Append(seq, msg))
         /\ Unheard(m, net \ {msg}, Append(seq, msg))
<1>1. msg.from \notin Froms(seq)
  BY DEF Unheard
<1>2. net \subseteq Anywhere /\ net \subseteq Sound
  BY AllSound DEF Anywhere, WholeInv
<1>3. Distinct(Append(seq, msg)) /\ Froms(Append(seq, msg)) = Froms(seq) \cup {msg.from}
  BY <1>1, <1>2, DistinctAppend
<1>4. ASSUME NEW x \in net, x.from = msg.from PROVE x = msg
  <2>1. x \in Message /\ msg \in Message
    BY <1>2 DEF Sound
  <2>2. x.query = 0 /\ msg.query = 0
    BY <1>2, OfFirstQuery
  <2>3. x.data = Whole(x.from) /\ msg.data = Whole(msg.from)
    BY <1>2, <2>2 DEF WholeInv, Exact
  <2> QED
    BY <1>4, <2>1, <2>2, <2>3 DEF Message
<1>5. Unheard(m, net \ {msg}, Append(seq, msg))
  BY <1>3, <1>4 DEF Unheard
<1> QED
  BY <1>3, <1>5

\* ... when it handles a message, ...
LEMMA HandleWhole ==
  ASSUME WholeInv, NEW m \in Member, HandleAggregate(m)
  PROVE  WholeInv'
<1>0. StuckInv /\ StuckInv'
  BY HandleKeeps DEF WholeInv
<1>1. phase[m] = "AGGREGATE" /\ future' = future
  BY <1>0, HandleAdvances
<1>2. PICK s, out : \E msg \in net :
              /\ Parent(msg.from) = m
              /\ Advance(m, s, Append(agg[m].received, msg), out, net \ {msg})
  BY <1>0, HandleAdvances
<1>3. PICK msg \in net :
              /\ Parent(msg.from) = m
              /\ Advance(m, s, Append(agg[m].received, msg), out, net \ {msg})
  BY <1>2
<1>4. \A p \in Member \ crashed : query[p] >= query[m]
  BY <1>0, <1>1 DEF StuckInv, Together
<1> DEFINE received == Append(agg[m].received, msg)
<1>5. agg[m].received \in Seq(Sound) /\ msg \in Sound
  BY <1>0 DEF StuckInv, TypeInv
<1>6. Range(received) \subseteq Anywhere
  <2>1. Range(received) = Range(agg[m].received) \cup {msg}
    BY <1>5, RangeOfAppend
  <2> QED
    BY <2>1 DEF Anywhere, Kept
<1>7. ASSUME crashed = {}, query[m] = 0
      PROVE  /\ Distinct(future'[m]) /\ Distinct(received)
             /\ Unheard(m, net \ {msg}, future'[m]) /\ Unheard(m, net \ {msg}, received)
  <2>1. /\ Distinct(future[m]) /\ Distinct(agg[m].received)
        /\ Unheard(m, net, future[m]) /\ Unheard(m, net, agg[m].received)
    BY <1>7 DEF WholeInv, Once
  <2>2. Distinct(received) /\ Unheard(m, net \ {msg}, received)
    BY <1>3, <1>5, <1>7, <2>1, HearsOnce
  <2> QED
    BY <1>1, <2>1, <2>2 DEF Unheard
<1>8. Advance(m, s, received, out, net \ {msg})
  BY <1>3
<1> HIDE DEF received
<1> QED
  BY <1>0, <1>1, <1>4, <1>6, <1>7, <1>8, AdvanceKeepsWhole

\* ... when it keeps an early message, ...
LEMMA BufferWhole ==
  ASSUME WholeInv, NEW m \in Member, BufferAggregate(m)
  PROVE  WholeInv'
<1>0. StuckInv /\ StuckInv'
  BY BufferKeeps DEF WholeInv
<1>1. /\ m \in Member \ crashed
      /\ UNCHANGED <<query, phase, agg, utility, issued, crashed>>
  BY DEF BufferAggregate
<1>2. PICK msg \in net :
       /\ Parent(msg.from) = m
       /\ future' = IF msg.query = query[m]
                    THEN [future EXCEPT ![m] = Append(future[m], msg)]
                    ELSE future
       /\ net' = net \ {msg}
  BY DEF BufferAggregate
<1>3. future \in [Member -> Seq(Sound)] /\ msg \in Sound
  BY <1>0 DEF StuckInv, TypeInv
<1>4. Anywhere' \subseteq Anywhere
  <2>1. ASSUME NEW k \in Member PROVE Kept(k)' \subseteq Anywhere
    <3>1. Range(Append(future[k], msg)) = Range(future[k]) \cup {msg}
      BY <1>3, RangeOfAppend
    <3>2. Range(future'[k]) \subseteq Range(future[k]) \cup {msg}
      BY <1>2, <1>3, <3>1
    <3>3. Kept(k)' = Range(future'[k]) \cup Range(agg[k].received)
      BY <1>1 DEF Kept
    <3> QED
      BY <3>2, <3>3 DEF Anywhere, Kept
  <2>2. Anywhere' = net' \cup UNION {Kept(k)' : k \in Member}
    BY DEF Anywhere
  <2>3. net' \subseteq Anywhere
    BY <1>2 DEF Anywhere
  <2> QED
    BY <2>1, <2>2, <2>3
<1>5. Bound' /\ Addressed'
  BY <1>1, <1>4 DEF WholeInv, Bound, Addressed
<1>6. ASSUME crashed = {} PROVE Exact' /\ Sent' /\ Once'
  <2>1. Exact /\ Sent /\ Once
    BY <1>6 DEF WholeInv
  <2>2. Exact'
    BY <1>1, <1>4, <2>1 DEF Exact
  <2>3. Sent'
    BY <1>1, <1>4, <2>1 DEF Sent
  <2>4. Once'
    <3> SUFFICES ASSUME NEW k \in Member, query[k] = 0
                 PROVE  /\ Distinct(future'[k]) /\ Distinct(agg[k].received)
                        /\ Unheard(k, net', future'[k]) /\ Unheard(k, net', agg[k].received)
      BY <1>1 DEF Once, Unheard, Distinct, Froms
    <3>1. /\ Distinct(future[k]) /\ Distinct(agg[k].received)
          /\ Unheard(k, net, future[k]) /\ Unheard(k, net, agg[k].received)
      BY <2>1 DEF Once
    <3>2. Unheard(k, net', future[k]) /\ Unheard(k, net', agg[k].received)
      BY <1>2, <3>1 DEF Unheard
    <3>3. CASE future'[k] = future[k]
      BY <3>1, <3>2, <3>3
    <3>4. CASE k = m /\ future'[k] = Append(future[k], msg)
      <4>1. Distinct(Append(future[k], msg)) /\ Unheard(k, net \ {msg}, Append(future[k], msg))
        BY <1>2, <1>3, <1>6, <3>1, <3>4, HearsOnce
      <4> QED
        BY <1>2, <3>1, <3>2, <3>4, <4>1
    <3> QED
      BY <1>2, <1>3, <3>3, <3>4
  <2> QED
    BY <2>2, <2>3, <2>4
<1> QED
  BY <1>0, <1>1, <1>5, <1>6 DEF WholeInv

\* ... when it starts a query: messages of the first one may be left over, but
\* no live member is then at the first query any more, ...
LEMMA StartQueryWhole ==
  ASSUME WholeInv, NEW m \in Member, StartQuery(m)
  PROVE  WholeInv'
<1>0. StuckInv /\ StuckInv'
  BY StartQueryKeeps DEF WholeInv
<1>1. /\ m \in Member \ crashed
      /\ query' = [query EXCEPT ![m] = query[m] + 1]
      /\ phase' = [phase EXCEPT ![m] = "OVERLAY"]
      /\ agg' = [agg EXCEPT ![m] = Fresh]
      /\ UNCHANGED <<future, net, utility, issued, crashed>>
  BY DEF StartQuery
<1>2. \A k \in Member : /\ query'[k] = (IF k = m THEN query[m] + 1 ELSE query[k])
                        /\ phase'[k] = (IF k = m THEN "OVERLAY" ELSE phase[k])
                        /\ agg'[k] = (IF k = m THEN Fresh ELSE agg[k])
                        /\ query[k] \in Int
  BY <1>0, <1>1 DEF StuckInv, TypeInv
<1>3. Anywhere' \subseteq Anywhere
  <2>1. Range(Fresh.received) = {}
    BY DEF Fresh, Range
  <2>2. \A k \in Member : Kept(k)' \subseteq Kept(k)
    BY <1>1, <1>2, <2>1 DEF Kept
  <2> QED
    BY <1>1, <2>2 DEF Anywhere
<1>4. \A msg \in Anywhere : msg \in Sound /\ msg.from \in Member /\ msg.query \in Int
  BY <1>0, AllSound DEF Sound, Message
<1>5. Bound'
  <2> SUFFICES ASSUME NEW msg \in Anywhere, NEW p \in Member \ crashed
               PROVE  0 <= msg.query /\ msg.query <= query'[p]
    BY <1>1, <1>3 DEF Bound
  <2>1. 0 <= msg.query /\ msg.query <= query[p]
    BY DEF WholeInv, Bound
  <2> QED
    BY <1>2, <1>4, <2>1
<1>6. Addressed'
  BY <1>1 DEF WholeInv, Addressed
<1>7. query'[m] = 0 => Anywhere = {}
  <2> SUFFICES ASSUME query'[m] = 0, NEW msg \in Anywhere PROVE FALSE
    OBVIOUS
  <2>1. query[m] = -1
    BY <1>1, <1>2
  <2>2. 0 <= msg.query /\ msg.query <= query[m]
    BY <1>1 DEF WholeInv, Bound
  <2> QED
    BY <1>4, <2>1, <2>2
<1>8. ASSUME crashed = {} PROVE Exact' /\ Sent' /\ Once'
  <2>1. Exact /\ Sent /\ Once
    BY <1>8 DEF WholeInv
  <2>2. Exact'
    BY <1>1, <1>3, <2>1 DEF Exact
  <2>3. Sent'
    <3> SUFFICES ASSUME NEW msg \in Anywhere, msg.query = 0, query'[msg.from] = 0
                 PROVE  phase'[msg.from] = "IDLE"
      BY <1>3 DEF Sent
    <3>1. msg.from # m
      BY <1>7
    <3> QED
      BY <1>2, <1>4, <2>1, <3>1 DEF Sent
  <2>4. Once'
    <3> SUFFICES ASSUME NEW k \in Member, query'[k] = 0
                 PROVE  /\ Distinct(future[k]) /\ Distinct(agg'[k].received)
                        /\ Unheard(k, net, future[k]) /\ Unheard(k, net, agg'[k].received)
      BY <1>1 DEF Once, Unheard, Distinct, Froms
    <3>1. CASE k = m
      <4>1. net = {} /\ Range(future[k]) = {}
        BY <1>7, <3>1 DEF Anywhere, Kept
      <4>2. Distinct(future[k])
        BY <4>1 DEF Distinct, Range
      <4>3. agg'[k].received = <<>>
        BY <1>2, <3>1 DEF Fresh
      <4>4. Distinct(<<>>)
        BY DEF Distinct
      <4> QED
        BY <4>1, <4>2, <4>3, <4>4 DEF Unheard
    <3>2. CASE k # m
      BY <1>2, <2>1, <3>2 DEF Once
    <3> QED
      BY <3>1, <3>2
  <2> QED
    BY <2>2, <2>3, <2>4
<1> QED
  BY <1>0, <1>1, <1>5, <1>6, <1>8 DEF WholeInv

\* ... when it crashes, after which only the bounds matter, ...
LEMMA CrashWhole ==
  ASSUME WholeInv, NEW m \in Member, Crash(m)
  PROVE  WholeInv'
<1>0. StuckInv'
  BY CrashKeeps DEF WholeInv
<1>1. /\ crashed' = crashed \cup {m} /\ crashed' # {}
      /\ net' \subseteq net
      /\ UNCHANGED <<query, phase, agg, future, utility, issued>>
  BY DEF Crash, memberVars
<1>2. Anywhere' \subseteq Anywhere
  BY <1>1 DEF Anywhere, Kept
<1>3. Bound' /\ Addressed'
  BY <1>1, <1>2 DEF WholeInv, Bound, Addressed
<1> QED
  BY <1>0, <1>1, <1>3 DEF WholeInv

\* ... and by every step: the invariant is inductive.
LEMMA WholeNext == WholeInv /\ [Next]_vars => WholeInv'
<1> SUFFICES ASSUME WholeInv, [Next]_vars PROVE WholeInv'
  OBVIOUS
<1>1. StuckInv'
  BY StuckNext DEF WholeInv
<1>2. CASE UNCHANGED <<query, phase, agg, future, net, utility, crashed>>
  <2>1. Anywhere' = Anywhere
    BY <1>2 DEF Anywhere, Kept
  <2>2. Bound' /\ Addressed'
    BY <1>2, <2>1 DEF WholeInv, Bound, Addressed
  <2>3. crashed = {} => Exact' /\ Sent'
    BY <1>2, <2>1 DEF WholeInv, Exact, Sent
  <2>4. crashed = {} => Once'
    BY <1>2 DEF WholeInv, Once, Unheard, Distinct, Froms
  <2> QED
    BY <1>1, <1>2, <2>2, <2>3, <2>4 DEF WholeInv
<1>3. CASE IssueQuery \/ UNCHANGED vars
  BY <1>2, <1>3 DEF IssueQuery, memberVars, vars
<1>4. ASSUME NEW m \in Member, MemberStep(m) PROVE WholeInv'
  BY <1>4, StartQueryWhole, StartAggregateWhole, HandleWhole, BufferWhole DEF MemberStep
<1>5. ASSUME NEW m \in Member, Crash(m) PROVE WholeInv'
  BY <1>5, CrashWhole
<1> QED
  BY <1>3, <1>4, <1>5 DEF Next

------------------------------------------------------------------------------
(* What follows from it. *)

\* The root's sum is the sum of everyone below it, which is everyone.
LEMMA WholeFollows == WholeInv => RootSumsAll
<1> SUFFICES ASSUME WholeInv, crashed = {}, NEW msg \in utility, msg.query = 0
             PROVE  msg.data = SetToBag({[query |-> 0, holder |-> m] : m \in Member})
  BY DEF RootSumsAll
<1>1. msg.data = Whole(msg.from)
  BY DEF WholeInv, Exact
<1>2. msg.from \in Member /\ Parent(msg.from) = Utility
  BY DEF WholeInv, Addressed, StuckInv, TypeInv, Sound, Message
<1>3. Subtree(msg.from) = Member
  BY <1>2, RootAboveAll
<1> QED
  BY <1>1, <1>3 DEF Whole, ValuesOf

\* RootSumsAll for all constants: without crashes the root's
\* get_result() for the first query is the sum of one value of every member of
\* the group, early messages and all interleavings included.
THEOREM RootSums == Spec => []RootSumsAll
<1>1. Spec => []WholeInv
  BY WholeInit, WholeNext, PTL DEF Spec
<1> QED
  BY <1>1, WholeFollows, PTL

------------------------------------------------------------------------------
(* The walk through the overlay of MCOverlay, whatever bounds it has. *)

\* The walk stays among the meters and rounds of an overlay that pick_proxies
\* accepts.
WalkInv ==
  /\ num_meters \in valid_prime_moduli
  /\ Sizes(num_groups, num_meters)
  /\ node_id \in 0..(num_meters - 1)
  /\ round \in Nat

\* PrimeModuli.h has a modulus for every number of homes it reaches to.
LEMMA ModulusFound ==
  ASSUME NEW homes \in Nat, \E p \in valid_prime_moduli : homes <= p
  PROVE  get_valid_prime_modulus(homes) \in valid_prime_moduli
<1>1. \E p \in valid_prime_moduli :
        p >= homes /\ \A q \in valid_prime_moduli : q >= homes => p <= q
  BY DEF valid_prime_moduli
<1> QED
  BY <1>1 DEF get_valid_prime_modulus

LEMMA ModulusIs ==
  ASSUME NEW n \in valid_prime_moduli
  PROVE  n \in Nat \ {0, 1}
BY DEF valid_prime_moduli

LEMMA WalkInitInv == WalkInit => WalkInv
<1> SUFFICES ASSUME WalkInit PROVE WalkInv
  OBVIOUS
<1>1. num_meters \in valid_prime_moduli
  <2>1. PICK homes \in 4..MaxMeters : num_meters = get_valid_prime_modulus(homes)
    BY DEF WalkInit
  <2>2. homes \in Nat /\ homes <= MaxMeters /\ MaxMeters \in Nat
    BY WalkAssumption
  <2>3. PICK p \in valid_prime_moduli : MaxMeters <= p
    BY WalkAssumption
  <2>4. p \in Nat
    BY ModulusIs
  <2>5. homes <= p
    BY <2>2, <2>3, <2>4
  <2> QED
    BY <2>1, <2>2, <2>5, ModulusFound
<1>2. num_meters \in Nat \ {0, 1}
  BY <1>1, ModulusIs
<1>3. num_groups \in 2..num_meters /\ pick_proxies_defined(num_groups, num_meters)
      /\ node_id = 0 /\ round = 0
  BY DEF WalkInit
<1> QED
  BY <1>1, <1>2, <1>3 DEF WalkInv, Sizes

LEMMA WalkNextInv == WalkInv /\ [WalkNext]_walk_vars => WalkInv'
<1> SUFFICES ASSUME WalkInv, [WalkNext]_walk_vars PROVE WalkInv'
  OBVIOUS
<1>1. num_meters \in Nat \ {0, 1}
  BY ModulusIs DEF WalkInv
<1>2. CASE NextRound
  BY <1>2 DEF NextRound, WalkInv, Sizes, pick_proxies_defined
<1>3. CASE NextNode
  BY <1>1, <1>3 DEF NextNode, WalkInv, Sizes, pick_proxies_defined
<1>4. CASE NextPhase
  <2>1. log2n(num_meters) \in Nat
    BY <1>1, Log2Positive
  <2>2. LastOfPhase + 1 \in Nat
    BY <2>1 DEF LastOfPhase, WalkInv, Sizes
  <2> QED
    BY <1>4, <2>2 DEF NextPhase, WalkInv, Sizes, pick_proxies_defined
<1>5. CASE PickProxy
  BY <1>5 DEF PickProxy, WalkInv, Sizes, pick_proxies_defined
<1>6. CASE UNCHANGED walk_vars
  BY <1>6 DEF walk_vars, WalkInv, Sizes, pick_proxies_defined
<1> QED
  BY <1>2, <1>3, <1>4, <1>5, <1>6 DEF WalkNext

\* Each offset leads to one of the other meters, which expects the message.
LEMMA OffsetsReach ==
  ASSUME NEW n \in Nat \ {0, 1}, NEW id \in 0..(n - 1)
  PROVE  {(id + d) % n : d \in 1..(n - 1)} = (0..(n - 1)) \ {id}
<1>1. ASSUME NEW d \in 1..(n - 1) PROVE (id + d) % n \in (0..(n - 1)) \ {id}
  BY OffsetInverse
<1>2. ASSUME NEW other \in (0..(n - 1)) \ {id}
      PROVE  \E d \in 1..(n - 1) : (id + d) % n = other
  <2>1. CASE other > id
    <3>1. other - id \in 1..(n - 1) /\ (id + (other - id)) % n = other
      BY <2>1
    <3> QED
      BY <3>1
  <2>2. CASE other < id
    <3>1. other - id + n \in 1..(n - 1) /\ (id + (other - id + n)) % n = other
      BY <2>2
    <3> QED
      BY <3>1
  <2> QED
    BY <2>1, <2>2
<1> QED
  BY <1>1, <1>2

LEMMA GossipFollows == WalkInv => GossipReachesEveryone
<1> SUFFICES ASSUME WalkInv PROVE GossipReachesEveryone
  OBVIOUS
<1> DEFINE n == num_meters
           Offset(t) == mod_pow(2, t, n)
           Targets(t) == {p \in {gossip_target(node_id, t, n)} :
                            gossip_predecessor(p, t, n) = node_id}
           Rounds == round..(round + n - 2)
<1>1. n \in Nat \ {0, 1} /\ node_id \in 0..(n - 1) /\ round \in Nat
  BY ModulusIs DEF WalkInv
<1>2. {Offset(t) : t \in Rounds} = 1..(n - 1)
  BY EveryOffset DEF WalkInv
<1>3. ASSUME NEW t \in Rounds PROVE Targets(t) = {(node_id + Offset(t)) % n}
  <2>1. Offset(t) \in 0..(n - 1)
    <3>1. t \in Nat /\ 2 \in Nat
      BY <1>1
    <3> QED
      BY <1>1, <3>1, NextPower
  <2>2. mod_subtract((node_id + Offset(t)) % n, Offset(t), n) = node_id
    BY <1>1, <2>1, OffsetInverse
  <2> QED
    BY <2>2 DEF gossip_target, gossip_predecessor
<1> HIDE DEF n, Offset, Rounds, Targets
<1>4. UNION {Targets(t) : t \in Rounds} = {(node_id + d) % n : d \in 1..(n - 1)}
  <2>1. \A t \in Rounds : Offset(t) \in 1..(n - 1)
    BY <1>2
  <2>2. \A d \in 1..(n - 1) : \E t \in Rounds : Offset(t) = d
    BY <1>2
  <2> QED
    BY <1>3, <2>1, <2>2
<1>5. UNION {Targets(t) : t \in Rounds} = (0..(n - 1)) \ {node_id}
  BY <1>1, <1>4, OffsetsReach
<1> QED
  BY <1>5 DEF GossipReachesEveryone, n, Rounds, Targets

LEMMA WalkInvariant == WalkSpec => []WalkInv
<1> QED
  BY WalkInitInv, WalkNextInv, PTL DEF WalkSpec

\* Within num_meters - 1 rounds in a row a meter sends to every other meter
\* once, and each of them waits for it in that round.
THEOREM Gossip == WalkSpec => []GossipReachesEveryone
<1> QED
  BY WalkInvariant, GossipFollows, PTL

\* The group of node_id, and the bounds of every group, as the functions that
\* work with them see them.
LEMMA BoundsOfGroups ==
  ASSUME WalkInv
  PROVE  /\ num_meters \in Nat /\ num_groups \in Nat /\ node_id \in Nat /\ node_id < num_meters
         /\ \A m \in 0..(num_meters - 1) : Group(m) \in 0..(num_groups - 1)
         /\ \A g \in 0..(num_groups - 1) :
              /\ group_begin(g, num_groups, num_meters) \in Nat
              /\ group_size_of(g, num_groups, num_meters) \in Nat
              /\ group_size_of(g, num_groups, num_meters) >= 2
              /\ group_begin(g, num_groups, num_meters)
                   + group_size_of(g, num_groups, num_meters) <= num_meters
              /\ \A m \in 0..(num_meters - 1) :
                   Group(m) = g
                     <=> m \in group_begin(g, num_groups, num_meters)
                               ..(group_begin(g, num_groups, num_meters)
                                    + group_size_of(g, num_groups, num_meters) - 1)
<1>1. num_meters \in Nat /\ num_groups \in Nat /\ node_id \in Nat /\ node_id < num_meters
  BY DEF WalkInv, Sizes
<1>2. Sizes(num_groups, num_meters)
  BY DEF WalkInv
<1>3. ASSUME NEW m \in 0..(num_meters - 1) PROVE m \in Nat /\ m < num_meters
  BY <1>1
<1>4. ASSUME NEW m \in 0..(num_meters - 1) PROVE Group(m) \in 0..(num_groups - 1)
  BY <1>2, <1>3, GroupsInOrder DEF Group
<1>5. ASSUME NEW g \in 0..(num_groups - 1)
      PROVE  /\ group_begin(g, num_groups, num_meters) \in Nat
             /\ group_size_of(g, num_groups, num_meters) \in Nat
             /\ group_size_of(g, num_groups, num_meters) >= 2
             /\ group_begin(g, num_groups, num_meters)
                  + group_size_of(g, num_groups, num_meters) <= num_meters
             /\ \A m \in 0..(num_meters - 1) :
                  Group(m) = g
                    <=> m \in group_begin(g, num_groups, num_meters)
                              ..(group_begin(g, num_groups, num_meters)
                                   + group_size_of(g, num_groups, num_meters) - 1)
  <2> DEFINE begin == group_begin(g, num_groups, num_meters)
             size == group_size_of(g, num_groups, num_meters)
  <2>1. /\ begin \in Nat /\ size \in Nat /\ size >= 2 /\ begin + size <= num_meters
        /\ \A m \in Nat : m < num_meters => (Group(m) = g <=> begin <= m /\ m < begin + size)
    BY <1>2, GroupBounds DEF Group
  <2> HIDE DEF begin, size
  <2>2. \A m \in 0..(num_meters - 1) : Group(m) = g <=> m \in begin..(begin + size - 1)
    BY <1>3, <2>1
  <2> QED
    BY <2>1, <2>2 DEF begin, size
<1> QED
  BY <1>1, <1>4, <1>5

\* random_int_exclude leaves out one ID of an interval, and no other.
LEMMA AllButOne ==
  ASSUME NEW begin \in Nat, NEW end \in Nat, begin < end, NEW exclude \in begin..end
  PROVE  random_int_exclude(begin, end, exclude) = (begin..end) \ {exclude}
<1>1. ASSUME NEW choice \in begin..(end - 1)
      PROVE  (IF choice = exclude THEN end ELSE choice) \in (begin..end) \ {exclude}
  OBVIOUS
<1>2. ASSUME NEW p \in (begin..end) \ {exclude}
      PROVE  \E choice \in begin..(end - 1) : p = IF choice = exclude THEN end ELSE choice
  <2>1. CASE p = end
    <3>1. exclude \in begin..(end - 1)
      BY <2>1
    <3> QED
      BY <2>1, <3>1
  <2>2. CASE p # end
    <3>1. p \in begin..(end - 1)
      BY <2>2
    <3> QED
      BY <3>1
  <2> QED
    BY <2>1, <2>2
<1> QED
  BY <1>1, <1>2 DEF random_int_exclude

LEMMA ProxiesFollow ==
  ASSUME WalkInv, NEW g \in 0..(num_groups - 1)
  PROVE  ProxiesMatchGroup(g)
<1> DEFINE begin == group_begin(g, num_groups, num_meters)
           size == group_size_of(g, num_groups, num_meters)
           end == begin + size - 1
<1>1. /\ begin \in Nat /\ size \in Nat /\ size >= 2 /\ begin + size <= num_meters
      /\ \A m \in 0..(num_meters - 1) : Group(m) = g <=> m \in begin..end
      /\ num_meters \in Nat
  BY BoundsOfGroups
<1>2. proxy_candidates(node_id, g, num_groups, num_meters)
        = IF node_id \in begin..end
          THEN random_int_exclude(begin, end, node_id) ELSE begin..end
  BY DEF proxy_candidates
<1> HIDE DEF begin, size
<1>3. end \in Nat /\ begin < end /\ begin..end \subseteq 0..(num_meters - 1)
  BY <1>1
<1> HIDE DEF end
<1>4. proxy_candidates(node_id, g, num_groups, num_meters) = (begin..end) \ {node_id}
  <2>1. CASE node_id \in begin..end
    BY <1>1, <1>2, <1>3, <2>1, AllButOne
  <2>2. CASE node_id \notin begin..end
    BY <1>2, <2>2
  <2> QED
    BY <2>1, <2>2
<1>5. {p \in 0..(num_meters - 1) : Group(p) = g} = begin..end
  BY <1>1, <1>3
<1> QED
  BY <1>4, <1>5 DEF ProxiesMatchGroup

\* The children of p by the arithmetic of aggregation_tree_children.
LEMMA ClaimedBy ==
  ASSUME WalkInv, NEW p \in 0..(num_meters - 1)
  PROVE  LET begin == group_begin(Group(p), num_groups, num_meters)
         IN (\E c \in 1..2 : ChildrenOf(p)[c] = node_id)
              <=> /\ Group(p) = Group(node_id)
                  /\ node_id = 2 * p - begin + 1 \/ node_id = 2 * p - begin + 2
<1> DEFINE begin == group_begin(Group(p), num_groups, num_meters)
           size == group_size_of(Group(p), num_groups, num_meters)
           right == (p - begin + 1) * 2
           Present(relative) == IF relative < size THEN relative + begin ELSE -1
<1>1. node_id \in 0..(num_meters - 1) /\ num_meters \in Nat
  BY BoundsOfGroups DEF WalkInv
<1>2. /\ begin \in Nat /\ size \in Nat /\ begin + size <= num_meters
      /\ \A m \in 0..(num_meters - 1) : Group(m) = Group(p) <=> m \in begin..(begin + size - 1)
  <2>1. Group(p) \in 0..(num_groups - 1)
    BY BoundsOfGroups
  <2> QED
    BY <2>1, BoundsOfGroups
<1>3. p \in begin..(begin + size - 1)
  BY <1>2
<1>4. ChildrenOf(p) = <<Present(right - 1), Present(right)>>
  BY DEF ChildrenOf, aggregation_tree_children, Group
<1> HIDE DEF begin, size
<1>5. right \in Nat /\ right >= 2 /\ right + begin = 2 * p - begin + 2
  BY <1>2, <1>3
<1> HIDE DEF right
<1>6. (\E c \in 1..2 : ChildrenOf(p)[c] = node_id)
        <=> Present(right - 1) = node_id \/ Present(right) = node_id
  <2> HIDE DEF Present
  <2> QED
    BY <1>4
<1>7. ASSUME NEW relative \in Nat
      PROVE  Present(relative) = node_id
               <=> node_id = relative + begin /\ node_id \in begin..(begin + size - 1)
  BY <1>1, <1>2
<1> HIDE DEF Present
<1>8. /\ Present(right - 1) = node_id
           <=> node_id = 2 * p - begin + 1 /\ node_id \in begin..(begin + size - 1)
      /\ Present(right) = node_id
           <=> node_id = 2 * p - begin + 2 /\ node_id \in begin..(begin + size - 1)
  <2>1. right - 1 \in Nat /\ right - 1 + begin = 2 * p - begin + 1
    BY <1>2, <1>3, <1>5
  <2> QED
    BY <1>5, <1>7, <2>1
<1>9. node_id \in begin..(begin + size - 1) <=> Group(p) = Group(node_id)
  BY <1>1, <1>2
<1>10. (\E c \in 1..2 : ChildrenOf(p)[c] = node_id)
        <=> /\ Group(p) = Group(node_id)
            /\ node_id = 2 * p - begin + 1 \/ node_id = 2 * p - begin + 2
  BY <1>6, <1>8, <1>9
<1> QED
  BY <1>10 DEF begin

LEMMA TreeFollows == WalkInv => TreeMatchesGroup
<1> SUFFICES ASSUME WalkInv PROVE TreeMatchesGroup
  OBVIOUS
<1> DEFINE begin == group_begin(Group(node_id), num_groups, num_meters)
           parent == (node_id - begin - 1) \div 2 + begin
           Claims(p) == \E c \in 1..2 : ChildrenOf(p)[c] = node_id
           Meters == 0..(num_meters - 1)
           claimants == {p \in Meters : Claims(p)}
<1>1. node_id \in Meters /\ num_meters \in Nat
  BY BoundsOfGroups DEF WalkInv
<1>2. Group(node_id) \in 0..(num_groups - 1)
  BY <1>1, BoundsOfGroups
<1>3. /\ begin \in Nat
      /\ \A m \in Meters : Group(m) = Group(node_id) => begin <= m
      /\ \A m \in Meters : begin <= m /\ m <= node_id => Group(m) = Group(node_id)
  <2> DEFINE end == begin + group_size_of(Group(node_id), num_groups, num_meters) - 1
  <2>1. begin \in Nat /\ end \in Int
        /\ \A m \in Meters : Group(m) = Group(node_id) <=> m \in begin..end
    BY <1>2, BoundsOfGroups
  <2> HIDE DEF begin, end
  <2> QED
    BY <1>1, <2>1
<1>4. ASSUME NEW p \in Meters
      PROVE  Claims(p) <=> /\ Group(p) = Group(node_id)
                           /\ node_id = 2 * p - begin + 1 \/ node_id = 2 * p - begin + 2
  BY ClaimedBy
<1>5. ParentOf(node_id) = IF node_id = begin THEN -1 ELSE parent
  BY DEF ParentOf, aggregation_tree_parent, Group
<1>6. node_id # begin => parent \in Nat /\ begin <= parent /\ parent < node_id
  <2> HIDE DEF begin
  <2> QED
    BY <1>1, <1>3
<1>7. ASSUME NEW p \in Meters, Claims(p) PROVE node_id # begin /\ p = parent
  <2>1. begin <= p /\ (node_id = 2 * p - begin + 1 \/ node_id = 2 * p - begin + 2)
    BY <1>3, <1>4, <1>7
  <2> HIDE DEF begin
  <2> QED
    BY <1>1, <1>3, <2>1
<1>8. ASSUME node_id # begin
      PROVE  parent \in Meters /\ Group(parent) = Group(node_id) /\ Claims(parent)
  <2>1. parent \in Meters
    BY <1>1, <1>6, <1>8
  <2>2. Group(parent) = Group(node_id)
    BY <1>1, <1>3, <1>6, <1>8, <2>1
  <2>3. node_id = 2 * parent - begin + 1 \/ node_id = 2 * parent - begin + 2
    <3> HIDE DEF begin
    <3> QED
      BY <1>1, <1>3, <1>8
  <2> QED
    BY <1>4, <2>1, <2>2, <2>3
<1>9. ASSUME node_id = begin, NEW other \in 0..(node_id - 1)
      PROVE  Group(other) < Group(node_id)
  <2>1. other \in Meters /\ other < begin
    BY <1>1, <1>9
  <2>2. Group(other) \in 0..(num_groups - 1)
    BY <2>1, BoundsOfGroups
  <2>3. group_begin(Group(other), num_groups, num_meters) <= other
        /\ group_begin(Group(other), num_groups, num_meters) \in Nat
    BY <2>1, <2>2, BoundsOfGroups
  <2>4. ~(begin <= group_begin(Group(other), num_groups, num_meters))
    <3> HIDE DEF begin
    <3> QED
      BY <1>3, <2>1, <2>3
  <2>5. ~(Group(node_id) <= Group(other))
    BY <1>2, <2>2, <2>4, GroupsInOrder DEF WalkInv
  <2> QED
    BY <1>2, <2>2, <2>5
<1>10. CASE node_id = begin
  <2>1. ParentOf(node_id) = -1 /\ claimants = {}
    BY <1>5, <1>7, <1>10
  <2>2. \A other \in 0..(node_id - 1) : Group(other) < Group(node_id)
    BY <1>9, <1>10
  <2> HIDE DEF begin, parent
  <2> QED
    BY <2>1, <2>2 DEF TreeMatchesGroup
<1>11. CASE node_id # begin
  <2>1. ParentOf(node_id) = parent /\ parent # -1 /\ parent < node_id
    BY <1>5, <1>6, <1>11
  <2>2. claimants = {parent} /\ Group(parent) = Group(node_id)
    <3> HIDE DEF parent
    <3> QED
      BY <1>7, <1>8, <1>11
  <2> HIDE DEF begin, parent
  <2> QED
    BY <2>1, <2>2 DEF TreeMatchesGroup
<1> QED
  BY <1>10, <1>11

\* The functions that work out the bounds of the groups for themselves agree on
\* them: proxies are chosen from the whole group and not beyond it, and the
\* tree of a group has one root and each of its meters at one place.
THEOREM Groups == WalkSpec => []GroupsAgree
<1>1. WalkInv => GroupsAgree
  BY TreeFollows, ProxiesFollow DEF GroupsAgree
<1> QED
  BY <1>1, WalkInvariant, PTL

------------------------------------------------------------------------------
(* The proxies that the walk picks, and the paths to them. *)

\* The proxies picked so far are members of the first groups, one of each.
ProxiesInOrder ==
  /\ proxies \in Seq(0..(num_meters - 1))
  /\ \A i \in DOMAIN proxies : Group(proxies[i]) = i - 1

LEMMA PickKeepsOrder ==
  ASSUME WalkInv, ProxiesInOrder, PickProxy
  PROVE  ProxiesInOrder'
<1> DEFINE k == Len(proxies)
<1>1. proxies \in Seq(0..(num_meters - 1)) /\ k \in Nat /\ DOMAIN proxies = 1..k
  BY DEF ProxiesInOrder
<1>2. PICK p \in IF round > 0 /\ Group(node_id) = k THEN {node_id}
                 ELSE proxy_candidates(node_id, k, num_groups, num_meters) :
        proxies' = Append(proxies, p)
  BY DEF PickProxy
<1>3. k \in 0..(num_groups - 1)
  BY <1>1 DEF PickProxy, WalkInv, Sizes
<1> HIDE DEF k
<1>4. p \in 0..(num_meters - 1) /\ Group(p) = k
  <2>1. CASE round > 0 /\ Group(node_id) = k
    BY <1>2, <2>1 DEF WalkInv
  <2>2. CASE ~ (round > 0 /\ Group(node_id) = k)
    <3>1. ProxiesMatchGroup(k)
      BY <1>3, ProxiesFollow
    <3> QED
      BY <1>2, <2>2, <3>1 DEF ProxiesMatchGroup
  <2> QED
    BY <2>1, <2>2
<1>5. /\ proxies' \in Seq(0..(num_meters - 1)) /\ Len(proxies') = k + 1
      /\ proxies'[k + 1] = p
      /\ \A i \in 1..k : proxies'[i] = proxies[i]
  BY <1>1, <1>2, <1>4, AppendProperties DEF k
<1>6. DOMAIN proxies' = 1..(k + 1)
  BY <1>5
<1>7. UNCHANGED <<num_meters, num_groups>>
  BY DEF PickProxy
<1>8. ASSUME NEW i \in 1..(k + 1) PROVE Group(proxies'[i]) = i - 1
  <2>1. CASE i = k + 1
    BY <1>1, <1>4, <1>5, <2>1
  <2>2. CASE i \in 1..k
    BY <1>1, <1>5, <2>2 DEF ProxiesInOrder
  <2> QED
    BY <1>1, <2>1, <2>2
<1> QED
  BY <1>5, <1>6, <1>7, <1>8 DEF ProxiesInOrder, Group

LEMMA ProxiesInOrderInvariant == WalkSpec => []ProxiesInOrder
<1>1. WalkInit => ProxiesInOrder
  BY DEF WalkInit, ProxiesInOrder
<1>2. WalkInv /\ ProxiesInOrder /\ [WalkNext]_walk_vars => ProxiesInOrder'
  <2> SUFFICES ASSUME WalkInv, ProxiesInOrder, [WalkNext]_walk_vars PROVE ProxiesInOrder'
    OBVIOUS
  <2>1. CASE UNCHANGED <<num_meters, num_groups, proxies>>
    BY <2>1 DEF ProxiesInOrder, Group
  <2>2. CASE PickProxy
    BY <2>2, PickKeepsOrder
  <2> QED
    BY <2>1, <2>2 DEF WalkNext, NextRound, NextNode, NextPhase, walk_vars
<1> QED
  BY <1>1, <1>2, WalkInvariant, PTL DEF WalkSpec

\* The paths that find_paths finds to proxies of different groups share no
\* node: no relay that fails is on two of them.
THEOREM Disjoint == WalkSpec => []PathsDisjoint
<1>1. WalkInv /\ ProxiesInOrder => PathsDisjoint
  <2> SUFFICES ASSUME WalkInv, ProxiesInOrder PROVE PathsDisjoint
    OBVIOUS
  <2>1. num_meters \in Nat \ {0, 1} /\ node_id \in 0..(num_meters - 1) /\ round \in Nat
    BY ModulusIs DEF WalkInv
  <2>2. proxies \in Seq(0..(num_meters - 1))
    BY DEF ProxiesInOrder
  <2>3. \A i, j \in DOMAIN proxies : i # j => proxies[i] # proxies[j]
    <3> SUFFICES ASSUME NEW i \in DOMAIN proxies, NEW j \in DOMAIN proxies,
                        proxies[i] = proxies[j]
                 PROVE  i = j
      OBVIOUS
    <3>1. i - 1 = j - 1
      BY DEF ProxiesInOrder
    <3> QED
      BY <2>2, <3>1
  <2>4. CASE Len(proxies) < num_groups
    <3>1. Paths = <<>>
      BY <2>4 DEF Paths
    <3> QED
      BY <3>1 DEF PathsDisjoint
  <2>5. CASE ~ (Len(proxies) < num_groups)
    <3>1. Paths = find_paths(node_id, RemoveFirst(proxies, node_id), num_meters, round)
      BY <2>5 DEF Paths
    <3>2. \A i, j \in DOMAIN Paths :
            /\ node_id \notin Range(Paths[i])
            /\ i # j => Range(Paths[i]) \cap Range(Paths[j]) = {}
      BY <2>1, <2>2, <2>3, <3>1, PathsToOthers
    <3> QED
      BY <3>2 DEF PathsDisjoint
  <2> QED
    BY <2>4, <2>5
<1> QED
  BY <1>1, WalkInvariant, ProxiesInOrderInvariant, PTL

==============================================================================
