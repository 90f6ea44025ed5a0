--------------------------- MODULE CategoryProofs ---------------------------
(***************************************************************************)
(* getCategoryTree of CategoryTree, for any number of categories and in    *)
(* whatever order and shape they are created: the recursion ends, and the  *)
(* tree it returns shows every category below its parent.                  *)
(*                                                                         *)
(* A category is created after its parent, so that categories have ranks   *)
(* that grow from parent to child and are at most as many as the           *)
(* categories.  What is recursive is shown along the ranks, by the least   *)
(* counterexample there would be.                                          *)
(***************************************************************************)
EXTENDS CategoryTree, FiniteSetTheorems, TLAPS

-----------------------------------------------------------------------------
(* Ranks.                                                                   *)

\* A table with ranks: a child has a greater rank than its parent.
Ranked(all, rank, n) ==
    /\ n \in Nat /\ rank \in [{0} \cup DOMAIN all -> 0..n]
    /\ 0 \notin DOMAIN all /\ rank[0] = 0
    /\ all \in [DOMAIN all -> {0} \cup DOMAIN all]
    /\ \A c \in DOMAIN all : rank[all[c]] < rank[c]

\* The inductive invariant: there are as many ranks as categories.
TreeInv == /\ IsFiniteSet(DOMAIN rows)
           /\ \E rank : Ranked(rows, rank, Cardinality(DOMAIN rows))

LEMMA TreeInvInit == TreeInit => TreeInv
<1> SUFFICES ASSUME TreeInit PROVE TreeInv
    OBVIOUS
<1>1. DOMAIN rows = {} /\ rows = [c \in {} |-> 0]
    BY DEF TreeInit
<1>2. IsFiniteSet(DOMAIN rows) /\ Cardinality(DOMAIN rows) = 0
    BY <1>1, FS_EmptySet
<1>3. Ranked(rows, [p \in {0} |-> 0], 0)
    BY <1>1 DEF Ranked
<1> QED
    BY <1>2, <1>3 DEF TreeInv

\* A new category gets the next rank.
LEMMA TreeInvNext == TreeInv /\ [TreeNext]_treeVars => TreeInv'
<1> SUFFICES ASSUME TreeInv, [TreeNext]_treeVars PROVE TreeInv'
    OBVIOUS
<1>1. CASE UNCHANGED treeVars
    BY <1>1 DEF treeVars, TreeInv
<1>2. ASSUME NEW c \in CategoryId, CreateCategory(c) PROVE TreeInv'
  <2>1. c \notin {0} \cup DOMAIN rows
      BY <1>2 DEF CreateCategory
  <2>2. PICK parent \in {0} \cup DOMAIN rows :
            rows' = [d \in DOMAIN rows \cup {c} |-> IF d = c THEN parent ELSE rows[d]]
      BY <1>2 DEF CreateCategory
  <2>3. PICK n : n = Cardinality(DOMAIN rows)
      OBVIOUS
  <2>4. PICK rank : Ranked(rows, rank, n)
      BY <2>3 DEF TreeInv
  <2>5. DOMAIN rows' = DOMAIN rows \cup {c}
      BY <2>2
  <2>6. IsFiniteSet(DOMAIN rows') /\ Cardinality(DOMAIN rows') = n + 1
      BY <2>1, <2>3, <2>5, FS_AddElement DEF TreeInv
  <2> DEFINE next == [p \in {0} \cup DOMAIN rows \cup {c} |-> IF p = c THEN n + 1 ELSE rank[p]]
  <2>7. Ranked(rows', next, n + 1)
    <3>1. n \in Nat /\ rank \in [{0} \cup DOMAIN rows -> 0..n] /\ rank[0] = 0
        BY <2>4 DEF Ranked
    <3>2. \A p \in {0} \cup DOMAIN rows : next[p] = rank[p] /\ rank[p] \in 0..n
        BY <2>1, <3>1
    <3>3. next[c] = n + 1
        OBVIOUS
    <3>4. next \in [{0} \cup DOMAIN rows' -> 0..(n + 1)]
        BY <2>5, <3>1, <3>2
    <3>5. rows' \in [DOMAIN rows' -> {0} \cup DOMAIN rows']
        BY <2>2, <2>4, <2>5 DEF Ranked
    <3>6. \A d \in DOMAIN rows' : next[rows'[d]] < next[d]
      <4>1. next[rows'[c]] < next[c]
          BY <2>2, <3>1, <3>2, <3>3
      <4>2. ASSUME NEW d \in DOMAIN rows PROVE next[rows'[d]] < next[d]
        <5>1. rows'[d] = rows[d] /\ rows[d] \in {0} \cup DOMAIN rows
            BY <2>1, <2>2, <2>4 DEF Ranked
        <5>2. rank[rows[d]] < rank[d]
            BY <2>4 DEF Ranked
        <5> QED
            BY <3>2, <5>1, <5>2
      <4> QED
          BY <2>5, <4>1, <4>2
    <3>7. 0 \notin DOMAIN rows' /\ next[0] = 0
        BY <2>1, <2>4, <2>5, <3>1, <3>2 DEF Ranked
    <3> HIDE DEF next
    <3> QED
        BY <3>1, <3>4, <3>5, <3>6, <3>7 DEF Ranked
  <2> QED
      BY <2>6, <2>7 DEF TreeInv
<1> QED
    BY <1>1, <1>2 DEF TreeNext

\* A set of natural numbers has a least one.
LEMMA Least ==
    ASSUME NEW S, S \subseteq Nat, S # {}
    PROVE  \E n \in S : \A m \in S : ~(m < n)
<1> DEFINE R == OpToRel(<, Nat)
<1>1. IsWellFoundedOn(R, Nat)
    BY NatLessThanWellFounded
<1>2. \A m, n \in Nat : m < n => <<m, n>> \in R
    BY DEF OpToRel
<1> HIDE DEF R
<1>3. PICK n \in S : \A m \in S : ~(<<m, n>> \in R)
    BY <1>1, WFMin
<1> QED
    BY <1>2, <1>3

-----------------------------------------------------------------------------
(* The recursion of getCategoryTree.                                        *)

\* Subtrees for a set of parents.
Subtrees(tree, all, P) ==
    tree = [p \in P |-> {[id |-> c, children |-> tree[c]] : c \in Children(all, p)}]

\* The parents from a rank on.
From(all, rank, k) == {p \in {0} \cup DOMAIN all : rank[p] >= k}

\* The subtrees from a rank on, by those from the next.
LEMMA OneRankMore ==
    ASSUME NEW all, NEW rank, NEW n, Ranked(all, rank, n), NEW k \in Nat,
           NEW tree, Subtrees(tree, all, From(all, rank, k + 1))
    PROVE  \E more : Subtrees(more, all, From(all, rank, k))
<1> DEFINE P == From(all, rank, k)
           Q == From(all, rank, k + 1)
           more == [p \in P |-> {[id |-> c, children |-> tree[c]] : c \in Children(all, p)}]
<1>1. \A p \in {0} \cup DOMAIN all : rank[p] \in Nat
    BY DEF Ranked
<1>2. ASSUME NEW p \in P, NEW c \in Children(all, p) PROVE c \in Q
  <2>1. c \in DOMAIN all /\ all[c] = p /\ p \in {0} \cup DOMAIN all /\ rank[p] >= k
      BY DEF Children, From
  <2>2. rank[p] < rank[c]
      BY <2>1 DEF Ranked
  <2>3. rank[p] \in Nat /\ rank[c] \in Nat
      BY <1>1, <2>1
  <2>4. rank[c] >= k + 1
      BY <2>1, <2>2, <2>3
  <2> QED
      BY <2>1, <2>4 DEF From
<1>3. Q \subseteq P
  <2> SUFFICES ASSUME NEW p \in Q PROVE p \in P
      OBVIOUS
  <2>1. p \in {0} \cup DOMAIN all /\ rank[p] >= k + 1
      BY DEF From
  <2>2. rank[p] \in Nat
      BY <1>1, <2>1
  <2>3. rank[p] >= k
      BY <2>1, <2>2
  <2> QED
      BY <2>1, <2>3 DEF From
<1>4. ASSUME NEW p \in Q PROVE more[p] = tree[p]
  <2>1. tree[p] = {[id |-> c, children |-> tree[c]] : c \in Children(all, p)}
      BY DEF Subtrees
  <2> QED
      BY <1>3, <2>1
<1>5. ASSUME NEW p \in P
      PROVE  more[p] = {[id |-> c, children |-> more[c]] : c \in Children(all, p)}
  <2>1. \A c \in Children(all, p) : more[c] = tree[c]
      BY <1>2, <1>4
  <2>2. more[p] = {[id |-> c, children |-> tree[c]] : c \in Children(all, p)}
      OBVIOUS
  <2> HIDE DEF more
  <2> QED
      BY <2>1, <2>2
<1>6. more = [p \in P |-> more[p]]
    OBVIOUS
<1> HIDE DEF more, P
<1>7. Subtrees(more, all, P)
    BY <1>5, <1>6 DEF Subtrees
<1> QED
    BY <1>7 DEF P

\* The recursion ends, on every table with ranks.
LEMMA TreesExist ==
    ASSUME NEW all, NEW rank, NEW n, Ranked(all, rank, n)
    PROVE  \E tree : Subtrees(tree, all, {0} \cup DOMAIN all)
<1> DEFINE Has(k) == \E tree : Subtrees(tree, all, From(all, rank, k))
           Missing == {j \in Nat : j <= n + 1 /\ ~Has(n + 1 - j)}
<1>1. n \in Nat /\ \A p \in {0} \cup DOMAIN all : rank[p] \in 0..n
    BY DEF Ranked
<1>2. Has(n + 1)
  <2>1. From(all, rank, n + 1) = {}
    <3> SUFFICES ASSUME NEW p \in From(all, rank, n + 1) PROVE FALSE
        OBVIOUS
    <3>1. p \in {0} \cup DOMAIN all /\ rank[p] >= n + 1
        BY DEF From
    <3>2. rank[p] \in Nat /\ rank[p] <= n
        BY <1>1, <3>1
    <3> QED
        BY <1>1, <3>1, <3>2
  <2>2. Subtrees([p \in {} |-> {}], all, {})
      BY DEF Subtrees
  <2> QED
      BY <2>1, <2>2
<1>3. \A k \in Nat : Has(k + 1) => Has(k)
    BY OneRankMore
<1> HIDE DEF Has
<1>4. Missing = {}
  <2>1. SUFFICES ASSUME Missing # {} PROVE FALSE
      OBVIOUS
  <2>2. PICK j \in Missing : \A i \in Missing : ~(i < j)
      BY <2>1, Least
  <2>3. j # 0
      BY <1>1, <1>2
  <2>4. j - 1 \in Nat /\ j - 1 < j /\ j - 1 <= n + 1 /\ n + 1 - j \in Nat
      BY <1>1, <2>3
  <2>5. Has(n + 1 - (j - 1))
      BY <2>2, <2>4
  <2>6. n + 1 - (j - 1) = (n + 1 - j) + 1
      BY <1>1
  <2>7. Has(n + 1 - j)
      BY <1>3, <2>4, <2>5, <2>6
  <2> QED
      BY <2>7
<1>5. Has(0)
  <2>1. n + 1 \in Nat /\ n + 1 - (n + 1) = 0
      BY <1>1
  <2> QED
      BY <1>4, <2>1
<1>6. From(all, rank, 0) = {0} \cup DOMAIN all
  <2>1. ASSUME NEW p \in {0} \cup DOMAIN all PROVE rank[p] >= 0
    <3>1. rank[p] \in Nat
        BY <1>1
    <3> QED
        BY <3>1
  <2> QED
      BY <2>1 DEF From
<1> QED
    BY <1>5, <1>6 DEF Has

\* What getCategoryTree returns below a parent: its children, with theirs.
LEMMA TreeBuilt ==
    ASSUME NEW all, NEW rank, NEW n, Ranked(all, rank, n)
    PROVE  \A p \in {0} \cup DOMAIN all :
               BuildTree(all, p)
                   = {[id |-> c, children |-> BuildTree(all, c)] : c \in Children(all, p)}
<1> DEFINE P == {0} \cup DOMAIN all
           built == CHOOSE tree : Subtrees(tree, all, P)
<1>1. Subtrees(built, all, P)
    BY TreesExist
<1>2. \A p : BuildTree(all, p) = built[p]
    BY DEF BuildTree, Subtrees
<1> HIDE DEF built
<1>3. \A p \in P : built[p] = {[id |-> c, children |-> built[c]] : c \in Children(all, p)}
    BY <1>1 DEF Subtrees
<1> QED
    BY <1>2, <1>3

-----------------------------------------------------------------------------
(* What the tree shows.                                                     *)

\* The nodes of a forest at each depth.
Levels(nodes, forest, k) ==
    nodes = [d \in 0..k |-> IF d = 0 THEN {[id |-> 0, children |-> forest]}
                                     ELSE UNION {n.children : n \in nodes[d - 1]}]

\* The nodes down to a depth give those of the next.
LEMMA OneLevelMore ==
    ASSUME NEW forest, NEW k \in Nat, NEW nodes, Levels(nodes, forest, k)
    PROVE  \E more : Levels(more, forest, k + 1)
<1> DEFINE below(f, d) == UNION {n.children : n \in f[d - 1]}
           root == {[id |-> 0, children |-> forest]}
           more == [d \in 0..(k + 1) |-> IF d <= k THEN nodes[d] ELSE below(nodes, d)]
<1>1. \A d \in 0..k : nodes[d] = IF d = 0 THEN root ELSE below(nodes, d)
    BY DEF Levels
<1>2. \A d \in 0..k : d \in 0..(k + 1) /\ d <= k
    OBVIOUS
<1>3. \A d \in 0..k : more[d] = nodes[d]
    BY <1>2
<1>4. more[k + 1] = below(nodes, k + 1)
    OBVIOUS
<1>5. \A d \in 0..(k + 1) : d = 0 \/ d - 1 \in 0..k
    OBVIOUS
<1>6. more = [d \in 0..(k + 1) |-> more[d]]
    OBVIOUS
<1>7. \A d \in 0..(k + 1) : d \in 0..k \/ d = k + 1
    OBVIOUS
<1>8. 0 \in 0..k /\ k + 1 # 0
    OBVIOUS
<1> HIDE DEF more
<1>9. ASSUME NEW d \in 0..(k + 1), d # 0 PROVE below(more, d) = below(nodes, d)
    BY <1>3, <1>5, <1>9
<1> HIDE DEF root, below
<1>10. \A d \in 0..(k + 1) : more[d] = IF d = 0 THEN root ELSE below(more, d)
    BY <1>1, <1>3, <1>4, <1>7, <1>8, <1>9
<1>11. more = [d \in 0..(k + 1) |-> IF d = 0 THEN root ELSE below(more, d)]
    BY <1>6, <1>10
<1> QED
    BY <1>11 DEF Levels, root, below

LEMMA LevelsExist ==
    ASSUME NEW forest, NEW depth \in Nat
    PROVE  \E nodes : Levels(nodes, forest, depth)
<1> DEFINE Has(k) == \E nodes : Levels(nodes, forest, k)
           Missing == {k \in Nat : ~Has(k)}
<1>1. Has(0)
  <2>1. Levels([d \in 0..0 |-> {[id |-> 0, children |-> forest]}], forest, 0)
      BY DEF Levels
  <2> QED
      BY <2>1
<1>2. \A k \in Nat : Has(k) => Has(k + 1)
    BY OneLevelMore
<1> HIDE DEF Has
<1>3. SUFFICES ASSUME Missing # {} PROVE FALSE
    BY DEF Has
<1>4. PICK k \in Missing : \A j \in Missing : ~(j < k)
    BY <1>3, Least
<1>5. k - 1 \in Nat /\ k - 1 < k /\ (k - 1) + 1 = k
    BY <1>1
<1> QED
    BY <1>2, <1>4, <1>5

\* The node of a category, and of null.
Node(all, p) == [id |-> p, children |-> BuildTree(all, p)]

\* Every node of the tree is that of a category or of null.
LEMMA NodesAreCategories ==
    ASSUME NEW all, NEW rank, NEW n, Ranked(all, rank, n), NEW depth \in Nat,
           NEW nodes, Levels(nodes, BuildTree(all, 0), depth)
    PROVE  \A d \in 0..depth : \A m \in nodes[d] :
               \E p \in {0} \cup DOMAIN all : m = Node(all, p)
<1> DEFINE P == {0} \cup DOMAIN all
           Good(d) == \A m \in nodes[d] : \E p \in P : m = Node(all, p)
           Bad == {d \in 0..depth : ~Good(d)}
<1>1. nodes[0] = {Node(all, 0)}
    BY DEF Levels, Node
<1>2. \A d \in 0..depth : d # 0 => nodes[d] = UNION {m.children : m \in nodes[d - 1]}
    BY DEF Levels
<1>3. Good(0)
    BY <1>1
<1>4. ASSUME NEW d \in 0..depth, d # 0, Good(d - 1) PROVE Good(d)
  <2>1. SUFFICES ASSUME NEW m \in nodes[d] PROVE \E p \in P : m = Node(all, p)
      OBVIOUS
  <2>2. PICK above \in nodes[d - 1] : m \in above.children
      BY <1>2, <1>4
  <2>3. PICK p \in P : above = Node(all, p)
      BY <1>4
  <2>4. m \in BuildTree(all, p)
      BY <2>2, <2>3 DEF Node
  <2>5. PICK c \in Children(all, p) : m = [id |-> c, children |-> BuildTree(all, c)]
      BY <2>4, TreeBuilt
  <2> QED
      BY <2>5 DEF Children, Node
<1> HIDE DEF Good
<1>5. SUFFICES ASSUME Bad # {} PROVE FALSE
    BY DEF Good
<1>6. Bad \subseteq Nat
    OBVIOUS
<1>7. PICK d \in Bad : \A e \in Bad : ~(e < d)
    BY <1>5, <1>6, Least
<1>8. d # 0 /\ d - 1 \in 0..depth /\ d - 1 < d
    BY <1>3
<1> QED
    BY <1>4, <1>7, <1>8

\* Every category has its node, at a depth its rank bounds.
LEMMA CategoriesHaveNodes ==
    ASSUME NEW all, NEW rank, NEW n, Ranked(all, rank, n),
           NEW nodes, Levels(nodes, BuildTree(all, 0), n)
    PROVE  \A p \in {0} \cup DOMAIN all : \E d \in 0..rank[p] : Node(all, p) \in nodes[d]
<1> DEFINE P == {0} \cup DOMAIN all
           Shown(p) == \E d \in 0..rank[p] : Node(all, p) \in nodes[d]
           Missing == {p \in P : ~Shown(p)}
           Ranks == {rank[p] : p \in Missing}
<1>1. n \in Nat /\ \A p \in P : rank[p] \in 0..n
    BY DEF Ranked
<1>2. \A d \in 0..n : d # 0 => nodes[d] = UNION {m.children : m \in nodes[d - 1]}
    BY DEF Levels
<1>3. Shown(0)
  <2>1. nodes[0] = {Node(all, 0)}
      BY <1>1 DEF Levels, Node
  <2>2. rank[0] = 0
      BY DEF Ranked
  <2> QED
      BY <2>1, <2>2
<1>4. ASSUME NEW c \in DOMAIN all, Shown(all[c]) PROVE Shown(c)
  <2>1. all[c] \in P /\ c \in Children(all, all[c])
      BY DEF Ranked, Children
  <2>2. PICK d \in 0..rank[all[c]] : Node(all, all[c]) \in nodes[d]
      BY <1>4
  <2>3. Node(all, c) \in BuildTree(all, all[c])
      BY <2>1, TreeBuilt DEF Node
  <2>4. Node(all, c) \in Node(all, all[c]).children
      BY <2>3 DEF Node
  <2>5. rank[all[c]] < rank[c]
      BY DEF Ranked
  <2>6. rank[all[c]] \in 0..n /\ rank[c] \in 0..n
      BY <1>1, <2>1
  <2>7. d + 1 \in 0..n /\ d + 1 \in 0..rank[c] /\ d + 1 # 0 /\ (d + 1) - 1 = d
      BY <1>1, <2>5, <2>6
  <2>8. nodes[d + 1] = UNION {m.children : m \in nodes[d]}
      BY <1>2, <2>7
  <2>9. Node(all, c) \in nodes[d + 1]
      BY <2>2, <2>4, <2>8
  <2> QED
      BY <2>7, <2>9
<1> HIDE DEF Shown
<1>5. SUFFICES ASSUME Missing # {} PROVE FALSE
    BY DEF Shown
<1>6. Ranks \subseteq Nat /\ Ranks # {}
  <2>1. \A p \in P : rank[p] \in Nat
      BY <1>1
  <2> QED
      BY <1>5, <2>1
<1>7. PICK k \in Ranks : \A j \in Ranks : ~(j < k)
    BY <1>6, Least
<1>8. PICK c \in Missing : k = rank[c]
    OBVIOUS
<1>9. c \in DOMAIN all
    BY <1>3
<1>10. all[c] \in P /\ rank[all[c]] < rank[c]
    BY <1>9 DEF Ranked
<1>11. Shown(all[c])
    BY <1>7, <1>8, <1>10
<1> QED
    BY <1>4, <1>9, <1>11

\* The edges of the tree are those of the table.
LEMMA TreeShowsTable ==
    ASSUME NEW all, NEW rank, NEW n, Ranked(all, rank, n)
    PROVE  Edges(BuildTree(all, 0), n) = {<<c, all[c]>> : c \in DOMAIN all}
<1> DEFINE P == {0} \cup DOMAIN all
           forest == BuildTree(all, 0)
           levels == CHOOSE nodes : Levels(nodes, forest, n)
           every == UNION {levels[d] : d \in 0..n}
           Under(m) == {<<child.id, m.id>> : child \in m.children}
<1>1. n \in Nat /\ \A p \in P : rank[p] \in 0..n
    BY DEF Ranked
<1>2. Levels(levels, forest, n)
    BY <1>1, LevelsExist
<1>3. Edges(forest, n) = UNION {Under(m) : m \in every}
    BY DEF Edges, Levels
<1> HIDE DEF levels
<1>4. \A m \in every : \E p \in P : m = Node(all, p)
    BY <1>1, <1>2, NodesAreCategories
<1>5. \A p \in P : Node(all, p) \in every
  <2>1. SUFFICES ASSUME NEW p \in P PROVE Node(all, p) \in every
      OBVIOUS
  <2>2. PICK d \in 0..rank[p] : Node(all, p) \in levels[d]
      BY <1>2, CategoriesHaveNodes
  <2>3. rank[p] \in 0..n
      BY <1>1
  <2>4. d \in 0..n
      BY <1>1, <2>3
  <2> QED
      BY <2>2, <2>4
<1>6. ASSUME NEW p \in P PROVE Under(Node(all, p)) = {<<c, p>> : c \in Children(all, p)}
  <2>1. BuildTree(all, p) = {[id |-> c, children |-> BuildTree(all, c)] : c \in Children(all, p)}
      BY TreeBuilt
  <2>2. Node(all, p).id = p /\ Node(all, p).children = BuildTree(all, p)
      BY DEF Node
  <2>3. \A c : [id |-> c, children |-> BuildTree(all, c)].id = c
      OBVIOUS
  <2>4. Under(Node(all, p)) = {<<child.id, p>> : child \in BuildTree(all, p)}
      BY <2>2
  <2>5. ASSUME NEW e \in Under(Node(all, p)) PROVE \E c \in Children(all, p) : e = <<c, p>>
    <3>1. PICK child \in BuildTree(all, p) : e = <<child.id, p>>
        BY <2>4
    <3>2. PICK c \in Children(all, p) : child = [id |-> c, children |-> BuildTree(all, c)]
        BY <2>1
    <3> QED
        BY <2>3, <3>1, <3>2
  <2>6. ASSUME NEW c \in Children(all, p) PROVE <<c, p>> \in Under(Node(all, p))
    <3>1. [id |-> c, children |-> BuildTree(all, c)] \in BuildTree(all, p)
        BY <2>1
    <3> HIDE DEF Under
    <3> QED
        BY <2>3, <2>4, <3>1
  <2> HIDE DEF Under
  <2> QED
      BY <2>5, <2>6
<1> HIDE DEF every, Under
<1>7. UNION {Under(m) : m \in every} = UNION {{<<c, p>> : c \in Children(all, p)} : p \in P}
  <2> DEFINE Below(p) == {<<c, p>> : c \in Children(all, p)}
  <2>1. \A p \in P : Under(Node(all, p)) = Below(p)
      BY <1>6
  <2> HIDE DEF Below
  <2>2. ASSUME NEW m \in every PROVE \E p \in P : Under(m) = Below(p)
      BY <1>4, <2>1
  <2>3. ASSUME NEW p \in P PROVE \E m \in every : Under(m) = Below(p)
      BY <1>5, <2>1
  <2>4. {Under(m) : m \in every} = {Below(p) : p \in P}
      BY <2>2, <2>3
  <2> QED
      BY <2>4 DEF Below
<1>8. \A c \in DOMAIN all : all[c] \in P
    BY DEF Ranked
<1>9. UNION {{<<c, p>> : c \in Children(all, p)} : p \in P} = {<<c, all[c]>> : c \in DOMAIN all}
    BY <1>8 DEF Children
<1> QED
    BY <1>3, <1>7, <1>9

-----------------------------------------------------------------------------
(* The theorem.                                                             *)

\* getCategoryTree (category_usecases.ts) loses no category and shows each below
\* its own parent, at any depth and in whatever order they were created.
THEOREM TreesAreComplete == TreeSpec => []TreeShowsEveryCategory
<1>1. TreeInv => TreeShowsEveryCategory
    BY TreeShowsTable DEF TreeInv, TreeShowsEveryCategory
<1> QED
    BY <1>1, TreeInvInit, TreeInvNext, PTL DEF TreeSpec

\* No category is its own ancestor: of whatever categories, one has its parent
\* outside of them.  The recursion of buildTree comes to an end, and every category
\* is below a root (category_usecases.ts).
NoCycle ==
    \A S \in SUBSET DOMAIN rows : S # {} => \E c \in S : rows[c] \notin S

LEMMA RanksForbidCycles ==
    ASSUME NEW all, NEW rank, NEW n, Ranked(all, rank, n),
           NEW S, S \subseteq DOMAIN all, S # {}
    PROVE  \E c \in S : all[c] \notin S
<1> DEFINE Ranks == {rank[c] : c \in S}
<1>1. \A c \in DOMAIN all : rank[c] \in Nat /\ rank[all[c]] < rank[c]
    BY DEF Ranked
<1>2. Ranks \subseteq Nat /\ Ranks # {}
    BY <1>1
<1>3. PICK k \in Ranks : \A m \in Ranks : ~(m < k)
  <2> HIDE DEF Ranks
  <2> QED
      BY <1>2, Least
<1>4. PICK c \in S : rank[c] = k
    BY <1>3
<1>5. rank[all[c]] \notin Ranks
    BY <1>1, <1>3, <1>4
<1> QED
    BY <1>4, <1>5

\* Whatever is created, and in whatever order, no category becomes its own
\* ancestor (createCategory).
THEOREM CategoriesEndAtRoots == TreeSpec => []NoCycle
<1>1. TreeInv => NoCycle
    BY RanksForbidCycles DEF TreeInv, NoCycle
<1> QED
    BY <1>1, TreeInvInit, TreeInvNext, PTL DEF TreeSpec
=============================================================================
