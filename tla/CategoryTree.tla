---------------------------- MODULE CategoryTree ----------------------------
(***************************************************************************)
(* The categories of the product service: their creation, and the tree     *)
(* getCategoryTree makes of the flat table.                                *)
(***************************************************************************)
EXTENDS Naturals, FiniteSets

CONSTANT CategoryId     \* identifiers, positive numbers; 0 stands for null

VARIABLES
    rows,      \* the table: the parent of each category that exists
    wanted     \* history: the parent its request named

treeVars == <<rows, wanted>>

\* What a request names its parent: the field the API documents, and the one the
\* code reads.
Field == {"parent_id", "parentId"}

\* CategoryController hands the body on as it is, and createCategory reads parentId;
\* the id is new, and the foreign key asks for a parent that exists.
CreateCategory(c) ==
    /\ c \notin {0} \cup DOMAIN rows
    /\ \E p \in {0} \cup DOMAIN rows, field \in Field :
           LET stored == IF field = "parentId" THEN p ELSE 0
           IN  /\ rows' = [d \in DOMAIN rows \cup {c} |-> IF d = c THEN stored ELSE rows[d]]
               /\ wanted' = [d \in DOMAIN rows \cup {c} |-> IF d = c THEN p ELSE wanted[d]]

TreeInit == rows = [c \in {} |-> 0] /\ wanted = [c \in {} |-> 0]

TreeNext == \E c \in CategoryId : CreateCategory(c)

TreeSpec == TreeInit /\ [][TreeNext]_treeVars

-----------------------------------------------------------------------------
(* getCategoryTree                                                          *)

Children(all, parentId) == {c \in DOMAIN all : all[c] = parentId}

\* Mutant: the children of a child are left out.
BuildTree_TwoLevels(all, parentId) ==
    {[id |-> c, children |-> {[id |-> d, children |-> {}] : d \in Children(all, c)}] :
         c \in Children(all, parentId)}

BuildTree(all, parentId) ==
    LET tree[p \in {0} \cup DOMAIN all] ==
            {[id |-> c, children |-> tree[c]] : c \in Children(all, p)}
    IN  tree[parentId]

-----------------------------------------------------------------------------
(* Properties.                                                              *)

\* The edges of a tree, from child to parent, down to a depth.
Edges(forest, depth) ==
    LET nodes[d \in 0..depth] ==
            IF d = 0 THEN {[id |-> 0, children |-> forest]}
                     ELSE UNION {n.children : n \in nodes[d - 1]}
    IN  UNION {{<<child.id, n.id>> : child \in n.children} :
                   n \in UNION {nodes[d] : d \in 0..depth}}

\* The tree shows every category there is, at any depth, below its own parent,
\* in whatever order they were created.
TreeShowsEveryCategory ==
    Edges(BuildTree(rows, 0), Cardinality(DOMAIN rows)) = {<<c, rows[c]>> : c \in DOMAIN rows}

\* product_routes.ts:198 documents the field parent_id: a category is created
\* under the parent its request names.
ParentIsTheOneNamed == rows = wanted
=============================================================================
