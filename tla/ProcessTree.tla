----------------------------- MODULE ProcessTree -----------------------------
(***************************************************************************)
(* The trees of ProcessNode (src/api/process/ProcessNode.cpp).  A process  *)
(* table maps each pid to what /proc says of the process; a process list   *)
(* is a set of its pids.  A tree over a list is the function that maps     *)
(* each pid of the list to the pid of its m_Parent, Root for the root node *)
(* that BuildTree creates.  The order of m_Children is left out.           *)
(***************************************************************************)
EXTENDS Naturals, FiniteSets, FiniteSetsExt

CONSTANTS Root,  \* the pid of root nodes, and the parent pid of processes without a parent
          Pids   \* the pids of processes

ASSUME RootAssumption == Root \notin Pids

\* Mutant: a process whose parent is not in the list is not attached to the root.
BuildTree_Orphans(table, list) == [p \in list |-> table[p].ppid]

\* BuildTree: the parent is looked up in the list; who has none in it is a child
\* of the root.
BuildTree(table, list) ==
  [p \in list |-> IF table[p].ppid \in list THEN table[p].ppid ELSE Root]

\* BuildPackedFlatTree: a child stays with its parent only when both have one name.
BuildPackedFlatTree(table, list) ==
  [p \in list |-> IF /\ table[p].ppid \in list
                     /\ table[table[p].ppid].name = table[p].name
                  THEN table[p].ppid ELSE Root]

\* GetChildren.
Children(tree, p) == {q \in DOMAIN tree : tree[q] = p}

\* A set of nodes that contains the children of its members.
Closed(tree, nodes) == \A q \in DOMAIN tree : tree[q] \in nodes => q \in nodes

\* FlatTree: p and everything below it, which is the least closed set around p.
FlatTree(tree, p) ==
  LET nodes == DOMAIN tree \cup {p}
  IN  {q \in nodes : \A C \in SUBSET nodes : p \in C /\ Closed(tree, C) => q \in C}

\* GetDepth, from the root of the tree.
Depth(tree, p) == Cardinality({a \in DOMAIN tree : p \in FlatTree(tree, a)})

\* The usages of some nodes, added up.
SumOf(sums, nodes) == MapThenSumSet(LAMBDA c : sums[c], nodes)

\* Mutant: the children are added before their own sums are known.
CalculateSums_OneLevel(tree, own) ==
  [p \in DOMAIN own |-> own[p] + SumOf(own, Children(tree, p))]

\* CalculateCPUUsageSums and its RAM, disk and GPU twins: the usage of a node
\* becomes its own usage and the sums of its children.
CalculateSums(tree, own) ==
  LET sum[p \in DOMAIN own] == own[p] + SumOf(sum, Children(tree, p))
  IN  sum
=============================================================================
