--------------------------------- MODULE Planner --------------------------------
(***************************************************************************)
(* plan_reduction: group the inputs of a combined report, in order, so     *)
(* that each group fits one request, and group the groups' reports again   *)
(* until one request is left.                                              *)
(*                                                                         *)
(* A tree is the sequence of its nodes in the order in which they are      *)
(* executed, children before parents.  A node has either the positions of  *)
(* its inputs or the places of its children in that sequence.              *)
(***************************************************************************)
EXTENDS Integers, FiniteSets, SequencesExt

Sum(seq) ==
  LET sum[n \in 0..Len(seq)] == IF n = 0 THEN 0 ELSE sum[n - 1] + seq[n]
  IN sum[Len(seq)]

Empty == [groups |-> <<>>, current |-> <<>>, used |-> 0]

\* (faulty variant) A group is closed one item too late.
PlaceLate(acc, i, cost, budget) ==
  IF acc.used > budget /\ acc.current # <<>>
  THEN [groups |-> Append(acc.groups, acc.current), current |-> <<i>>, used |-> cost]
  ELSE [acc EXCEPT !.current = Append(@, i), !.used = @ + cost]

\* One item of the loop: it joins the current group, or closes it and begins the next.
Place(acc, i, cost, budget) ==
  IF acc.used + cost > budget /\ acc.current # <<>>
  THEN [groups |-> Append(acc.groups, acc.current), current |-> <<i>>, used |-> cost]
  ELSE [acc EXCEPT !.current = Append(@, i), !.used = @ + cost]

\* Consecutive positions of `costs' in groups that cost at most `budget', for
\* costs that do not exceed it.
Chunk(costs, budget) ==
  LET placed[n \in 0..Len(costs)] ==
        IF n = 0 THEN Empty ELSE Place(placed[n - 1], n, costs[n], budget)
      all == placed[Len(costs)]
  IN Append(all.groups, all.current)

Leaf(items) == <<[items |-> items, children |-> <<>>]>>

\* A tree with `by' nodes in front of it.
Shifted(tree, by) ==
  [n \in DOMAIN tree |->
     [tree[n] EXCEPT !.children = [c \in DOMAIN @ |-> @[c] + by]]]

\* PlanNode(children=trees): the trees one after the other, then their parent.
Parent(trees) ==
  LET end[k \in 0..Len(trees)] == IF k = 0 THEN 0 ELSE end[k - 1] + Len(trees[k])
  IN Append(FlattenSeq([k \in DOMAIN trees |-> Shifted(trees[k], end[k - 1])]),
            [items |-> <<>>, children |-> [k \in DOMAIN trees |-> end[k]]])

Unplannable == <<>>

\* One round of the while loop: a whole tree, the next level, or an error.
Round(trees, child, budget) ==
  LET groups == Chunk([k \in DOMAIN trees |-> child], budget)
      parents == [g \in DOMAIN groups |->
                    Parent([k \in DOMAIN groups[g] |-> trees[groups[g][k]]])]
  IN IF child > budget \/ Max({Len(groups[g]) : g \in DOMAIN groups}) < 2
     THEN <<Unplannable>> ELSE parents

\* `tokens' are the sizes of the inputs, `child' the planned size of a report.
plan_reduction(tokens, child, budget, overhead) ==
  LET costs == [i \in DOMAIN tokens |-> tokens[i] + overhead]
      leaves == LET groups == Chunk(costs, budget) IN
                [g \in DOMAIN groups |-> Leaf(groups[g])]
      level[n \in 0..Len(tokens)] ==
        IF n = 0 THEN leaves
        ELSE IF Len(level[n - 1]) = 1 THEN level[n - 1]
        ELSE Round(level[n - 1], child + overhead, budget)
  IN IF tokens = <<>> \/ budget <= 0 \/ \E i \in DOMAIN costs : costs[i] > budget
     THEN Unplannable ELSE level[Len(tokens)][1]
-----------------------------------------------------------------------------
(* What a plan is for *)

Children(tree, n) == ToSet(tree[n].children)

\* Each position once, in order, and each node but the last in exactly one parent
\* that is executed after it, siblings in order.
CoversInOrder(tree, size) ==
  /\ FlattenSeq([n \in DOMAIN tree |-> tree[n].items]) = [i \in 1..size |-> i]
  /\ \A n \in DOMAIN tree :
       /\ (tree[n].items = <<>>) # (tree[n].children = <<>>)
       /\ \A c, d \in DOMAIN tree[n].children :
            c < d => tree[n].children[c] < tree[n].children[d]
       /\ \A c \in Children(tree, n) : c < n
       /\ Cardinality({m \in DOMAIN tree : n \in Children(tree, m)}) =
            IF n = Len(tree) THEN 0 ELSE 1

FitsNode(node, tokens, child, budget, overhead) ==
  Sum([k \in DOMAIN node.items |-> tokens[node.items[k]] + overhead])
    + Len(node.children) * (child + overhead) <= budget

FitsPlan(tree, tokens, child, budget, overhead) ==
  \A n \in DOMAIN tree : FitsNode(tree[n], tokens, child, budget, overhead)

\* A plan fails only when an input alone is too large, or when the reports of two
\* groups do not fit one request.
MustFail(tokens, child, budget, overhead) ==
  \/ tokens = <<>> \/ budget <= 0
  \/ \E i \in DOMAIN tokens : tokens[i] + overhead > budget
  \/ Sum(tokens) + overhead * Len(tokens) > budget /\ 2 * (child + overhead) > budget
=============================================================================
