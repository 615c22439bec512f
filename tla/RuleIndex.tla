----------------------------- MODULE RuleIndex -----------------------------
(***************************************************************************)
(* capa-x/src/capabilities/ruleset.rs: the pure parts of the matcher's     *)
(* preparation.  The cost optimiser reorders children, required_features   *)
(* picks the alternatives a rule is registered under, and the feature      *)
(* index turns the keys of a feature set into candidate positions.         *)
(***************************************************************************)
EXTENDS Engine

-----------------------------------------------------------------------------
(* The optimiser.                                                          *)

FeatureCost(f) ==
    CASE f.kind \in {"os", "arch", "format"} -> 0
      [] f.kind \in {"substring", "regex", "bytes"} -> 2
      [] OTHER -> 1

TotalCost(costs) ==
    LET upTo[i \in 0 .. Len(costs)] == IF i = 0 THEN 0 ELSE upTo[i - 1] + costs[i]
    IN  upTo[Len(costs)]

CostStep(node, costs) ==
    CASE node.op = "leaf" -> FeatureCost(node.feature)
      [] node.op = "range" -> 1 + FeatureCost(node.feature)
      [] OTHER -> 1 + TotalCost(costs)

NodeCost(node) == BottomUp(CostStep, node)

\* What the sort compares: a child's cost and, as it is stable, its index.
SortKeys(kids) == {<<NodeCost(kids[i]), i>> : i \in DOMAIN kids}
Cheaper(a, b) == a[1] < b[1] \/ (a[1] = b[1] /\ a[2] < b[2])

\* Mutant: sorting also drops a child whose cost an earlier child has.
SortByCost_Dedup(keys) ==
    Each(LAMBDA key : key[2],
         InOrder({a \in keys : ~ \E b \in keys : b[1] = a[1] /\ b[2] < a[2]}, Cheaper))

\* children.sort_by_key(node_cost): the children's indices in their new order.
SortByCost(keys) == Each(LAMBDA key : key[2], InOrder(keys, Cheaper))

OptimizeStep(node, kids) ==
    LET order == SortByCost(SortKeys(node.kids))
    IN  IF node.op \in {"and", "or", "some"}
        THEN [node EXCEPT !.kids = [k \in DOMAIN order |-> kids[order[k]]]]
        ELSE [node EXCEPT !.kids = kids]

OptimizeNode(node) == BottomUp(OptimizeStep, node)

-----------------------------------------------------------------------------
(* required_features.                                                      *)

IndexScore(f) ==
    CASE f.kind \in {"match", "plain"} -> 9
      [] f.kind = "api" -> 8
      [] f.kind \in {"export", "number"} -> 7
      [] f.kind \in {"class", "namespace", "property", "import", "section", "function-name"} -> 5
      [] f.kind \in {"characteristic", "offset"} -> 4
      [] f.kind = "small number" -> 3
      [] f.kind = "mnemonic" -> 2
      [] f.kind = "basic block" -> 1
      [] OTHER -> 0

MaxScore == 255     \* u8::MAX, the score of an empty disjunction

\* None: the rule can match without any particular feature.
NotIndexable == [indexable |-> FALSE, score |-> 0, alts |-> {}]
Indexable(score, alts) == [indexable |-> TRUE, score |-> score, alts |-> alts]

\* The key of max_by_key: the best score, then the fewest alternatives.
BetterOrEqual(a, b) ==
    \/ a.score > b.score
    \/ a.score = b.score /\ Cardinality(a.alts) <= Cardinality(b.alts)

\* max_by_key over the indexable children; the last maximum wins.
Anchor(reqs) ==
    LET some == {i \in DOMAIN reqs : reqs[i].indexable}
        best == {i \in some : \A j \in some : BetterOrEqual(reqs[i], reqs[j])}
    IN  IF some = {} THEN NotIndexable ELSE reqs[Max(best)]

\* Mutant: the disjunction keeps the indexable children and forgets that one
\* of the others may be the one that matches.
Alternatives_SkipOpen(reqs) ==
    LET some == {i \in DOMAIN reqs : reqs[i].indexable}
    IN  Indexable(Min({reqs[i].score : i \in some} \union {MaxScore}),
                  UNION {reqs[i].alts : i \in some})

\* `required_features(child)?`: one child that is not indexable spoils it.
Alternatives(reqs) ==
    IF \E i \in DOMAIN reqs : ~ reqs[i].indexable THEN NotIndexable
    ELSE Indexable(Min({reqs[i].score : i \in DOMAIN reqs} \union {MaxScore}),
                   UNION {reqs[i].alts : i \in DOMAIN reqs})

\* One call, given what the children require.
RequiredStep(node, reqs) ==
    CASE \/ node.op \in {"not", "subscope"}
         \/ node.op = "some" /\ node.count = 0
         \/ node.op = "range" /\ node.min = 0 -> NotIndexable
      [] node.op = "leaf" \/ (node.op = "range" /\ node.min # 0) ->
            Indexable(IndexScore(node.feature), {node.feature})
      [] node.op = "and" -> Anchor(reqs)
      [] node.op = "or" \/ (node.op = "some" /\ node.count # 0) -> Alternatives(reqs)

RequiredFeatures(node) == BottomUp(RequiredStep, node)

-----------------------------------------------------------------------------
(* RuleFeatureIndex: which keys make a rule a candidate.                   *)

\* The bucket an alternative is registered in; Exact for the hash lookup.
QueryBucket(f) ==
    CASE f.kind \in {"substring", "regex"} -> "strings"
      [] f.kind = "bytes" -> "bytes"
      [] f.kind = "os" -> "os"
      [] OTHER -> "exact"

\* The coarse bucket a present key opens.
KeyBucket(f) ==
    CASE f.kind \in StringKinds -> "strings"
      [] f.kind \in {"bytes", "os"} -> f.kind
      [] OTHER -> "none"

\* RuleFeatureIndex::candidates, for one rule: is its position collected?
IsCandidate(req, keys) ==
    \/ ~ req.indexable
    \/ \E alt \in req.alts :
         IF QueryBucket(alt) = "exact" THEN alt \in keys
         ELSE \E key \in keys : KeyBucket(key) = QueryBucket(alt)
=============================================================================
