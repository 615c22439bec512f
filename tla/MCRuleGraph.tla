---------------------------- MODULE MCRuleGraph ----------------------------
(***************************************************************************)
(* RuleGraph on four strings: "a", "b", "n" and "n/m".  Every one of them  *)
(* may be a rule name, "n" and "n/m" are namespaces as well.               *)
(***************************************************************************)
EXTENDS RuleGraph

MCName == 1..4
MCNoName == -1
MCParent == [x \in MCName |-> IF x = 4 THEN 3 ELSE MCNoName]

\* One or two rules with any dependencies, duplicates included.
Pairs ==
    LET R == [name : {1, 2, 3}, namespace : {MCNoName, 3, 4}, matches : SUBSET MCName]
    IN  {<<>>} \union {<<r>> : r \in R}
        \union {<<r, s>> : r \in R, s \in {t \in R : t.name <= 2 /\ Cardinality(t.matches) <= 1}}

\* Three rules of different names in two orders.
Triples ==
    LET R(n) == [name : {n}, namespace : {MCNoName, 3}, matches : SUBSET {1, 2, 3}]
    IN  UNION {{<<r, s, t>> : r \in R(p[1]), s \in R(p[2]), t \in R(p[3])} :
               p \in {<<1, 2, 3>>, <<3, 1, 2>>}}

MCRuleLists == Pairs \union Triples
=============================================================================
