--------------------------- MODULE ResultDocument ---------------------------
(***************************************************************************)
(* capa-x/src/result_document/from_capa.rs: the match trees of the result  *)
(* document.  Under a successful `match:` leaf, the tree of the rule it    *)
(* names, or of each rule in the namespace it names, is spliced in for     *)
(* every location.                                                         *)
(*                                                                         *)
(* A document tree is [success, locs, kids, spliced, isReference, missing]:*)
(* spliced is the set of [at, from, tree] behind a `match:` leaf, missing  *)
(* says that MissingRuleMatch was raised below.  The order of the spliced  *)
(* children is left out.                                                   *)
(***************************************************************************)
EXTENDS ScopeMatching

\* rule_match_index: the result at an address, the last one recorded.
ResultAt(matches, name, addr) ==
    matches[name][Max({i \in DOMAIN matches[name] : matches[name][i].addr = addr})].result

\* most_recent_in_thread: the matches no later than `call` in its thread.
InThread(matches, name, call) ==
    {a \in MatchAddrs(matches, name) :
        IsCallAddress(a) /\ a[1] = call[1] /\ a[2] = call[2] /\ a[3] <= call[3]}

\* Mutant: only a match at the very call is looked up.
SplicedFrom_Exact(matches, name, at) ==
    IF at \in MatchAddrs(matches, name) THEN {at} ELSE {}

\* Mutant: the index holds the first match of a rule only.
SplicedFrom_First(matches, name, at) ==
    IF at = matches[name][1].addr THEN {at} ELSE {}

\* Where the match that is spliced in for location `at` is taken from: there,
\* or at the most recent match of the thread.  {} when there is none.
SplicedFrom(matches, name, at) ==
    CASE at \in MatchAddrs(matches, name) -> {at}
      [] at \notin MatchAddrs(matches, name) /\ IsCallAddress(at) ->
            {a \in InThread(matches, name, at) : \A b \in InThread(matches, name, at) : b[3] <= a[3]}
      [] OTHER -> {}

\* The rules a `match:` value stands for: a rule name takes precedence here.
\* Of a namespace, the rules that matched.
Referenced(set, matches, value) ==
    IF value \in Names(set.rules) THEN {value} ELSE InNamespace(set.rules, value) \intersect DOMAIN matches

IsReference(node) == node.op = "leaf" /\ node.feature.kind = "match"

RECURSIVE BuildMatch(_, _, _, _)
\* build_match, for the result of evaluating `node`.
BuildMatch(set, matches, node, result) ==
    LET kids == [i \in DOMAIN result.kids |-> BuildMatch(set, matches, node.kids[i], result.kids[i])]
        follows == IsReference(node) /\ result.outcome = Yes
        value == node.feature.value
        sources == IF follows
                   THEN {<<name, at>> : name \in Referenced(set, matches, value), at \in result.locs}
                   ELSE {}
        spliced == UNION {{[at |-> s[2], from |-> from,
                            tree |-> BuildMatch(set, matches, ByName(set.rules, s[1]).body,
                                                ResultAt(matches, s[1], from))] :
                           from \in SplicedFrom(matches, s[1], s[2])} : s \in sources}
        lost == \E s \in sources : /\ s[1] = value
                                   /\ ~ IsCallAddress(s[2])
                                   /\ SplicedFrom(matches, s[1], s[2]) = {}
    IN  [success |-> result.outcome = Yes,
         locs |-> IF result.outcome = Yes THEN result.locs ELSE {},
         isReference |-> follows,
         kids |-> kids,
         spliced |-> spliced,
         missing |-> lost \/ (\E i \in DOMAIN kids : kids[i].missing) \/ \E s \in spliced : s.tree.missing]

\* build_result_document: the rules of the user that matched.
BuildResultDocument(set, matches) ==
    [name \in {n \in DOMAIN matches : ~ IsSubscopeRule(ByName(set.rules, n))} |->
        [i \in DOMAIN matches[name] |->
            [addr |-> matches[name][i].addr,
             tree |-> BuildMatch(set, matches, ByName(set.rules, name).body, matches[name][i].result)]]]

IsMissing(document) ==
    \E name \in DOMAIN document : \E i \in DOMAIN document[name] : document[name][i].tree.missing

-----------------------------------------------------------------------------
(* What a complete document is.                                            *)

RECURSIVE IsExplained(_)
\* Every location of a successful `match:` leaf has the tree of a match that
\* succeeded, all the way down.
IsExplained(tree) ==
    /\ tree.isReference => \A at \in tree.locs : \E s \in tree.spliced : s.at = at /\ s.tree.success
    /\ \A i \in DOMAIN tree.kids : IsExplained(tree.kids[i])
    /\ \A s \in tree.spliced : IsExplained(s.tree)

\* A rule has the name of a namespace of another rule.
HasAmbiguousName(rules) ==
    \E i \in DOMAIN rules : InNamespace(rules, rules[i].name) # {}
=============================================================================
