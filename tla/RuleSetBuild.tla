---------------------------- MODULE RuleSetBuild ----------------------------
(***************************************************************************)
(* capa-x/src/capabilities/ruleset.rs: MatchingRuleSet::new on rules that  *)
(* RuleSet::new has accepted (RuleGraph).  The rules are a stack; each     *)
(* turn takes one off, expands its COM leaves, extracts its subscopes and  *)
(* pushes the extracted rules.  Then each scope gets its list.             *)
(***************************************************************************)
EXTENDS Subscopes

CONSTANT RuleLists      \* accepted rules, in load order

VARIABLES
    rules,      \* the rules passed in
    stack,      \* the rules whose bodies have not been looked at
    done,       \* the expanded rules
    lists,      \* rules_by_scope
    status      \* "extracting", "ok" or "error"

vars == <<rules, stack, done, lists, status>>

Init ==
    /\ rules \in RuleLists
    /\ stack = rules
    /\ done = <<>>
    /\ lists = [s \in Scopes |-> <<>>]
    /\ status = "extracting"

\* Mutant: the extracted rules are taken to be finished.
ExtractNext_NotPushed ==
    /\ status = "extracting" /\ stack # <<>>
    /\ ~ HasUnknownCom(Last(stack).body)
    /\ LET r == ExtractRule(Last(stack))
       IN  done' = done \o <<r.rule>> \o r.out
    /\ stack' = Front(stack)
    /\ UNCHANGED <<rules, lists, status>>

ExtractNext ==
    /\ status = "extracting" /\ stack # <<>>
    /\ ~ HasUnknownCom(Last(stack).body)
    /\ LET r == ExtractRule(Last(stack))
       IN  /\ stack' = Front(stack) \o r.out
           /\ done' = Append(done, r.rule)
    /\ UNCHANGED <<rules, lists, status>>

\* translate_com_feature: the name is not in the COM database.
RejectCom ==
    /\ status = "extracting" /\ stack # <<>>
    /\ HasUnknownCom(Last(stack).body)
    /\ status' = "error"
    /\ UNCHANGED <<rules, stack, done, lists>>

\* Mutant: the lists keep the order in which the rules were expanded.
ListScopes_Unsorted ==
    /\ status = "extracting" /\ stack = <<>>
    /\ done' = Each(Optimized, done)
    /\ lists' = [s \in Scopes |->
          LET own == SelectSeq(done, LAMBDA r : s \in r.scopes) IN [i \in DOMAIN own |-> own[i].name]]
    /\ status' = "ok"
    /\ UNCHANGED <<rules, stack>>

ListScopes ==
    /\ status = "extracting" /\ stack = <<>>
    /\ done' = Each(Optimized, done)
    /\ lists' = [s \in Scopes |-> RulesForScope(done', s)]
    /\ status' = "ok"
    /\ UNCHANGED <<rules, stack>>

Returned == status # "extracting" /\ UNCHANGED vars

Next == ExtractNext \/ RejectCom \/ ListScopes \/ Returned

Spec == Init /\ [][Next]_vars

-----------------------------------------------------------------------------
(* Properties.                                                             *)

RECURSIVE Subscopeless(_)
Subscopeless(node) ==
    node.op # "subscope" /\ \A i \in DOMAIN node.kids : Subscopeless(node.kids[i])

\* Extraction leaves no subscope below the root of a body, however deeply
\* they were nested, in the user's rules and in the extracted ones.
OnlyRootSubscopes ==
    \A i \in DOMAIN done : \A k \in DOMAIN done[i].body.kids : Subscopeless(done[i].body.kids[k])

\* The rules a rule needs, over any number of `match:` references.
Needs(name) == TransitiveClosure(done, name, {})

\* "dependency-first topological order, per scope": a rule that needs another
\* rule of the scope, be it through rules of other scopes, follows it; and
\* every rule of a scope, extracted ones included, is listed there once.
ListsAreDependencyFirst ==
    status = "ok" => \A s \in Scopes :
        /\ \A i, j \in DOMAIN lists[s] : lists[s][j] \in Needs(lists[s][i]) => j <= i
        /\ Range(lists[s]) = {done[i].name : i \in {k \in DOMAIN done : s \in done[k].scopes}}
        /\ IsInjective(lists[s])

\* The lists do not depend on the order in which the rules were loaded: a
\* directory listing in another order gives the same matches.
LoadOrderIrrelevant ==
    status = "ok" =>
        lists = [s \in Scopes |-> RulesForScope(ExpandAndExtract(Reverse(rules), <<>>), s)]

=============================================================================
