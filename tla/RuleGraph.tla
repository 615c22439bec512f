----------------------------- MODULE RuleGraph -----------------------------
(***************************************************************************)
(* capa-x/src/rules/graph.rs: RuleSet::new.  The parsed rules are checked  *)
(* for unique names and for dependencies that exist, then put into a       *)
(* dependency-first order by a depth-first search whose Visiting/Done      *)
(* marks turn a cycle into an error.  The recursion of `visit` is an       *)
(* explicit stack: a frame is a rule being visited and the dependencies    *)
(* its loop has not come to yet.                                           *)
(*                                                                         *)
(* Strings are numbers in the order of the strings, so that deps.sort()    *)
(* visits the smallest first.  Rule names and namespaces are drawn from    *)
(* the same strings: `match: x` may mean either.                           *)
(***************************************************************************)
EXTENDS Integers, Sequences, FiniteSets

CONSTANTS
    Name,       \* strings
    Parent,     \* Parent[x]: x up to its last '/'; NoName if there is none
    NoName,     \* the empty string, and the missing namespace
    RuleLists   \* lists of parsed rules, in load order

\* A rule: its name, its namespace and the values of its `match:` features,
\* wherever in the body they stand, count(match(x)) included.
Rule == [name : Name, namespace : Name \union {NoName}, matches : SUBSET Name]

ASSUME NameAssumption == Name \subseteq Nat /\ IsFiniteSet(Name) /\ NoName = -1
\* What stands before the last '/' is a proper prefix: it sorts first.
ASSUME ParentAssumption ==
    Parent \in [Name -> Name \union {NoName}] /\ \A x \in Name : Parent[x] < x
ASSUME ListsAssumption == RuleLists \subseteq Seq(Rule)

VARIABLES
    rules,      \* the Vec<Rule> passed in
    todo,       \* the names the outer loop has not come to
    stack,      \* frames [name, left] of `visit`, the innermost last
    marks,      \* HashMap<String, Mark>
    order,      \* eval_order so far
    status,     \* "new", "ordering", "ok" or the error
    culprit     \* the rule name in the error, NoName if it has none

vars == <<rules, todo, stack, marks, order, status, culprit>>

Positions == DOMAIN rules
RuleNames == {rules[i].name : i \in Positions}

\* The smallest of a set of names: the next one of a sorted list.
IsFirst(x, S) == x \in S /\ \A y \in S : x <= y

\* The namespace ns and every prefix of it that ends before a '/'.
Prefixes[ns \in Name] ==
    {ns} \union (IF Parent[ns] = NoName THEN {} ELSE Prefixes[Parent[ns]])

\* index_rules_by_namespace: the names of the rules below namespace ns.
InNamespace(ns) ==
    {rules[i].name : i \in {j \in Positions :
        rules[j].namespace # NoName /\ ns \in Prefixes[rules[j].namespace]}}

\* `register`: a namespace takes precedence over a rule name.
Register(x) == IF InNamespace(x) # {} THEN InNamespace(x) ELSE {x}

\* get_dependencies of the rule called x (the last one of that name).
Deps(x) ==
    UNION {Register(m) : m \in UNION {rules[i].matches : i \in
        {j \in Positions : rules[j].name = x /\ \A k \in Positions : rules[k].name = x => k <= j}}}

Missing(i) == Deps(rules[i].name) \ RuleNames

Init ==
    /\ rules \in RuleLists
    /\ todo = <<>>
    /\ stack = <<>>
    /\ marks = [x \in Name |-> "none"]
    /\ order = <<>>
    /\ status = "new"
    /\ culprit = NoName

Reject(error, name) ==
    /\ status' = error
    /\ culprit' = name
    /\ UNCHANGED <<rules, todo, stack, marks, order>>

IsRepeated(i) == \E j \in Positions : j < i /\ rules[j].name = rules[i].name

\* ensure_rules_are_unique: the first name seen before.
RejectDuplicate ==
    /\ status = "new"
    /\ \E i \in Positions :
         /\ IsRepeated(i) /\ \A j \in Positions : IsRepeated(j) => i <= j
         /\ Reject("duplicate", rules[i].name)

IsUnique == \A i \in Positions : ~IsRepeated(i)

RejectEmpty ==
    /\ status = "new"
    /\ rules = <<>>
    /\ Reject("empty", NoName)

\* ensure_rule_dependencies_are_met: the first rule with a missing one.
RejectMissing ==
    /\ status = "new"
    /\ IsUnique
    /\ \E i \in Positions :
         /\ Missing(i) # {} /\ \A j \in Positions : Missing(j) # {} => i <= j
         /\ \E x \in Missing(i) : IsFirst(x, Missing(i)) /\ Reject("missing", x)

DepsAreMet == \A i \in Positions : Missing(i) = {}

BeginOrder ==
    /\ status = "new"
    /\ IsUnique /\ rules # <<>> /\ DepsAreMet
    /\ status' = "ordering"
    /\ todo' = [i \in Positions |-> rules[i].name]
    /\ UNCHANGED <<rules, stack, marks, order, culprit>>

Err(error, name) ==
    /\ status' = error
    /\ culprit' = name
    /\ UNCHANGED <<marks, stack>>

\* visit(x) goes on to the dependencies of x.
Enter(x, callers) ==
    /\ marks' = [marks EXCEPT ![x] = "visiting"]
    /\ stack' = Append(callers, [name |-> x, left |-> Deps(x)])
    /\ UNCHANGED <<status, culprit>>

\* Mutant: a rule seen before is never an error.
Visit_NoVisitingMark(x, callers) ==
    \/ /\ marks[x] # "none"
       /\ stack' = callers
       /\ UNCHANGED <<marks, status, culprit>>
    \/ marks[x] = "none" /\ x \notin RuleNames /\ Err("unreachable", x)
    \/ marks[x] = "none" /\ x \in RuleNames /\ Enter(x, callers)

\* A call visit(x); the loops of the callers have moved on to `callers`.
Visit(x, callers) ==
    \/ /\ marks[x] = "done"
       /\ stack' = callers
       /\ UNCHANGED <<marks, status, culprit>>
    \/ marks[x] = "visiting" /\ Err("cycle", x)
    \/ marks[x] = "none" /\ x \notin RuleNames /\ Err("unreachable", x)
    \/ marks[x] = "none" /\ x \in RuleNames /\ Enter(x, callers)

Top == stack[Len(stack)]
Below == SubSeq(stack, 1, Len(stack) - 1)

\* The outer loop: visit the next rule in load order.
VisitRule ==
    /\ status = "ordering" /\ stack = <<>> /\ todo # <<>>
    /\ Visit(Head(todo), stack)
    /\ todo' = Tail(todo)
    /\ UNCHANGED <<rules, order>>

\* Mutant: the loop does not move on.
VisitDependency_Again ==
    /\ status = "ordering" /\ stack # <<>>
    /\ \E x \in Top.left : IsFirst(x, Top.left) /\ Visit(x, stack)
    /\ UNCHANGED <<rules, todo, order>>

\* The inner loop: visit the next dependency in sorted order.
VisitDependency ==
    /\ status = "ordering" /\ stack # <<>>
    /\ \E x \in Top.left :
         /\ IsFirst(x, Top.left)
         /\ Visit(x, Append(Below, [Top EXCEPT !.left = @ \ {x}]))
    /\ UNCHANGED <<rules, todo, order>>

\* Mutant: the mark is cleared when the visit ends.
Leave_Cleared ==
    /\ status = "ordering" /\ stack # <<>> /\ Top.left = {}
    /\ marks' = [marks EXCEPT ![Top.name] = "none"]
    /\ order' = Append(order, Top.name)
    /\ stack' = Below
    /\ UNCHANGED <<rules, todo, status, culprit>>

\* Mutant: the mark stays Visiting when the visit ends.
Leave_StillVisiting ==
    /\ status = "ordering" /\ stack # <<>> /\ Top.left = {}
    /\ order' = Append(order, Top.name)
    /\ stack' = Below
    /\ UNCHANGED <<rules, todo, marks, status, culprit>>

\* All dependencies are ordered: the rule follows them.
Leave ==
    /\ status = "ordering" /\ stack # <<>> /\ Top.left = {}
    /\ marks' = [marks EXCEPT ![Top.name] = "done"]
    /\ order' = Append(order, Top.name)
    /\ stack' = Below
    /\ UNCHANGED <<rules, todo, status, culprit>>

Finish ==
    /\ status = "ordering" /\ stack = <<>> /\ todo = <<>>
    /\ status' = "ok"
    /\ UNCHANGED <<rules, todo, stack, marks, order, culprit>>

Returned ==
    /\ status \notin {"new", "ordering"}
    /\ UNCHANGED vars

Next ==
    \/ RejectDuplicate \/ RejectEmpty \/ RejectMissing \/ BeginOrder
    \/ VisitRule \/ VisitDependency \/ Leave \/ Finish
    \/ Returned

Spec == Init /\ [][Next]_vars

\* RuleSet::new runs to its return.
FairSpec == Spec /\ WF_vars(Next)

-----------------------------------------------------------------------------
(* Properties.                                                             *)

Frame == [name : Name, left : SUBSET Name]

TypeOK ==
    /\ rules \in RuleLists
    /\ todo \in Seq(Name)
    /\ stack \in Seq(Frame)
    /\ marks \in [Name -> {"none", "visiting", "done"}]
    /\ order \in Seq(Name)
    /\ status \in {"new", "ordering", "ok", "duplicate", "empty", "missing", "cycle", "unreachable"}
    /\ culprit \in Name \union {NoName}

\* eval_order: "dependency-first topological order of rule names".  No rule
\* stands in it twice or before a rule it depends on, whichever rule the
\* search started from.
DependencyFirst ==
    \A i \in DOMAIN order :
        Deps(order[i]) \subseteq {order[j] : j \in {k \in DOMAIN order : k < i}}

\* What is returned holds every rule exactly once.
OrdersEveryRule ==
    status = "ok" =>
        /\ RuleNames = {order[i] : i \in DOMAIN order}
        /\ \A i, j \in DOMAIN order : order[i] = order[j] => i = j

\* The names reached from x over one or more dependencies: those in every
\* set that is closed under Deps and holds the dependencies of x.
Reaches(x, y) ==
    \A S \in SUBSET Name :
        (Deps(x) \subseteq S /\ \A z \in S : Deps(z) \subseteq S) => y \in S

\* The search reports a cycle only for a rule that really depends on itself,
\* and orders only rule sets that have no such rule.
CycleIsReal ==
    /\ status = "cycle" => Reaches(culprit, culprit)
    /\ status = "ok" => \A x \in RuleNames : ~Reaches(x, x)

\* visit: the missing-rule branch "should be unreachable in `RuleSet::new`'s
\* own call path".
MissingIsUnreachable == status # "unreachable"

\* The recursion ends on every rule set, cyclic ones included (upstream has
\* no visited-in-progress marker and would recurse forever).
Terminates == <>(status \notin {"new", "ordering"})

(***************************************************************************)
(* The inductive invariant.  The marks are the sets of ordered and of      *)
(* stacked rules; a stacked rule reaches the ones stacked above it; and    *)
(* what a stacked rule depends on is ordered, still in its loop, or the    *)
(* next frame.                                                             *)
(***************************************************************************)
Searching == status \in {"ordering", "ok", "cycle"}

Done == {x \in Name : marks[x] = "done"}
Stacked == {stack[i].name : i \in DOMAIN stack}
Todo == {todo[i] : i \in DOMAIN todo}

MarksInv ==
    /\ Done = {order[i] : i \in DOMAIN order}
    /\ {x \in Name : marks[x] = "visiting"} = Stacked
    /\ \A i, j \in DOMAIN order : order[i] = order[j] => i = j
    /\ \A i, j \in DOMAIN stack : stack[i].name = stack[j].name => i = j

StackInv ==
    /\ \A i \in DOMAIN stack : stack[i].name \in RuleNames /\ stack[i].left \subseteq Deps(stack[i].name)
    /\ \A i, j \in DOMAIN stack : i < j => Reaches(stack[i].name, stack[j].name)
    /\ \A i \in DOMAIN stack :
         Deps(stack[i].name) \subseteq
             Done \union stack[i].left \union
             (IF i < Len(stack) THEN {stack[i + 1].name} ELSE {})

TodoInv ==
    /\ Todo \subseteq RuleNames
    /\ status # "cycle" => RuleNames \subseteq Todo \union Done \union Stacked

Inv ==
    /\ TypeOK
    /\ MissingIsUnreachable
    /\ status = "new" => stack = <<>> /\ order = <<>> /\ marks = [x \in Name |-> "none"]
    /\ Searching => \A x \in RuleNames : Deps(x) \subseteq RuleNames
    /\ Searching => MarksInv /\ StackInv /\ TodoInv
    /\ \A i \in DOMAIN order : order[i] \in RuleNames
    /\ DependencyFirst
    /\ status = "ok" => stack = <<>> /\ todo = <<>>
    /\ status = "cycle" => Reaches(culprit, culprit)
=============================================================================
