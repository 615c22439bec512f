------------------------------ MODULE MCEngine ------------------------------
(***************************************************************************)
(* Every small statement tree against every small feature set, the set     *)
(* built entry by entry as the extractors build it.                        *)
(***************************************************************************)
EXTENDS RuleIndex

CONSTANTS
    Addr,           \* addresses
    Feature,        \* features of queries and of feature sets
    Trees,          \* rule bodies
    MaxEntries      \* bound on the entries of a feature set

\* A substring with a string it occurs in, and two byte strings of which one
\* is a prefix of the other.
MCFeature == {[kind |-> "plain", value |-> "s"], [kind |-> "substring", value |-> "q"],
              [kind |-> "bytes", value |-> "p"], [kind |-> "bytes", value |-> "pp"]}
MCAccepts == {<<"q", "s">>, <<"q", "q">>, <<"p", "p">>, <<"p", "pp">>, <<"pp", "pp">>}

Leaves == {Leaf(f) : f \in Feature}
Ranges == {Range_(f, mm[1], mm[2]) : f \in Feature, mm \in {<<0, 0>>, <<2, NoMax>>}}
Simple == Leaves \union Ranges

\* The rule grammar accepts empty child lists.
Lists(S) == {<<>>} \union {<<a>> : a \in S} \union (S \X S)

Over(lists) == {And(k) : k \in lists} \union {Or(k) : k \in lists}
                  \union {Some(n, k) : n \in 0 .. 2, k \in lists}

Compound == Over(Lists(Leaves)) \union {Not(x) : x \in Simple}
Deep == Over({<<c, x>> : c \in Compound, x \in Leaves} \union {<<c>> : c \in Compound})
           \union {Not(c) : c \in Compound}
\* Extraction leaves a subscope in a body only at its root.
Roots == {Subscope("function", x) : x \in Leaves}
MCTrees == Simple \union Compound \union Deep \union Roots

-----------------------------------------------------------------------------
\* What parsing and the construction of the rule set leave of a body: com
\* features are expanded, no child is a subscope.
IsStatement(n) ==
    LET Kids == Seq(ToSet(n.kids))
    IN  \/ n \in [op : {"and", "or"}, kids : Kids]
        \/ n \in [op : {"some"}, count : Nat, kids : Kids]
        \/ n \in [op : {"not"}, kids : Kids] /\ Len(n.kids) = 1
        \/ n \in [op : {"subscope"}, scope : STRING, kids : Kids] /\ Len(n.kids) = 1
        \/ n \in [op : {"range"}, feature : Feature, min : Nat, max : Nat \union {NoMax},
                 kids : {<<>>}]
        \/ n \in [op : {"leaf"}, feature : Feature, kids : {<<>>}] /\ n.feature.kind # "com"

IsBody(body) ==
    /\ \A n \in Statements(body) :
        /\ IsStatement(n)
        /\ \A kid \in ToSet(n.kids) : kid.op # "subscope"
    /\ \A n \in Generations(body)[MaxDepth] : n.kids = <<>>

ASSUME TreesAreBodies == \A t \in Trees : IsBody(t)
ASSUME MaxEntriesIsNatural == MaxEntries \in Nat

-----------------------------------------------------------------------------
VARIABLES tree, fs

vars == <<tree, fs>>

Init ==
    /\ tree \in Trees
    /\ fs = <<>>

\* engine::insert by an extractor.
Insert(f, a) ==
    /\ f \in Keys(fs) \/ Len(fs) < MaxEntries
    /\ fs' = InsertMany(fs, f, {a})
    /\ UNCHANGED tree

\* engine::merge of a child scope's set.
Merge(other) ==
    /\ Cardinality(Keys(fs) \union Keys(other)) <= MaxEntries
    /\ fs' = MergeSets(fs, other)
    /\ UNCHANGED tree

ChildSets == {<<[feature |-> f, locs |-> Addr], [feature |-> g, locs |-> Addr]>> :
                f \in Feature, g \in Feature}

Next ==
    \/ \E f \in Feature, a \in Addr : Insert(f, a)
    \/ \E other \in {c \in ChildSets : c[1].feature # c[2].feature} : Merge(other)

Spec == Init /\ [][Next]_vars

-----------------------------------------------------------------------------
NoEmptyOptional(node) ==
    \A n \in Statements(node) : ~ (n.op = "some" /\ n.count = 0 /\ n.kids = <<>>)

\* debug_assert!(full.success) of match_scope_borrowed: when the boolean pass
\* succeeds, the full pass that collects the evidence succeeds too.
FullPassAgrees ==
    EvaluateBoolean(tree, fs) = Yes => Evaluate(tree, fs, FALSE).outcome = Yes

\* evaluate_boolean is "the success/error outcome of evaluate(node, fs, true)",
\* and on every tree without an empty `optional` list that of the full pass.
PassesAgree ==
    /\ EvaluateBoolean(tree, fs) = Evaluate(tree, fs, TRUE).outcome
    /\ NoEmptyOptional(tree) => EvaluateBoolean(tree, fs) = Evaluate(tree, fs, FALSE).outcome

\* The cost optimiser reorders children and changes no outcome.
OptimizerPreservesOutcome ==
    EvaluateBoolean(OptimizeNode(tree), fs) = EvaluateBoolean(tree, fs)

\* "at least one of which must be present for the rule to match": a rule the
\* index does not select would evaluate to no match and to no error.
IndexIsSound ==
    IsCandidate(RequiredFeatures(tree), Keys(fs)) \/ EvaluateBoolean(tree, fs) = No

Reversed(s) == [i \in DOMAIN s |-> s[Len(s) + 1 - i]]

\* Which rules match does not depend on the insertion order of the feature
\* set, only the evidence of the first-hit leaves does.
OutcomeIgnoresInsertionOrder ==
    EvaluateBoolean(tree, Reversed(fs)) = EvaluateBoolean(tree, fs)
=============================================================================
