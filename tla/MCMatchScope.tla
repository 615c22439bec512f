---------------------------- MODULE MCMatchScope ----------------------------
(***************************************************************************)
(* MatchScope with the evaluator of Engine and the index of RuleIndex.     *)
(***************************************************************************)
EXTENDS MatchScope

E == INSTANCE RuleIndex WITH Accepts <- {}, MaxDepth <- 2

x == [kind |-> "api", value |-> "x"]
win == [kind |-> "os", value |-> "windows"]
anyOs == [kind |-> "os", value |-> "any"]

\* Rule names a, b, c; the namespaces n and n/m.
a == <<"a">>
b == <<"b">>
c == <<"c">>
n == <<"n">>
nm == <<"n", "m">>

Is(name) == E!Leaf(E!MatchFeature(name))

Bodies == {
    E!Leaf(x), E!Leaf(anyOs), E!Not(E!Leaf(x)),
    Is(a), Is(n), Is(nm), E!Not(Is(a)),
    E!And(<<E!Leaf(win), Is(a)>>),
    E!And(<<Is(a), E!Not(Is(n))>>),
    E!Or(<<E!Leaf(x), Is(n)>>),
    E!Some(2, <<E!Leaf(x), Is(a), Is(b)>>),
    E!Range_(E!MatchFeature(a), 2, E!NoMax),
    E!Range_(E!MatchFeature(n), 0, 1),
    E!Subscope("function", E!Leaf(x))}

RuleOf(name, namespace, body) == [name |-> name, namespace |-> namespace, body |-> body]

\* a is in n/m, b is in n, c has no namespace.
MCRule == {RuleOf(a, nm, body) : body \in Bodies}
            \union {RuleOf(b, n, body) : body \in Bodies}
            \union {RuleOf(c, E!NoNamespace, body) : body \in Bodies}

First == {E!Leaf(x), E!Not(E!Leaf(x)), Is(n), E!Range_(E!MatchFeature(a), 2, E!NoMax)}

\* Three rules with different names: the first one mostly provides, the others
\* depend on it, on its namespaces, or on each other.
MCRuleLists == {<<p, q, r>> : p \in {s \in MCRule : s.name = a /\ s.body \in First},
                              q \in {s \in MCRule : s.name = b},
                              r \in {s \in MCRule : s.name = c}}

\* The scope instance is at address 1; what lower scopes promoted is at 2.
Promoted == {E!MatchFeature(a), E!MatchFeature(n)}
Own == {E!MatchFeature(name) : name \in {a, b, c, n, nm}}

MCInputs == {[k \in K |-> {2}] : K \in SUBSET ({x, win} \union Promoted)}
MCFeatureSets == {Insert(F, new, 1) : F \in MCInputs, new \in SUBSET Own}

\* An entry per key, in some insertion order.
Ordered(F) ==
    E!FoldSet(LAMBDA k, seq : Append(seq, [feature |-> k, locs |-> F[k]]), <<>>, DOMAIN F)

MCEval(r, F) == E!EvaluateBoolean(r.body, Ordered(F))
MCFullEval(r, F) == E!Evaluate(r.body, Ordered(F), FALSE).outcome
MCAlways(r) == ~ E!RequiredFeatures(r.body).indexable
MCAlts(r) == E!RequiredFeatures(r.body).alts
MCOpens(alt, key) ==
    IF E!QueryBucket(alt) = "exact" THEN alt = key ELSE E!KeyBucket(key) = E!QueryBucket(alt)
MCPublished(r) == {E!MatchFeature(r.name)} \union
    {E!MatchFeature(E!RuleNamespaces(r.namespace)[i]) : i \in DOMAIN r.namespace}
=============================================================================
