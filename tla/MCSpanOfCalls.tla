--------------------------- MODULE MCSpanOfCalls ---------------------------
(***************************************************************************)
(* SpanOfCalls with the evaluator of Engine, a window of two calls and     *)
(* threads of four.  In one rule set b depends on a and c on b; the rule   *)
(* of the other is a subscope, on which the evaluator raises an error.     *)
(***************************************************************************)
EXTENDS SpanOfCalls

E == INSTANCE Subscopes WITH Accepts <- {}, MaxDepth <- 3, Guids <- EmptySet

x == [kind |-> "api", value |-> "x"]
y == [kind |-> "api", value |-> "y"]
windows == [kind |-> "os", value |-> "windows"]
a == <<"a">>
b == <<"b">>
c == <<"c">>
d == <<"d">>
MCRule == {a, b, c, d}
Is(name) == E!Leaf(E!MatchFeature(name))
RuleOf(name, body) == [name |-> name, namespace |-> E!NoNamespace, body |-> body]

\* Each one is the list of the scope, dependency first.
MCRuleSets == {
    <<RuleOf(a, E!Leaf(x)),
      RuleOf(b, E!And(<<Is(a), E!Leaf(y), E!Leaf(windows)>>)),
      RuleOf(c, E!And(<<E!Not(Is(b)), E!Range_(x, 2, E!NoMax)>>)),
      RuleOf(d, E!Or(<<Is(b), E!And(<<E!Leaf(y), E!Not(E!Leaf(x))>>)>>))>>,
    <<RuleOf(a, E!Subscope("call", E!Leaf(x)))>>}

\* A call at location i: some of the features, at i; the global feature, at
\* NoAddress and perhaps at i too.
CallsAt(i) == {[f \in own \union {windows} |->
                  IF f = windows THEN {NoAddress} \union (IF both THEN {i} ELSE {}) ELSE {i}] :
               own \in SUBSET {x, y}, both \in {FALSE, i = 1}}
MCCall == UNION {CallsAt(i) : i \in 1 .. 4}
MCThreads == {<<>>} \union (CallsAt(1) \X CallsAt(2) \X CallsAt(3) \X CallsAt(4))
MCGlobal == {windows}

Ordered(F) ==
    E!FoldSet(LAMBDA k, seq : Append(seq, [feature |-> k, locs |-> F[k]]), <<>>, DOMAIN F)

\* match_scope_results: every rule in order, matches published at call i.
Linear(R, F, i) ==
    E!FoldLeft(LAMBDA acc, rule :
                   LET r == E!EvaluateBoolean(rule.body, acc.fs)
                   IN  CASE acc.error \/ r = E!No -> acc
                         [] ~ acc.error /\ r = E!Error -> [acc EXCEPT !.error = TRUE]
                         [] ~ acc.error /\ r = E!Yes ->
                              [acc EXCEPT !.fs = E!IndexRuleMatches(@, rule, {i}), !.names = @ \union {rule.name}],
               [fs |-> Ordered(F), names |-> {}, error |-> FALSE], R)

MCNames(R, F, i) == Linear(R, F, i).names
MCFails(R, F) == Linear(R, F, NoAddress).error
MCDepsOf(R, r) == E!Dependencies(R, E!ByName(R, r).body)
=============================================================================
