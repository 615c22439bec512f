-------------------------- MODULE MCDynamicDriver --------------------------
(***************************************************************************)
(* A call rule, two span rules of which one may refer to the other and to  *)
(* calls, and a rule at thread, process or file scope; processes of one or *)
(* two threads with up to four calls, and a window of two calls.           *)
(***************************************************************************)
EXTENDS DynamicDriver

CONSTANT TopScopes      \* scopes of the fourth rule

a == <<11>>
b == <<12>>
c == <<13>>
d == <<15>>
ns == <<14>>

x == [kind |-> "api", value |-> "x"]
y == [kind |-> "api", value |-> "y"]
windows == [kind |-> "os", value |-> "windows"]
NoGuids == [name \in {} |-> <<>>]
Is(name) == Leaf(MatchFeature(name))
Call(body) == Subscope("call", body)
Span(body) == Subscope("span of calls", body)

UserRule(name, namespace, scope, body) ==
    [name |-> name, namespace |-> namespace, scopes |-> {scope}, body |-> body, parent |-> NoNamespace]

\* Rule b matches on a span; c on the same span, with b or a call below.
Spans == {Leaf(x), Or(<<Span(Leaf(x)), Not(Leaf(windows))>>), And(<<Call(And(<<Leaf(x), Not(Leaf(y))>>)), Leaf(windows)>>)}
Dependents == {
    And(<<Is(b), Leaf(y)>>),
    And(<<Not(Is(b)), Range_(MatchFeature(a), 2, NoMax)>>),
    Or(<<Is(ns), Some(2, <<Leaf(y), Not(Is(a)), Leaf(windows)>>)>>)}

Tops(scope) == {body \in {
    And(<<Is(a), Not(Call(And(<<Leaf(x), Leaf(y)>>)))>>),
    Range_(MatchFeature(a), 2, 2),
    Or(<<Call(Leaf(windows)), And(<<Subscope("thread", Range_(y, 2, NoMax)), Leaf(x)>>)>>),
    And(<<Span(And(<<Leaf(x), Leaf(y)>>)), Is(a)>>),
    And(<<Is(ns), Is(c)>>),
    Call(Leaf(x))} : IsWellScoped({scope}, body)}

\* The last list has a rule with the name of a namespace.
MCRuleSets == {
    <<UserRule(a, NoNamespace, "call", Leaf(x)),
      UserRule(b, ns, "span of calls", bb), UserRule(c, NoNamespace, "span of calls", bc),
      UserRule(d, NoNamespace, s, bd)>> : bb \in Spans, bc \in Dependents, <<s, bd>> \in
        UNION {{t} \X Tops(t) : t \in TopScopes}}
    \union {<<UserRule(ns, NoNamespace, "call", Leaf(x)), UserRule(b, ns, "thread", Leaf(y)),
              UserRule(d, NoNamespace, "file", Is(ns))>>}

CallAt(p, t, i, fs) ==
    [scope |-> "call", addr |-> <<p, t, i>>, features |-> [k \in DOMAIN fs |-> <<<<p, t, i>>, fs[k]>>], kids |-> <<>>]
Thread(p, t, fs, calls) ==
    [scope |-> "thread", addr |-> <<p, t>>, features |-> [k \in DOMAIN fs |-> <<<<p, t>>, fs[k]>>],
     kids |-> [i \in DOMAIN calls |-> CallAt(p, t, i, calls[i])]]
Process(p, threads) == [scope |-> "process", addr |-> <<p>>, features |-> <<>>, kids |-> threads]
File(processes) == [scope |-> "file", addr |-> NoAddress, features |-> <<<<NoAddress, x>>>>, kids |-> processes]

MCFiles == {
    File(<<Process(1, <<Thread(1, 1, <<>>, <<<<x>>, <<y>>, <<>>, <<x, y>>>>), Thread(1, 2, <<y>>, <<<<x>>>>)>>)>>),
    File(<<Process(1, <<Thread(1, 1, <<>>, <<<<x>>, <<x>>, <<y>>, <<>>>>)>>), Process(2, <<Thread(2, 1, <<>>, <<<<y>>>>)>>)>>),
    File(<<Process(3, <<>>)>>)}

MCGlobals == {<<>>, <<windows>>}
=============================================================================
