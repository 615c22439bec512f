--------------------------- MODULE MCRuleSetBuild ---------------------------
(***************************************************************************)
(* Two or three rules a, b and n/c with nested subscopes of the static and *)
(* of the dynamic flavour, references by name and by namespace, and COM    *)
(* leaves.                                                                 *)
(***************************************************************************)
EXTENDS RuleSetBuild

\* Parts above 10 are words, parts below are counters.
a == <<11>>
b == <<12>>
ns == <<14>>
c == <<14, 13>>

\* Two GUIDs for one name, none for another.
MCGuids == [known |-> <<"g1", "g2">>, empty |-> <<>>]

x == Leaf([kind |-> "api", value |-> "x"])
Is(name) == Leaf(MatchFeature(name))
Com(name) == Leaf([kind |-> "com", value |-> name])
Block(kids) == Subscope("basic block", And(kids))
Call(kids) == Subscope("call", Or(kids))

Bodies(scopes, refs) == {body \in {
    x, Com("known"), Com("empty"), Com("unknown"),
    Not(Call(<<Com("known"), x>>)),
    And(<<x, Block(<<x, Subscope("instruction", x)>>)>>),
    Or(<<Block(<<x>>), Call(<<x>>), Some(1, <<Block(<<Not(Com("known"))>>), x>>)>>)}
    \union UNION {{Is(r), And(<<Is(r), Block(<<Is(r)>>)>>),
                   Subscope("thread", Not(Is(r))),
                   Or(<<Range_(MatchFeature(r), 1, 2), Subscope("function", Block(<<Is(r), x>>))>>),
                   Subscope("call", Or(<<x, Is(r)>>)), And(<<Subscope("basic block", Is(r))>>)} : r \in refs} :
    IsWellScoped(scopes, body)}

UserRule(name, namespace, scopes, body) ==
    [name |-> name, namespace |-> namespace, scopes |-> scopes, body |-> body, parent |-> NoNamespace]

Declared == {{"function", "thread"}, {"file"}}

\* References go from a to b and to the third rule, and from b to the third:
\* RuleSet::new accepts no cycles.
MCRuleLists ==
    LET third == {UserRule(c, nsp, {"function", "process"}, x) : nsp \in {NoNamespace, ns}}
        Deps3(t) == {t.name} \union (IF t.namespace = ns THEN {ns} ELSE {})
        As(refs) == UNION {{UserRule(a, NoNamespace, d, body) : body \in Bodies(d, refs)} : d \in Declared}
        Bs(refs) == {UserRule(b, nsp, {"basic block", "call"}, body) :
                        nsp \in {NoNamespace, ns}, body \in Bodies({"basic block", "call"}, refs)}
    IN  UNION {LET refs == Deps3(t)
               IN  {<<p, q, t>> : p \in As(refs \union {b}), q \in Bs({t.name})}
                   \union {<<t, q, p>> : p \in As({b}), q \in Bs({t.name})} : t \in third}
=============================================================================
