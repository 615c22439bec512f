--------------------------- MODULE MCStaticDriver ---------------------------
(***************************************************************************)
(* Three rules: a at function or file scope with subscopes nested up to    *)
(* two deep, counts and negations; b at basic block scope; c at            *)
(* instruction scope.  b and c share a namespace.  Files of two functions  *)
(* whose first block and first instruction have the function's address;    *)
(* in one of them the functions share a block.  In some rule sets rule c   *)
(* has the name of the namespace.                                          *)
(***************************************************************************)
EXTENDS StaticDriver

a == <<11>>
b == <<12>>
c == <<13>>
ns == <<14>>

api == [kind |-> "api", value |-> "x"]
text == [kind |-> "plain", value |-> "s"]
text2 == [kind |-> "plain", value |-> "t"]
windows == [kind |-> "os", value |-> "windows"]
\* The substring occurs in both strings.
find == [kind |-> "substring", value |-> "q"]
MCAccepts == {<<"q", "s">>, <<"q", "t">>}
NoGuids == [name \in {} |-> <<>>]

Is(name) == Leaf(MatchFeature(name))
Block(body) == Subscope("basic block", body)
Insn(body) == Subscope("instruction", body)

UserRule(name, namespace, scope, body) ==
    [name |-> name, namespace |-> namespace, scopes |-> {scope}, body |-> body, parent |-> NoNamespace]

Tops == {
    And(<<Is(b), Leaf(windows)>>),
    And(<<Leaf(find), Not(Is(ns))>>),
    Or(<<Block(And(<<Leaf(api), Leaf(find)>>)), Range_(MatchFeature(c), 2, NoMax)>>),
    And(<<Block(And(<<Leaf(api), Not(Insn(And(<<Leaf(api), Leaf(text)>>)))>>)), Leaf(windows)>>),
    Not(Insn(Or(<<Leaf(text), Is(c)>>))),
    Some(2, <<Leaf(api), Is(b), Insn(Is(ns)), Range_(api, 0, 1)>>),
    Range_(MatchFeature(ns), 2, 3),
    Not(Subscope("function", Range_(MatchFeature(ns), 0, 1))),
    Subscope("function", Is(b))}

Blocks == {
    Leaf(find),
    And(<<Leaf(api), Not(Is(c))>>),
    Insn(Leaf(api)),
    Not(Block(Some(2, <<Leaf(text), Leaf(text2), Leaf(api)>>)))}

Insns == {Leaf(api), Or(<<Leaf(text2), Not(Leaf(windows))>>)}

MCRuleSets ==
    {<<UserRule(a, NoNamespace, s, ba), UserRule(b, ns, "basic block", bb), UserRule(c, ns, "instruction", bc)>> :
        s \in {"function", "file"}, ba \in {t \in Tops : IsWellScoped({"function"}, t)},
        bb \in Blocks, bc \in Insns}
    \union
    {<<UserRule(a, NoNamespace, "function", And(<<Is(ns), Leaf(api)>>)),
       UserRule(b, ns, "basic block", bb), UserRule(ns, NoNamespace, "instruction", Leaf(text))>> :
        bb \in Blocks}

Instance_(scope, addr, features, kids) ==
    [scope |-> scope, addr |-> addr, features |-> features, kids |-> kids]
At(addr, fs) == [i \in DOMAIN fs |-> <<<<addr>>, fs[i]>>]
I(addr, fs) == Instance_("instruction", <<addr>>, At(addr, fs), <<>>)
B(addr, fs, kids) == Instance_("basic block", <<addr>>, At(addr, fs), kids)
F(addr, fs, kids) == Instance_("function", <<addr>>, At(addr, fs), kids)

Shared == B(5, <<>>, <<I(5, <<text2>>), I(6, <<api>>)>>)

MCFiles == {
    Instance_("file", NoAddress, <<<<NoAddress, text>>, <<<<0>>, api>>>>,
        <<F(0, <<>>, <<B(0, <<>>, <<I(0, <<api, text>>), I(1, <<api>>)>>), B(2, <<text2>>, <<I(2, <<>>)>>)>>),
          F(3, <<text>>, <<B(3, <<>>, <<I(3, <<text2>>), I(4, <<api>>)>>)>>)>>),
    Instance_("file", NoAddress, <<<<<<7>>, text2>>>>,
        <<F(1, <<>>, <<B(1, <<>>, <<I(1, <<text>>)>>), Shared>>),
          F(3, <<>>, <<B(3, <<api>>, <<I(3, <<api, text2>>), I(4, <<text>>)>>), Shared>>)>>),
    Instance_("file", NoAddress, <<>>, <<>>)}

MCGlobals == {<<>>, <<windows>>}
=============================================================================
