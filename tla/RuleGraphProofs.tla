-------------------------- MODULE RuleGraphProofs --------------------------
(***************************************************************************)
(* RuleSet::new orders every rule set it accepts dependency first, and     *)
(* reports a cycle exactly where there is one, for every list of rules.    *)
(***************************************************************************)
EXTENDS RuleGraph, TLAPS

\* Dependencies are strings, and names that no rule has depend on nothing.
LEMMA DepsFacts ==
    ASSUME rules \in RuleLists
    PROVE  /\ RuleNames \subseteq Name
           /\ \A x \in Name : Deps(x) \subseteq Name
           /\ \A x \in Name \ RuleNames : Deps(x) = {}
<1>1. \A i \in Positions : rules[i] \in Rule
  BY ListsAssumption DEF Positions
<1>2. \A i \in Positions : rules[i].name \in Name /\ rules[i].matches \in SUBSET Name
  BY <1>1 DEF Rule
<1>3. \A x \in Name : InNamespace(x) \subseteq Name
  BY <1>2 DEF InNamespace
<1>4. \A x \in Name : Register(x) \subseteq Name
  BY <1>3 DEF Register
<1>5. \A x \in Name : Deps(x) \subseteq Name
  <2> TAKE x \in Name
  <2> DEFINE I == {j \in Positions : rules[j].name = x /\ \A k \in Positions : rules[k].name = x => k <= j}
             M == UNION {rules[i].matches : i \in I}
  <2>1. M \subseteq Name
    BY <1>2
  <2> HIDE DEF M
  <2>2. UNION {Register(m) : m \in M} \subseteq Name
    BY <2>1, <1>4
  <2> QED
    BY <2>2 DEF Deps, M
<1>6. \A x \in Name \ RuleNames : Deps(x) = {}
  BY DEF Deps, RuleNames
<1> QED
  BY <1>2, <1>5, <1>6 DEF RuleNames

\* The graph does not change while it is searched.
LEMMA GraphUnchanged ==
    ASSUME UNCHANGED rules
    PROVE  /\ RuleNames' = RuleNames
           /\ \A x \in Name : Deps(x)' = Deps(x)
           /\ \A x, y \in Name : Reaches(x, y)' <=> Reaches(x, y)
<1>1. RuleNames' = RuleNames
  BY DEF RuleNames, Positions
<1>2. \A x \in Name : Deps(x)' = Deps(x)
  BY DEF Deps, Register, InNamespace, Positions
<1>3. ASSUME NEW x \in Name, NEW y \in Name PROVE Reaches(x, y)' <=> Reaches(x, y)
  BY <1>2 DEF Reaches
<1> QED
  BY <1>1, <1>2, <1>3

\* A dependency is reached, and so is a dependency of what is reached.
LEMMA ReachesStep ==
    ASSUME NEW x \in Name, NEW y \in Name, NEW z \in Name, y \in Deps(z),
           z = x \/ Reaches(x, z)
    PROVE  Reaches(x, y)
  BY DEF Reaches

\* The elements of a list are its head and the elements of its tail.
LEMMA HeadAndTail ==
    ASSUME NEW S, NEW s \in Seq(S), s # <<>>
    PROVE  /\ Head(s) \in S /\ Tail(s) \in Seq(S)
           /\ {s[i] : i \in DOMAIN s} = {Head(s)} \union {Tail(s)[i] : i \in DOMAIN Tail(s)}
<1> DEFINE t == Tail(s)
<1>1. /\ Len(s) \in Nat /\ Len(s) > 0 /\ DOMAIN s = 1..Len(s) /\ Head(s) = s[1]
      /\ t \in Seq(S) /\ DOMAIN t = 1..(Len(s) - 1) /\ \A i \in 1..(Len(s) - 1) : t[i] = s[i + 1]
  OBVIOUS
<1> HIDE DEF t
<1>2. \A i \in DOMAIN s : i = 1 \/ (i - 1 \in DOMAIN t /\ s[i] = t[i - 1])
  <2> TAKE i \in DOMAIN s
  <2>1. i # 1 => i - 1 \in 1..(Len(s) - 1) /\ (i - 1) + 1 = i
    BY <1>1
  <2> QED
    BY <1>1, <2>1
<1>3. \A i \in DOMAIN t : i + 1 \in DOMAIN s /\ t[i] = s[i + 1]
  BY <1>1
<1>4. 1 \in DOMAIN s
  BY <1>1
<1>5. {s[i] : i \in DOMAIN s} \subseteq {Head(s)} \union {t[i] : i \in DOMAIN t}
  BY <1>1, <1>2
<1>6. {Head(s)} \union {t[i] : i \in DOMAIN t} \subseteq {s[i] : i \in DOMAIN s}
  BY <1>1, <1>3, <1>4
<1> QED
  BY <1>1, <1>4, <1>5, <1>6 DEF t

\* The top of a stack and what lies below it.
LEMMA TopAndBelow ==
    ASSUME stack \in Seq(Frame), stack # <<>>
    PROVE  /\ Len(stack) \in Nat /\ Len(stack) > 0 /\ DOMAIN stack = 1..Len(stack)
           /\ Top = stack[Len(stack)] /\ Top \in Frame
           /\ Below \in Seq(Frame) /\ Len(Below) = Len(stack) - 1
           /\ DOMAIN Below = 1..(Len(stack) - 1)
           /\ \A i \in 1..(Len(stack) - 1) : Below[i] = stack[i]
<1> DEFINE m == Len(stack) - 1
<1>1. m \in Nat /\ Len(stack) = m + 1 /\ DOMAIN stack = 1..(m + 1)
  OBVIOUS
<1>2. Top = stack[m + 1] /\ Top \in Frame
  BY <1>1 DEF Top
<1>3. Below = [i \in 1..m |-> stack[i]]
  BY <1>1 DEF Below
<1> HIDE DEF m
<1>4. \A i \in 1..m : stack[i] \in Frame
  BY <1>1
<1>5. Below \in Seq(Frame) /\ Len(Below) = m
  BY <1>1, <1>3, <1>4
<1> QED
  BY <1>1, <1>2, <1>3, <1>5 DEF m

\* A call of RuleSet::new starts in the invariant.
LEMMA InitInv == Init => Inv
<1> SUFFICES ASSUME Init PROVE Inv
  OBVIOUS
<1>1. TypeOK
  BY DEF Init, TypeOK
<1> QED
  BY <1>1 DEF Init, Inv, MissingIsUnreachable, Searching, DependencyFirst

\* A call visit(x), x a dependency of the top frame whose loop has moved on,
\* or a rule of the outer loop when the stack is empty.
LEMMA VisitStep ==
    ASSUME Inv, status = "ordering", UNCHANGED <<rules, order>>,
           NEW x \in RuleNames, NEW callers \in Seq(Frame),
           Len(callers) = Len(stack),
           \A i \in DOMAIN stack :
               /\ callers[i].name = stack[i].name
               /\ callers[i].left \subseteq Deps(stack[i].name)
               /\ Deps(stack[i].name) \subseteq
                     Done \union callers[i].left \union
                     (IF i < Len(stack) THEN {stack[i + 1].name} ELSE {x}),
           stack # <<>> => x \in Deps(stack[Len(stack)].name),
           Visit(x, callers)
    PROVE  /\ stack' \in Seq(Frame) /\ marks' \in [Name -> {"none", "visiting", "done"}]
           /\ status' \in {"ordering", "cycle"} /\ culprit' \in Name \union {NoName}
           /\ MarksInv' /\ StackInv'
           /\ Done' = Done
           /\ status' = "cycle" => Reaches(culprit, culprit)'
           /\ status' # "cycle" =>
                (x \in Done' /\ Stacked' = Stacked) \/ Stacked' = Stacked \union {x}
<1> USE DEF Inv, Searching
<1>1. x \in Name /\ RuleNames \subseteq Name /\ \A y \in Name : Deps(y) \subseteq Name
  BY DepsFacts DEF TypeOK
<1>2. /\ RuleNames' = RuleNames /\ \A y \in Name : Deps(y)' = Deps(y)
      /\ \A y, z \in Name : Reaches(y, z)' <=> Reaches(y, z)
  BY GraphUnchanged
<1>3. /\ stack \in Seq(Frame) /\ order \in Seq(Name) /\ marks \in [Name -> {"none", "visiting", "done"}]
      /\ DOMAIN stack = 1..Len(stack) /\ DOMAIN callers = DOMAIN stack /\ Len(stack) \in Nat
  BY DEF TypeOK
<1>4. \A i \in DOMAIN stack : stack[i].name \in Name /\ stack[i].name \in RuleNames
  BY <1>1 DEF StackInv
<1>5. \A i \in DOMAIN stack : Reaches(stack[i].name, x)
  <2> TAKE i \in DOMAIN stack
  <2> DEFINE top == stack[Len(stack)].name
  <2>1. x \in Deps(top) /\ top \in Name /\ Len(stack) \in DOMAIN stack
    BY <1>3, <1>4
  <2>2. stack[i].name = top \/ Reaches(stack[i].name, top)
    BY <1>3, <2>1 DEF StackInv
  <2> QED
    BY <1>1, <1>4, <2>1, <2>2, ReachesStep
<1>9. /\ Done = {order'[i] : i \in DOMAIN order'}
      /\ \A i, j \in DOMAIN order' : order'[i] = order'[j] => i = j
      /\ \A i, j \in DOMAIN stack : stack[i].name = stack[j].name => i = j
      /\ {y \in Name : marks[y] = "visiting"} = Stacked
      /\ StackInv
  <2>1. MarksInv /\ StackInv /\ order' = order
    OBVIOUS
  <2> HIDE DEF Inv
  <2> QED
    BY <2>1 DEF MarksInv
<1>10. culprit \in Name \union {NoName}
  BY DEF TypeOK
<1> HIDE DEF Inv
<1>6. CASE marks[x] = "done" /\ stack' = callers /\ UNCHANGED <<marks, status, culprit>>
  <2>1. Done' = Done /\ x \in Done
    BY <1>1, <1>6 DEF Done
  <2>2. Stacked' = Stacked
    BY <1>3, <1>6 DEF Stacked
  <2>3. MarksInv'
    <3>1. \A i, j \in DOMAIN stack' : stack'[i].name = stack'[j].name => i = j
      BY <1>3, <1>6, <1>9
    <3>2. {y \in Name : marks'[y] = "visiting"} = Stacked'
      BY <1>6, <1>9, <2>2, Zenon
    <3> QED
      BY <1>9, <2>1, <3>1, <3>2, Zenon DEF MarksInv
  <2>4. StackInv'
    <3>1. Len(stack') = Len(stack) /\ DOMAIN stack' = DOMAIN stack
      BY <1>3, <1>6
    <3>2. \A i \in DOMAIN stack : stack'[i].name = stack[i].name /\ stack'[i].left = callers[i].left
      BY <1>6
    <3>3. \A i \in DOMAIN stack : i < Len(stack) => i + 1 \in DOMAIN stack
      BY <1>3
    <3>4. \A i \in DOMAIN stack' :
            Deps(stack'[i].name) \subseteq
                Done' \union stack'[i].left \union
                (IF i < Len(stack') THEN {stack'[i + 1].name} ELSE {})
      BY <1>2, <1>4, <2>1, <3>1, <3>2, <3>3
    <3>5. \A i \in DOMAIN stack' : stack'[i].name \in RuleNames /\ stack'[i].left \subseteq Deps(stack'[i].name)
      BY <1>2, <1>4, <3>1, <3>2
    <3>6. \A i, j \in DOMAIN stack' : i < j => Reaches(stack'[i].name, stack'[j].name)
      BY <1>2, <1>4, <1>9, <3>1, <3>2 DEF StackInv
    <3> QED
      BY <1>1, <1>2, <3>4, <3>5, <3>6 DEF StackInv
  <2> QED
    BY <1>6, <1>3, <1>10, <2>1, <2>2, <2>3, <2>4
<1>7. CASE marks[x] = "visiting" /\ Err("cycle", x)
  <2>1. UNCHANGED <<stack, marks>> /\ status' = "cycle" /\ culprit' = x
    BY <1>7 DEF Err
  <2>5. Done' = Done /\ Stacked' = Stacked
    BY <2>1 DEF Done, Stacked
  <2>2. Done' = Done /\ MarksInv'
    BY <1>9, <2>1, <2>5 DEF MarksInv
  <2>3. StackInv'
    BY <1>2, <1>3, <1>4, <1>9, <2>1, <2>2 DEF StackInv
  <2>4. \E i \in DOMAIN stack : stack[i].name = x
    BY <1>1, <1>7, <1>9 DEF Stacked
  <2>6. Reaches(x, x)
    BY <1>5, <2>4
  <2> QED
    BY <1>1, <1>2, <1>3, <2>1, <2>2, <2>3, <2>6
<1>8. CASE marks[x] = "none" /\ x \in RuleNames /\ Enter(x, callers)
  <2> DEFINE new == [name |-> x, left |-> Deps(x)]
             n == Len(stack)
  <2>1. /\ stack' = Append(callers, new) /\ marks' = [marks EXCEPT ![x] = "visiting"]
        /\ UNCHANGED <<status, culprit>>
    BY <1>8 DEF Enter
  <2>2. new \in Frame /\ new.name = x /\ new.left = Deps(x)
    BY <1>1 DEF Frame
  <2> HIDE DEF new
  <2>3. /\ stack' \in Seq(Frame) /\ Len(stack') = n + 1 /\ DOMAIN stack' = 1..(n + 1)
        /\ stack'[n + 1] = new /\ \A i \in 1..n : stack'[i] = callers[i]
    BY <1>3, <2>1, <2>2
  <2>4. \A i \in 1..n : stack'[i].name = stack[i].name /\ stack'[i].left = callers[i].left
    BY <1>3, <2>3
  <2>5. stack'[n + 1].name = x /\ stack'[n + 1].left = Deps(x)
    BY <2>2, <2>3
  <2>6. Done' = Done
    BY <1>1, <1>3, <1>8, <2>1 DEF Done
  <2>7. \A i \in 1..n : stack[i].name # x
    <3> SUFFICES ASSUME NEW i \in 1..n, stack[i].name = x PROVE FALSE
      OBVIOUS
    <3>1. x \in Stacked
      BY <1>3 DEF Stacked
    <3>2. x \in {y \in Name : marks[y] = "visiting"}
      BY <1>9, <3>1, Zenon
    <3> QED
      BY <1>8, <3>2
  <2>8. Stacked' = Stacked \union {x}
    <3>1. \A i \in DOMAIN stack' : i \in 1..n \/ i = n + 1
      BY <1>3, <2>3
    <3>2. \A i \in 1..n : i \in DOMAIN stack'
      BY <1>3, <2>3
    <3>3. n + 1 \in DOMAIN stack'
      BY <1>3, <2>3
    <3>4. Stacked = {stack[i].name : i \in 1..n}
      BY <1>3 DEF Stacked
    <3> HIDE DEF n
    <3>5. ASSUME NEW y \in Stacked' PROVE y \in Stacked \union {x}
      <4>1. PICK i \in DOMAIN stack' : y = stack'[i].name
        BY <3>5 DEF Stacked
      <4>2. CASE i \in 1..n
        BY <2>4, <3>4, <4>1, <4>2
      <4>3. CASE i = n + 1
        BY <2>5, <4>1, <4>3
      <4> QED
        BY <3>1, <4>2, <4>3
    <3>6. ASSUME NEW y \in Stacked PROVE y \in Stacked'
      <4>1. PICK i \in 1..n : y = stack[i].name
        BY <3>4
      <4> QED
        BY <2>4, <3>2, <4>1 DEF Stacked
    <3>7. x \in Stacked'
      BY <2>5, <3>3 DEF Stacked
    <3> QED
      BY <3>5, <3>6, <3>7
  <2>9. {y \in Name : marks'[y] = "visiting"} = {y \in Name : marks[y] = "visiting"} \union {x}
    BY <1>1, <1>3, <2>1
  <2>10. MarksInv'
    <3>1. \A i, j \in DOMAIN stack' : stack'[i].name = stack'[j].name => i = j
      BY <1>3, <1>9, <2>3, <2>4, <2>5, <2>7
    <3>2. {y \in Name : marks'[y] = "visiting"} = Stacked'
      BY <1>9, <2>8, <2>9
    <3> QED
      BY <1>9, <2>6, <3>1, <3>2, Zenon DEF MarksInv
  <2>11. StackInv'
    <3>1. \A i \in DOMAIN stack' : stack'[i].name \in RuleNames /\ stack'[i].left \subseteq Deps(stack'[i].name)
      BY <1>1, <1>2, <1>3, <1>4, <2>3, <2>4, <2>5
    <3>2. \A i, j \in DOMAIN stack' : i < j => Reaches(stack'[i].name, stack'[j].name)
      <4> TAKE i, j \in DOMAIN stack'
      <4> HAVE i < j
      <4>1. i \in 1..n /\ stack'[i].name = stack[i].name /\ stack[i].name \in Name
        BY <1>3, <1>4, <2>3, <2>4
      <4>2. CASE j \in 1..n
        BY <1>2, <1>3, <1>4, <1>9, <2>4, <4>1, <4>2 DEF StackInv
      <4>3. CASE j = n + 1
        BY <1>1, <1>2, <1>3, <1>5, <2>5, <4>1, <4>3
      <4> QED
        BY <2>3, <4>2, <4>3, <1>3
    <3>3. \A i \in DOMAIN stack' :
            Deps(stack'[i].name) \subseteq
                Done' \union stack'[i].left \union
                (IF i < Len(stack') THEN {stack'[i + 1].name} ELSE {})
      <4> TAKE i \in DOMAIN stack'
      <4>1. CASE i \in 1..n /\ i < n
        <5>1. i + 1 \in 1..n /\ i < Len(stack') /\ stack'[i + 1].name = stack[i + 1].name
          BY <1>3, <2>3, <2>4, <4>1
        <5> QED
          BY <1>2, <1>3, <1>4, <2>3, <2>4, <2>6, <4>1, <5>1
      <4>2. CASE i \in 1..n /\ i = n
        BY <1>2, <1>3, <1>4, <2>3, <2>4, <2>5, <2>6, <4>2
      <4>3. CASE i = n + 1
        BY <1>1, <1>2, <2>5, <4>3
      <4> QED
        BY <1>3, <2>3, <4>1, <4>2, <4>3
    <3> QED
      BY <1>1, <1>2, <3>1, <3>2, <3>3 DEF StackInv
  <2> QED
    BY <1>1, <1>3, <1>10, <2>1, <2>3, <2>6, <2>8, <2>10, <2>11
<1> QED
  BY <1>6, <1>7, <1>8 DEF Visit

\* The outer loop preserves the invariant.
LEMMA VisitRuleInv == Inv /\ VisitRule => Inv'
<1> SUFFICES ASSUME Inv, VisitRule PROVE Inv'
  OBVIOUS
<1> USE DEF Inv, Searching
<1> DEFINE x == Head(todo)
<1>1. /\ status = "ordering" /\ stack = <<>> /\ todo # <<>> /\ Visit(x, stack)
      /\ todo' = Tail(todo) /\ UNCHANGED <<rules, order>>
  BY DEF VisitRule
<1>2. todo \in Seq(Name) /\ stack \in Seq(Frame)
  BY DEF TypeOK
<1>4. Todo = {x} \union Todo' /\ todo' \in Seq(Name)
  BY <1>1, <1>2, HeadAndTail DEF Todo
<1>3. x \in RuleNames /\ todo' \in Seq(Name)
  BY <1>1, <1>4 DEF TodoInv
<1>5. RuleNames' = RuleNames /\ \A y \in Name : Deps(y)' = Deps(y)
  BY <1>1, GraphUnchanged
<1> HIDE DEF x
<1>6. /\ stack' \in Seq(Frame) /\ marks' \in [Name -> {"none", "visiting", "done"}]
      /\ status' \in {"ordering", "cycle"} /\ culprit' \in Name \union {NoName}
      /\ MarksInv' /\ StackInv'
      /\ Done' = Done
      /\ status' = "cycle" => Reaches(culprit, culprit)'
      /\ status' # "cycle" =>
           (x \in Done' /\ Stacked' = Stacked) \/ Stacked' = Stacked \union {x}
  <2>1. DOMAIN stack = {} /\ Len(stack) = Len(stack)
    BY <1>1
  <2> QED
    BY <1>1, <1>2, <1>3, <2>1, VisitStep
<1>7. TodoInv'
  BY <1>1, <1>4, <1>5, <1>6 DEF TodoInv
<1>8. TypeOK'
  BY <1>1, <1>3, <1>6 DEF TypeOK
<1>9. RuleNames \subseteq Name
  BY DepsFacts DEF TypeOK
<1>10. DependencyFirst'
  BY <1>1, <1>5, <1>9 DEF DependencyFirst
<1> QED
  BY <1>1, <1>5, <1>6, <1>7, <1>8, <1>9, <1>10 DEF MissingIsUnreachable

\* The inner loop preserves it: the top frame's loop has moved on to x.
LEMMA VisitDependencyInv == Inv /\ VisitDependency => Inv'
<1> SUFFICES ASSUME Inv, VisitDependency PROVE Inv'
  OBVIOUS
<1> USE DEF Inv, Searching
<1>1. /\ status = "ordering" /\ stack # <<>> /\ UNCHANGED <<rules, todo, order>>
      /\ TypeOK /\ StackInv /\ TodoInv
      /\ \A y \in RuleNames : Deps(y) \subseteq RuleNames
      /\ \A i \in DOMAIN order : order[i] \in RuleNames
      /\ DependencyFirst
  BY DEF VisitDependency
<1> HIDE DEF Inv
<1>2. PICK x \in Top.left : Visit(x, Append(Below, [Top EXCEPT !.left = @ \ {x}]))
  BY DEF VisitDependency
<1> DEFINE n == Len(stack)
           moved == [Top EXCEPT !.left = @ \ {x}]
           callers == Append(Below, moved)
<1>3. stack \in Seq(Frame) /\ n \in Nat /\ n > 0 /\ n \in DOMAIN stack /\ DOMAIN stack = 1..n
  BY <1>1, TopAndBelow DEF TypeOK
<1>4. Top \in Frame /\ Top = stack[n] /\ Top.left \subseteq Deps(Top.name) /\ Top.name \in RuleNames
  BY <1>1, <1>3, TopAndBelow DEF StackInv
<1>5. moved \in Frame /\ moved.name = Top.name /\ moved.left = Top.left \ {x}
  BY <1>4 DEF Frame
<1> HIDE DEF moved
<1>6. /\ callers \in Seq(Frame) /\ Len(callers) = n /\ DOMAIN callers = 1..n
      /\ callers[n] = moved /\ \A i \in 1..(n - 1) : callers[i] = stack[i]
  <2>1. Below \in Seq(Frame) /\ Len(Below) = n - 1 /\ \A i \in 1..(n - 1) : Below[i] = stack[i]
    BY <1>1, <1>3, TopAndBelow
  <2> HIDE DEF n
  <2> QED
    BY <1>3, <1>5, <2>1
<1> HIDE DEF callers
<1>7. x \in Deps(Top.name) /\ x \in RuleNames
  BY <1>1, <1>2, <1>4
<1>8. \A i \in DOMAIN stack :
        /\ callers[i].name = stack[i].name
        /\ callers[i].left \subseteq Deps(stack[i].name)
        /\ Deps(stack[i].name) \subseteq
              Done \union callers[i].left \union
              (IF i < Len(stack) THEN {stack[i + 1].name} ELSE {x})
  <2> TAKE i \in DOMAIN stack
  <2>1. CASE i < n
    BY <1>1, <1>3, <1>6, <2>1 DEF StackInv
  <2>2. CASE i = n
    BY <1>1, <1>3, <1>4, <1>5, <1>6, <2>2 DEF StackInv
  <2> QED
    BY <1>3, <2>1, <2>2
<1>9. x \in Deps(stack[Len(stack)].name) /\ Visit(x, callers)
  BY <1>2, <1>4, <1>7 DEF callers, moved
<1>10. /\ stack' \in Seq(Frame) /\ marks' \in [Name -> {"none", "visiting", "done"}]
       /\ status' \in {"ordering", "cycle"} /\ culprit' \in Name \union {NoName}
       /\ MarksInv' /\ StackInv'
       /\ Done' = Done
       /\ status' = "cycle" => Reaches(culprit, culprit)'
       /\ status' # "cycle" =>
            (x \in Done' /\ Stacked' = Stacked) \/ Stacked' = Stacked \union {x}
  BY <1>1, <1>6, <1>7, <1>8, <1>9, VisitStep
<1>11. RuleNames' = RuleNames /\ \A y \in Name : Deps(y)' = Deps(y)
  BY <1>1, GraphUnchanged
<1>12. TodoInv'
  <2>1. Todo' = Todo
    BY <1>1 DEF Todo
  <2>2. x \in Done' \/ x \in Stacked' \/ status' = "cycle"
    BY <1>10
  <2> QED
    BY <1>1, <1>10, <1>11, <2>1, <2>2 DEF TodoInv
<1>13. TypeOK'
  BY <1>1, <1>10 DEF TypeOK
<1>14. RuleNames \subseteq Name
  BY <1>1, DepsFacts DEF TypeOK
<1>15. DependencyFirst'
  BY <1>1, <1>11, <1>14 DEF DependencyFirst
<1> QED
  BY <1>1, <1>10, <1>11, <1>12, <1>13, <1>14, <1>15 DEF Inv, MissingIsUnreachable

\* The end of a visit preserves it: what the rule depends on is ordered.
LEMMA LeaveInv == Inv /\ Leave => Inv'
<1> SUFFICES ASSUME Inv, Leave PROVE Inv'
  OBVIOUS
<1>1. /\ status = "ordering" /\ stack # <<>> /\ Top.left = {}
      /\ marks' = [marks EXCEPT ![Top.name] = "done"]
      /\ order' = Append(order, Top.name) /\ stack' = Below
      /\ UNCHANGED <<rules, todo, status, culprit>>
      /\ TypeOK /\ MarksInv /\ StackInv /\ TodoInv
      /\ \A y \in RuleNames : Deps(y) \subseteq RuleNames
      /\ \A i \in DOMAIN order : order[i] \in RuleNames
      /\ DependencyFirst
  BY DEF Leave, Inv, Searching
<1> DEFINE n == Len(stack)
           x == Top.name
           m == Len(order)
<1>2. /\ stack \in Seq(Frame) /\ n \in Nat /\ n > 0 /\ DOMAIN stack = 1..n /\ Top = stack[n]
      /\ stack' \in Seq(Frame) /\ Len(stack') = n - 1 /\ DOMAIN stack' = 1..(n - 1)
      /\ \A i \in 1..(n - 1) : stack'[i] = stack[i] /\ i \in DOMAIN stack /\ i # n
      /\ n \in DOMAIN stack /\ \A i \in DOMAIN stack : i = n \/ i \in 1..(n - 1)
  <2>1. /\ stack \in Seq(Frame) /\ n \in Nat /\ n > 0 /\ DOMAIN stack = 1..n /\ Top = stack[n]
        /\ stack' \in Seq(Frame) /\ Len(stack') = n - 1 /\ DOMAIN stack' = 1..(n - 1)
        /\ \A i \in 1..(n - 1) : stack'[i] = stack[i]
    BY <1>1, TopAndBelow DEF TypeOK
  <2> HIDE DEF n
  <2>2. n \in 1..n /\ \A i \in 1..n : i = n \/ i \in 1..(n - 1)
    BY <2>1
  <2>3. \A i \in 1..(n - 1) : i \in 1..n /\ i # n
    BY <2>1
  <2> QED
    BY <2>1, <2>2, <2>3
<1>3. RuleNames \subseteq Name /\ \A y \in Name : Deps(y) \subseteq Name
  BY <1>1, DepsFacts DEF TypeOK
<1>4. /\ RuleNames' = RuleNames /\ \A y \in Name : Deps(y)' = Deps(y)
      /\ \A y, z \in Name : Reaches(y, z)' <=> Reaches(y, z)
  BY <1>1, GraphUnchanged
<1>5. x \in RuleNames /\ x \in Name /\ x = stack[n].name
  BY <1>1, <1>2, <1>3 DEF StackInv
<1> HIDE DEF n, x
<1>6. /\ order \in Seq(Name) /\ m \in Nat /\ DOMAIN order = 1..m
      /\ order' \in Seq(Name) /\ DOMAIN order' = 1..(m + 1) /\ order'[m + 1] = x
      /\ \A i \in 1..m : order'[i] = order[i] /\ i # m + 1 /\ i < m + 1
  <2>1. order' = Append(order, x) /\ order \in Seq(Name)
    BY <1>1 DEF TypeOK, x
  <2> QED
    BY <1>5, <2>1
<1>7. m + 1 \in DOMAIN order' /\ \A i \in DOMAIN order' : i = m + 1 \/ i \in 1..m
  BY <1>6
<1> HIDE DEF m
<1>8. marks \in [Name -> {"none", "visiting", "done"}] /\ marks' = [marks EXCEPT ![x] = "done"]
  BY <1>1 DEF TypeOK, x
<1>9. x \in Stacked
  BY <1>2, <1>5 DEF Stacked
<1>10. Done' = Done \union {x} /\ x \notin Done
  <2>1. marks[x] = "visiting"
    BY <1>1, <1>9 DEF MarksInv
  <2> QED
    BY <1>5, <1>8, <2>1 DEF Done
<1>11. Stacked' = Stacked \ {x}
  <2>1. ASSUME NEW y \in Stacked' PROVE y \in Stacked /\ y # x
    <3>1. PICK i \in 1..(n - 1) : y = stack'[i].name
      BY <1>2, <2>1 DEF Stacked
    <3>2. y = stack[i].name /\ i \in DOMAIN stack /\ i # n
      BY <1>2, <3>1
    <3>3. y \in Stacked
      BY <3>2 DEF Stacked
    <3>4. y # x
      BY <1>1, <1>2, <1>5, <3>2 DEF MarksInv
    <3> QED
      BY <3>3, <3>4
  <2>2. ASSUME NEW y \in Stacked, y # x PROVE y \in Stacked'
    <3>1. PICK i \in DOMAIN stack : y = stack[i].name
      BY <2>2 DEF Stacked
    <3>2. i \in 1..(n - 1)
      BY <1>2, <1>5, <2>2, <3>1
    <3> QED
      BY <1>2, <3>1, <3>2 DEF Stacked
  <2> QED
    BY <2>1, <2>2
<1>12. MarksInv'
  <2>1. Done' = {order'[i] : i \in DOMAIN order'}
    <3>1. \A i \in DOMAIN order' : order'[i] \in Done'
      BY <1>1, <1>6, <1>7, <1>10 DEF MarksInv
    <3>2. ASSUME NEW y \in Done' PROVE \E i \in DOMAIN order' : y = order'[i]
      <4>1. CASE y = x
        BY <1>6, <1>7, <4>1
      <4>2. CASE y \in Done
        <5>1. PICK i \in 1..m : y = order[i]
          BY <1>1, <1>6, <4>2 DEF MarksInv
        <5> QED
          BY <1>6, <5>1
      <4> QED
        BY <1>10, <3>2, <4>1, <4>2
    <3> QED
      BY <3>1, <3>2
  <2>2. {y \in Name : marks'[y] = "visiting"} = Stacked'
    <3>1. {y \in Name : marks'[y] = "visiting"} = {y \in Name : marks[y] = "visiting"} \ {x}
      BY <1>5, <1>8
    <3> QED
      BY <1>1, <1>11, <3>1 DEF MarksInv
  <2>3. \A i, j \in DOMAIN order' : order'[i] = order'[j] => i = j
    <3>1. \A i \in 1..m : order'[i] # x
      BY <1>1, <1>6, <1>10 DEF MarksInv
    <3> QED
      BY <1>1, <1>6, <1>7, <3>1 DEF MarksInv
  <2>4. \A i, j \in DOMAIN stack' : stack'[i].name = stack'[j].name => i = j
    BY <1>1, <1>2 DEF MarksInv
  <2> QED
    BY <2>1, <2>2, <2>3, <2>4 DEF MarksInv
<1>13. \A i \in DOMAIN stack : stack[i].name \in Name
  BY <1>1, <1>3 DEF StackInv
<1>14. StackInv'
  <2>1. \A i \in DOMAIN stack' : stack'[i].name \in RuleNames /\ stack'[i].left \subseteq Deps(stack'[i].name)
    BY <1>1, <1>2 DEF StackInv
  <2>2. \A i, j \in DOMAIN stack' : i < j => Reaches(stack'[i].name, stack'[j].name)
    BY <1>1, <1>2 DEF StackInv
  <2>3. \A i \in DOMAIN stack' :
          Deps(stack'[i].name) \subseteq
              Done' \union stack'[i].left \union
              (IF i < Len(stack') THEN {stack'[i + 1].name} ELSE {})
    <3> TAKE i \in DOMAIN stack'
    <3>1. /\ i \in DOMAIN stack /\ stack'[i] = stack[i] /\ i < n
          /\ Deps(stack[i].name) \subseteq Done \union stack[i].left \union {stack[i + 1].name}
      <4>1. i \in DOMAIN stack /\ stack'[i] = stack[i] /\ i < n /\ n = Len(stack)
        BY <1>2 DEF n
      <4> QED
        BY <1>1, <4>1 DEF StackInv
    <3>2. CASE i < n - 1
      <4>1. i + 1 \in 1..(n - 1) /\ i < Len(stack')
        BY <1>2, <3>1, <3>2
      <4> QED
        BY <1>2, <1>10, <3>1, <4>1
    <3>3. CASE i = n - 1
      <4>1. i + 1 = n /\ ~(i < Len(stack'))
        BY <1>2, <3>3
      <4> QED
        BY <1>5, <1>10, <3>1, <4>1
    <3> QED
      BY <1>2, <3>2, <3>3
  <2> QED
    BY <1>2, <1>3, <1>4, <2>1, <2>2, <2>3 DEF StackInv
<1>15. TodoInv'
  <2>1. Todo' = Todo
    BY <1>1 DEF Todo
  <2> QED
    BY <1>1, <1>4, <1>10, <1>11, <2>1 DEF TodoInv
<1>16. TypeOK'
  BY <1>1, <1>2, <1>6, <1>8 DEF TypeOK
<1>17. \A i \in DOMAIN order' : order'[i] \in RuleNames
  BY <1>1, <1>5, <1>6, <1>7
<1>18. DependencyFirst'
  <2>1. Deps(x) \subseteq Done
    <3>1. Deps(x) \subseteq Done \union stack[n].left \union {} /\ stack[n].left = {}
      <4>1. n \in DOMAIN stack /\ n = Len(stack) /\ ~(n < Len(stack)) /\ Top = stack[n]
        BY <1>2 DEF n
      <4> QED
        BY <1>1, <1>5, <4>1 DEF StackInv
    <3> QED
      BY <3>1
  <2>2. \A i \in DOMAIN order' :
          Deps(order'[i]) \subseteq {order'[j] : j \in {k \in DOMAIN order' : k < i}}
    <3> TAKE i \in DOMAIN order'
    <3>1. CASE i = m + 1
      <4> SUFFICES ASSUME NEW y \in Deps(x) PROVE \E j \in DOMAIN order' : j < m + 1 /\ y = order'[j]
        BY <1>6, <3>1
      <4>1. PICK j \in 1..m : y = order[j]
        BY <1>1, <1>6, <2>1 DEF MarksInv
      <4> QED
        BY <1>6, <4>1
    <3>2. CASE i \in 1..m
      <4> SUFFICES ASSUME NEW y \in Deps(order[i]) PROVE \E j \in DOMAIN order' : j < i /\ y = order'[j]
        BY <1>6, <3>2
      <4>1. PICK j \in 1..m : j < i /\ y = order[j]
        BY <1>1, <1>6, <3>2 DEF DependencyFirst
      <4> QED
        BY <1>6, <4>1
    <3> QED
      BY <1>7, <3>1, <3>2
  <2> QED
    BY <1>3, <1>4, <1>17, <2>2 DEF DependencyFirst
<1>19. status' = "ordering" /\ MissingIsUnreachable'
  BY <1>1 DEF MissingIsUnreachable
<1>20. \A y \in RuleNames' : Deps(y)' \subseteq RuleNames'
  BY <1>1, <1>3, <1>4
<1>21. (\A i \in DOMAIN order : order[i] \in RuleNames)'
  BY <1>4, <1>17
<1> QED
  BY <1>12, <1>14, <1>15, <1>16, <1>18, <1>19, <1>20, <1>21 DEF Inv, Searching

\* The search begins, ends or is not begun: marks, stack and order are empty
\* or stay as they are.
LEMMA OtherInv ==
    Inv /\ (RejectDuplicate \/ RejectEmpty \/ RejectMissing \/ BeginOrder \/ Finish \/ UNCHANGED vars) => Inv'
<1> SUFFICES ASSUME Inv, RejectDuplicate \/ RejectEmpty \/ RejectMissing \/ BeginOrder \/ Finish \/ UNCHANGED vars
             PROVE  Inv'
  OBVIOUS
<1>1. UNCHANGED <<rules, stack, marks, order>>
  BY DEF RejectDuplicate, RejectEmpty, RejectMissing, Reject, BeginOrder, Finish, vars
<1>2. /\ RuleNames' = RuleNames /\ \A y \in Name : Deps(y)' = Deps(y)
      /\ \A y, z \in Name : Reaches(y, z)' <=> Reaches(y, z)
  BY <1>1, GraphUnchanged
<1>3. RuleNames \subseteq Name /\ \A i \in Positions : rules[i].name \in Name
  BY DepsFacts DEF Inv, TypeOK, RuleNames
<1>4. DependencyFirst' /\ (\A i \in DOMAIN order : order[i] \in RuleNames)'
  BY <1>1, <1>2, <1>3 DEF Inv, DependencyFirst
<1>5. MarksInv => MarksInv'
  BY <1>1 DEF MarksInv, Done, Stacked
<1>6. StackInv => StackInv'
  <2>1. Done' = Done
    BY <1>1 DEF Done
  <2> QED
    BY <1>1, <1>2, <1>3, <2>1 DEF StackInv
<1>7. CASE RejectDuplicate \/ RejectEmpty \/ RejectMissing
  <2>1. /\ status = "new" /\ status' \in {"duplicate", "empty", "missing"}
        /\ culprit' \in Name \union {NoName} /\ UNCHANGED todo
    <3>1. CASE RejectDuplicate
      BY <1>3, <3>1 DEF RejectDuplicate, Reject
    <3>2. CASE RejectEmpty
      BY <3>2 DEF RejectEmpty, Reject
    <3>3. CASE RejectMissing
      <4>1. \A i \in Positions : Missing(i) \subseteq Name
        BY <1>3, DepsFacts DEF Missing, Inv, TypeOK
      <4> QED
        BY <3>3, <4>1 DEF RejectMissing, Reject
    <3> QED
      BY <1>7, <3>1, <3>2, <3>3
  <2>2. TypeOK'
    BY <1>1, <2>1 DEF Inv, TypeOK
  <2> QED
    BY <1>4, <2>1, <2>2 DEF Inv, Searching, MissingIsUnreachable
<1>8. CASE BeginOrder
  <2>1. /\ status = "new" /\ status' = "ordering" /\ DepsAreMet /\ UNCHANGED culprit
        /\ todo' = [i \in Positions |-> rules[i].name]
        /\ stack = <<>> /\ order = <<>> /\ marks = [x \in Name |-> "none"]
    BY <1>8 DEF BeginOrder, Inv
  <2>2. todo' \in Seq(Name)
    <3>1. rules \in Seq(Rule)
      BY ListsAssumption DEF Inv, TypeOK
    <3>2. Positions = 1..Len(rules) /\ Len(rules) \in Nat
      BY <3>1 DEF Positions
    <3> QED
      BY <1>3, <2>1, <3>2
  <2>3. Todo' = RuleNames
    BY <2>1 DEF Todo, RuleNames
  <2>4. TypeOK'
    BY <1>1, <2>1, <2>2 DEF Inv, TypeOK
  <2>5. TodoInv'
    BY <1>2, <2>3 DEF TodoInv
  <2>6. MarksInv
    <3>1. Done = {} /\ Stacked = {} /\ {x \in Name : marks[x] = "visiting"} = {}
      BY <2>1 DEF Done, Stacked
    <3> QED
      BY <2>1, <3>1 DEF MarksInv
  <2>7. StackInv
    BY <2>1 DEF StackInv
  <2>8. \A x \in RuleNames : Deps(x) \subseteq RuleNames
    BY <2>1 DEF DepsAreMet, Missing, RuleNames
  <2>9. \A x \in RuleNames' : Deps(x)' \subseteq RuleNames'
    BY <1>2, <1>3, <2>8
  <2> QED
    BY <1>4, <1>5, <1>6, <2>1, <2>4, <2>5, <2>6, <2>7, <2>9 DEF Inv, Searching, MissingIsUnreachable
<1>9. CASE Finish \/ UNCHANGED vars
  <2>1. /\ UNCHANGED <<todo, culprit>>
        /\ UNCHANGED status \/ (status = "ordering" /\ status' = "ok" /\ stack = <<>> /\ todo = <<>>)
    BY <1>9 DEF Finish, vars
  <2>2. TypeOK'
    BY <1>1, <2>1 DEF Inv, TypeOK
  <2>3. Searching' => Searching /\ (status' = "cycle" <=> status = "cycle")
    BY <2>1 DEF Searching
  <2>4. TodoInv /\ Searching' => TodoInv'
    <3>1. Done' = Done /\ Stacked' = Stacked /\ Todo' = Todo
      BY <1>1, <2>1 DEF Done, Stacked, Todo
    <3> QED
      BY <1>2, <2>3, <3>1 DEF TodoInv
  <2>5. Searching' => \A x \in RuleNames' : Deps(x)' \subseteq RuleNames'
    BY <1>2, <1>3, <2>3 DEF Inv
  <2>6. status' = "cycle" => Reaches(culprit, culprit)'
    <3> SUFFICES ASSUME status' = "cycle" PROVE Reaches(culprit, culprit)'
      OBVIOUS
    <3>1. UNCHANGED culprit /\ Reaches(culprit, culprit)
      BY <1>1, <2>1 DEF Inv
    <3>2. \A z : Deps(z)' = Deps(z)
      BY <1>1 DEF Deps, Register, InNamespace, Positions
    <3> QED
      BY <3>1, <3>2 DEF Reaches
  <2>7. Searching' => MarksInv' /\ StackInv' /\ TodoInv'
    BY <1>5, <1>6, <2>3, <2>4 DEF Inv
  <2> QED
    BY <1>1, <1>4, <2>1, <2>2, <2>5, <2>6, <2>7 DEF Inv, MissingIsUnreachable
<1> QED
  BY <1>7, <1>8, <1>9

\* Every state of RuleSet::new satisfies the invariant.
THEOREM Invariance == Spec => []Inv
<1>1. Inv /\ [Next]_vars => Inv'
  BY VisitRuleInv, VisitDependencyInv, LeaveInv, OtherInv DEF Next, Returned
<1> QED
  BY <1>1, InitInv, PTL DEF Spec

\* The fields of the search have their types in every state.
THEOREM TypeCorrect == Spec => []TypeOK
  BY Invariance, PTL DEF Inv

\* eval_order is dependency first at every moment of the search, for every
\* list of rules and every namespace structure.
THEOREM OrderIsDependencyFirst == Spec => []DependencyFirst
  BY Invariance, PTL DEF Inv

\* The invariant yields a complete order once nothing is left to visit.
LEMMA InvOrders == Inv => OrdersEveryRule
<1> SUFFICES ASSUME Inv, status = "ok" PROVE
      /\ RuleNames = {order[i] : i \in DOMAIN order}
      /\ \A i, j \in DOMAIN order : order[i] = order[j] => i = j
  BY DEF OrdersEveryRule
<1>1. MarksInv /\ TodoInv /\ stack = <<>> /\ todo = <<>> /\ \A i \in DOMAIN order : order[i] \in RuleNames
  BY DEF Inv, Searching
<1>2. Todo = {} /\ Stacked = {}
  BY <1>1 DEF Todo, Stacked
<1> QED
  BY <1>1, <1>2 DEF MarksInv, TodoInv

\* An order that is returned holds every rule exactly once.
THEOREM OrderIsComplete == Spec => []OrdersEveryRule
  BY InvOrders, Invariance, PTL

\* A reported cycle is a cycle of the rule set, and a rule set that is
\* ordered has none.
THEOREM CyclesAreExact == Spec => []CycleIsReal
<1>1. Inv => CycleIsReal
  <2> SUFFICES ASSUME Inv PROVE CycleIsReal
    OBVIOUS
  <2>1. status = "cycle" => Reaches(culprit, culprit)
    BY DEF Inv
  <2>2. ASSUME status = "ok", NEW x \in RuleNames, Reaches(x, x) PROVE FALSE
    <3>1. /\ RuleNames = {order[i] : i \in DOMAIN order} /\ DependencyFirst
          /\ \A i, j \in DOMAIN order : order[i] = order[j] => i = j
          /\ order \in Seq(Name) /\ RuleNames \subseteq Name
      BY <2>2, InvOrders, DepsFacts DEF OrdersEveryRule, Inv, TypeOK
    <3>2. PICK i \in DOMAIN order : x = order[i]
      BY <3>1
    <3> DEFINE S == {order[j] : j \in {k \in DOMAIN order : k < i}}
    <3>3. S \in SUBSET Name /\ Deps(x) \subseteq S
      BY <3>1, <3>2 DEF DependencyFirst
    <3>4. \A z \in S : Deps(z) \subseteq S
      <4> SUFFICES ASSUME NEW z \in S, NEW y \in Deps(z) PROVE y \in S
        OBVIOUS
      <4>1. PICK j \in DOMAIN order : j < i /\ z = order[j]
        OBVIOUS
      <4>2. PICK k \in DOMAIN order : k < j /\ y = order[k]
        BY <3>1, <4>1 DEF DependencyFirst
      <4>3. k < i
        BY <3>1, <4>1, <4>2
      <4> QED
        BY <4>2, <4>3
    <3>5. x \notin S
      BY <3>1, <3>2
    <3> QED
      BY <2>2, <3>3, <3>4, <3>5 DEF Reaches
  <2> QED
    BY <2>1, <2>2 DEF CycleIsReal
<1> QED
  BY <1>1, Invariance, PTL

\* The missing-rule branch of `visit` is never taken.
THEOREM NoMissingRuleInSearch == Spec => []MissingIsUnreachable
  BY Invariance, PTL DEF Inv
=============================================================================
