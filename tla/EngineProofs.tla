---------------------------- MODULE EngineProofs ----------------------------
(* Proofs about the match engine, for all rule bodies, features and feature *)
(* sets.                                                                    *)
(*                                                                          *)
(* The engine recurses over a body.  The recursion is a function over the   *)
(* statements of the body; that the function exists, and that its equation  *)
(* may be unfolded, is proved from the last generation of the statements    *)
(* backwards, and so is what holds of all of its values.                    *)
EXTENDS MCEngine, SequenceTheorems, FiniteSetTheorems, WellFoundedInduction, TLAPS

----------------------------------------------------------------------------
(* Induction *)

(* Induction over an interval.                                              *)
LEMMA UpTo ==
    ASSUME NEW N \in Nat, NEW K, 0 \in K, \A k \in 0 .. N - 1 : k \in K => k + 1 \in K
    PROVE  \A k \in 0 .. N : k \in K
<1> DEFINE S == {k \in 0 .. N : k \notin K}
<1> SUFFICES ASSUME S # {}
             PROVE  FALSE
  OBVIOUS
<1>1. S \subseteq Nat
  OBVIOUS
<1>2. PICK x \in S : \A y \in S : <<y, x>> \notin OpToRel(<, Nat)
  <2> HIDE DEF S
  <2> QED BY <1>1, NatLessThanWellFounded, WFMin, Zenon
<1>3. \A y \in S : ~(y < x)
  BY <1>1, <1>2, Zenon DEF OpToRel
<1>4. x # 0 /\ x - 1 \in 0 .. N - 1 /\ x - 1 \notin S
  BY <1>3
<1> QED BY <1>4

(* The generations of a body, as they are defined.                          *)
GenerationAt(body, at, depth) ==
    IF depth = 0 THEN {body} ELSE UNION {ToSet(n.kids) : n \in at[depth - 1]}

LEMMA GenerationsAre ==
    ASSUME NEW body
    PROVE  \A depth \in 0 .. MaxDepth :
                Generations(body)[depth] = GenerationAt(body, Generations(body), depth)
<1> DEFINE K == {k \in Nat : \E at : at = [depth \in 0 .. k |-> GenerationAt(body, at, depth)]}
<1>1. 0 \in K
  <2> DEFINE at == [depth \in 0 .. 0 |-> {body}]
  <2>1. at = [depth \in 0 .. 0 |-> GenerationAt(body, at, depth)]
    BY DEF GenerationAt
  <2> QED BY <2>1
<1>2. ASSUME NEW k \in Nat, k \in K
      PROVE  k + 1 \in K
  <2>1. PICK at : at = [depth \in 0 .. k |-> GenerationAt(body, at, depth)]
    BY <1>2
  <2> DEFINE next == [depth \in 0 .. k + 1 |-> GenerationAt(body, at, depth)]
  <2>2. ASSUME NEW depth \in 0 .. k + 1
        PROVE  next[depth] = GenerationAt(body, next, depth)
    <3>1. next[depth] = GenerationAt(body, at, depth)
      OBVIOUS
    <3>2. depth # 0 => next[depth - 1] = at[depth - 1]
      BY <2>1
    <3> QED BY <3>1, <3>2 DEF GenerationAt
  <2>3. next = [depth \in 0 .. k + 1 |-> GenerationAt(body, next, depth)]
    BY <2>2
  <2> HIDE DEF next
  <2> QED BY <2>3
<1>3. MaxDepth \in K
  <2> HIDE DEF K
  <2> QED BY <1>1, <1>2, UpTo, MaxDepthIsNatural
<1>4. Generations(body) =
        CHOOSE at : at = [depth \in 0 .. MaxDepth |-> GenerationAt(body, at, depth)]
  BY DEF Generations, GenerationAt
<1>5. Generations(body) = [depth \in 0 .. MaxDepth |->
        GenerationAt(body, Generations(body), depth)]
  BY <1>3, <1>4
<1> QED BY <1>5

(* The generations from the last one backwards: a child of one of the last  *)
(* k + 1 is in one of the last k.                                           *)
Late(body, k) == UNION {Generations(body)[depth] : depth \in MaxDepth + 1 - k .. MaxDepth}

LEMMA LateGenerations ==
    ASSUME NEW body, \A n \in Generations(body)[MaxDepth] : n.kids = <<>>
    PROVE  /\ Late(body, 0) = {}
           /\ Late(body, MaxDepth + 1) = Statements(body)
           /\ \A k \in 0 .. MaxDepth :
                /\ Late(body, k) \subseteq Late(body, k + 1)
                /\ \A n \in Late(body, k + 1) : ToSet(n.kids) \subseteq Late(body, k)
<1> DEFINE at == Generations(body)
<1>1. MaxDepth \in Nat
  BY MaxDepthIsNatural
<1>2. Late(body, 0) = {}
  BY <1>1 DEF Late
<1>3. Late(body, MaxDepth + 1) = Statements(body)
  BY <1>1 DEF Late, Statements
<1>4. ASSUME NEW k \in 0 .. MaxDepth
      PROVE  /\ Late(body, k) \subseteq Late(body, k + 1)
             /\ \A n \in Late(body, k + 1) : ToSet(n.kids) \subseteq Late(body, k)
  <2>1. Late(body, k) \subseteq Late(body, k + 1)
    BY <1>1 DEF Late
  <2>2. ASSUME NEW n \in Late(body, k + 1)
        PROVE  ToSet(n.kids) \subseteq Late(body, k)
    <3>1. PICK depth \in MaxDepth - k .. MaxDepth : n \in at[depth]
      BY <1>1 DEF Late
    <3>2. CASE depth = MaxDepth
      BY <3>1, <3>2 DEF ToSet
    <3>3. CASE depth # MaxDepth
      <4>1. depth \in 0 .. MaxDepth - 1 /\ depth + 1 \in MaxDepth + 1 - k .. MaxDepth
        BY <1>1, <3>1, <3>3
      <4>2. at[depth + 1] = UNION {ToSet(m.kids) : m \in at[depth]}
        <5>1. at[depth + 1] = GenerationAt(body, at, depth + 1)
          BY <4>1, GenerationsAre
        <5> QED BY <4>1, <5>1 DEF GenerationAt
      <4>3. ToSet(n.kids) \subseteq at[depth + 1]
        BY <3>1, <4>2
      <4> QED BY <4>1, <4>3 DEF Late
    <3> QED BY <3>2, <3>3
  <2> QED BY <2>1, <2>2
<1> QED BY <1>2, <1>3, <1>4

(* A body's statements are closed under children, and what passes from the  *)
(* children of a statement to the statement holds of all of them.           *)
LEMMA Closed ==
    ASSUME NEW body, IsBody(body)
    PROVE  body \in Statements(body) /\ \A n \in Statements(body) : ToSet(n.kids) \subseteq Statements(body)
<1>1. body \in Statements(body)
  <2>1. 0 \in 0 .. MaxDepth
    BY MaxDepthIsNatural
  <2>2. Generations(body)[0] = GenerationAt(body, Generations(body), 0)
    BY <2>1, GenerationsAre
  <2> QED BY <2>1, <2>2 DEF Statements, GenerationAt
<1>2. \A n \in Statements(body) : ToSet(n.kids) \subseteq Statements(body)
  <2>1. MaxDepth \in 0 .. MaxDepth
    BY MaxDepthIsNatural
  <2>2. /\ Late(body, MaxDepth) \subseteq Late(body, MaxDepth + 1)
        /\ \A n \in Late(body, MaxDepth + 1) : ToSet(n.kids) \subseteq Late(body, MaxDepth)
        /\ Late(body, MaxDepth + 1) = Statements(body)
    BY <2>1, LateGenerations DEF IsBody
  <2> QED BY <2>2
<1> QED BY <1>1, <1>2

LEMMA BodyInduction ==
    ASSUME NEW body, IsBody(body), NEW P,
           \A n \in Statements(body) : ToSet(n.kids) \subseteq P => n \in P
    PROVE  Statements(body) \subseteq P
<1> DEFINE K == {k \in Nat : Late(body, k) \subseteq P}
<1>1. MaxDepth + 1 \in Nat
  BY MaxDepthIsNatural
<1>2. 0 \in K
  BY LateGenerations DEF IsBody
<1>3. \A k \in 0 .. MaxDepth : Late(body, k + 1) \subseteq Statements(body)
  BY MaxDepthIsNatural DEF Late, Statements
<1>4. ASSUME NEW k \in 0 .. (MaxDepth + 1) - 1, k \in K
      PROVE  k + 1 \in K
  <2>0. k \in 0 .. MaxDepth
    BY MaxDepthIsNatural
  <2>1. ASSUME NEW n \in Late(body, k + 1)
        PROVE  n \in P
    BY <1>3, <1>4, <2>0, LateGenerations DEF IsBody
  <2> QED BY <1>4, <2>1
<1>5. MaxDepth + 1 \in K
  <2> HIDE DEF K
  <2> QED BY <1>1, <1>2, <1>4, UpTo
<1> QED BY <1>5, LateGenerations DEF IsBody

(* What a table gives for the children of a statement.                      *)
Under(n, value) == [i \in DOMAIN n.kids |-> value[n.kids[i]]]

LEMMA SameUnder ==
    ASSUME NEW n, NEW f, NEW g, \A kid \in ToSet(n.kids) : f[kid] = g[kid]
    PROVE  Under(n, f) = Under(n, g)
BY DEF Under, ToSet

----------------------------------------------------------------------------
(* The recursions may be unfolded *)

(* One call of each of the recursions.                                      *)
Step(pass, n, values, F) ==
    CASE pass = "boolean" -> BooleanStep(n, values, F)
      [] pass = "short" -> EvaluateStep(n, values, F, TRUE)
      [] pass = "full" -> EvaluateStep(n, values, F, FALSE)
      [] pass = "required" -> RequiredStep(n, values)
      [] pass = "cost" -> CostStep(n, values)
      [] pass = "optimize" -> OptimizeStep(n, values)

(* The values of all the statements of a body exist: those of the last      *)
(* generation, then those of the last two, and so on.                       *)
LEMMA TableExists ==
    ASSUME NEW body, IsBody(body), NEW pass, NEW F
    PROVE  \E value : value = [n \in Statements(body) |-> Step(pass, n, Under(n, value), F)]
<1> DEFINE IsTable(k, value) ==
                value = [n \in Late(body, k) |-> Step(pass, n, Under(n, value), F)]
           K == {k \in Nat : \E value : IsTable(k, value)}
<1>1. 0 \in K
  <2>1. IsTable(0, [n \in {} |-> {}])
    BY LateGenerations DEF IsBody
  <2> QED BY <2>1
<1>2. ASSUME NEW k \in 0 .. (MaxDepth + 1) - 1, k \in K
      PROVE  k + 1 \in K
  <2>1. PICK value : IsTable(k, value)
    BY <1>2
  <2> DEFINE next == [n \in Late(body, k + 1) |-> Step(pass, n, Under(n, value), F)]
  <2>2. k \in 0 .. MaxDepth
    BY MaxDepthIsNatural
  <2>3. /\ Late(body, k) \subseteq Late(body, k + 1)
        /\ \A n \in Late(body, k + 1) : ToSet(n.kids) \subseteq Late(body, k)
    BY <2>2, LateGenerations DEF IsBody
  <2>4. \A n \in Late(body, k) : next[n] = value[n]
    BY <2>1, <2>3
  <2>5. \A n \in Late(body, k + 1) : next[n] = Step(pass, n, Under(n, value), F)
    OBVIOUS
  <2>6. next = [n \in Late(body, k + 1) |-> next[n]]
    OBVIOUS
  <2> HIDE DEF next
  <2>7. \A n \in Late(body, k + 1) : next[n] = Step(pass, n, Under(n, next), F)
    <3> SUFFICES ASSUME NEW n \in Late(body, k + 1)
                 PROVE  next[n] = Step(pass, n, Under(n, next), F)
      OBVIOUS
    <3>1. Under(n, next) = Under(n, value)
      BY <2>3, <2>4, SameUnder
    <3> QED BY <2>5, <3>1
  <2>8. IsTable(k + 1, next)
    BY <2>6, <2>7
  <2> QED BY <2>8, <2>2
<1>3. MaxDepth + 1 \in K
  <2>1. MaxDepth + 1 \in Nat
    BY MaxDepthIsNatural
  <2> HIDE DEF K
  <2> QED BY <1>1, <1>2, <2>1, UpTo
<1> QED BY <1>3, LateGenerations DEF IsBody

Outcomes(body, F) ==
    CHOOSE value : value = [n \in Statements(body) |-> BooleanStep(n, Under(n, value), F)]

LEMMA OutcomesAre ==
    ASSUME NEW body, IsBody(body), NEW F
    PROVE  /\ EvaluateBoolean(body, F) = Outcomes(body, F)[body]
           /\ \A n \in Statements(body) :
                Outcomes(body, F)[n] =
                    BooleanStep(n, Under(n, Outcomes(body, F)), F)
<1>1. PICK value : value = [n \in Statements(body) |-> Step("boolean", n, Under(n, value), F)]
  BY TableExists
<1>2. \A n \in Statements(body) : value[n] = BooleanStep(n, Under(n, value), F)
  BY <1>1 DEF Step
<1>3. value = [n \in Statements(body) |-> BooleanStep(n, Under(n, value), F)]
  BY <1>1, <1>2
<1>4. Outcomes(body, F) = [n \in Statements(body) |->
        BooleanStep(n, Under(n, Outcomes(body, F)), F)]
  BY <1>3 DEF Outcomes
<1>5. EvaluateBoolean(body, F) = Outcomes(body, F)[body]
  BY DEF EvaluateBoolean, BottomUp, Outcomes, Under
<1> QED BY <1>4, <1>5

Found(body, F, short) ==
    CHOOSE value : value = [n \in Statements(body) |-> EvaluateStep(n, Under(n, value), F, short)]

LEMMA FoundAre ==
    ASSUME NEW body, IsBody(body), NEW F, NEW short \in BOOLEAN
    PROVE  /\ Evaluate(body, F, short) = Found(body, F, short)[body]
           /\ \A n \in Statements(body) :
                Found(body, F, short)[n] =
                    EvaluateStep(n, Under(n, Found(body, F, short)), F, short)
<1>1. PICK value : value = [n \in Statements(body) |-> Step(IF short THEN "short" ELSE "full", n, Under(n, value), F)]
  BY TableExists
<1>2. \A n \in Statements(body) : value[n] = EvaluateStep(n, Under(n, value), F, short)
  BY <1>1 DEF Step
<1>3. value = [n \in Statements(body) |-> EvaluateStep(n, Under(n, value), F, short)]
  BY <1>1, <1>2
<1>4. Found(body, F, short) = [n \in Statements(body) |->
        EvaluateStep(n, Under(n, Found(body, F, short)), F, short)]
  BY <1>3 DEF Found
<1>5. Evaluate(body, F, short) = Found(body, F, short)[body]
  BY DEF Evaluate, BottomUp, Found, Under
<1> QED BY <1>4, <1>5

Requirements(body) ==
    CHOOSE value : value = [n \in Statements(body) |-> RequiredStep(n, Under(n, value))]

LEMMA RequirementsAre ==
    ASSUME NEW body, IsBody(body)
    PROVE  /\ RequiredFeatures(body) = Requirements(body)[body]
           /\ \A n \in Statements(body) :
                Requirements(body)[n] =
                    RequiredStep(n, Under(n, Requirements(body)))
<1>1. PICK value : value = [n \in Statements(body) |-> Step("required", n, Under(n, value), body)]
  BY TableExists
<1>2. \A n \in Statements(body) : value[n] = RequiredStep(n, Under(n, value))
  BY <1>1 DEF Step
<1>3. value = [n \in Statements(body) |-> RequiredStep(n, Under(n, value))]
  BY <1>1, <1>2
<1>4. Requirements(body) = [n \in Statements(body) |->
        RequiredStep(n, Under(n, Requirements(body)))]
  BY <1>3 DEF Requirements
<1>5. RequiredFeatures(body) = Requirements(body)[body]
  BY DEF RequiredFeatures, BottomUp, Requirements, Under
<1> QED BY <1>4, <1>5

Costs(body) ==
    CHOOSE value : value = [n \in Statements(body) |-> CostStep(n, Under(n, value))]

LEMMA CostsAre ==
    ASSUME NEW body, IsBody(body)
    PROVE  /\ NodeCost(body) = Costs(body)[body]
           /\ \A n \in Statements(body) :
                Costs(body)[n] =
                    CostStep(n, Under(n, Costs(body)))
<1>1. PICK value : value = [n \in Statements(body) |-> Step("cost", n, Under(n, value), body)]
  BY TableExists
<1>2. \A n \in Statements(body) : value[n] = CostStep(n, Under(n, value))
  BY <1>1 DEF Step
<1>3. value = [n \in Statements(body) |-> CostStep(n, Under(n, value))]
  BY <1>1, <1>2
<1>4. Costs(body) = [n \in Statements(body) |->
        CostStep(n, Under(n, Costs(body)))]
  BY <1>3 DEF Costs
<1>5. NodeCost(body) = Costs(body)[body]
  BY DEF NodeCost, BottomUp, Costs, Under
<1> QED BY <1>4, <1>5

Reordered(body) ==
    CHOOSE value : value = [n \in Statements(body) |-> OptimizeStep(n, Under(n, value))]

LEMMA ReorderedAre ==
    ASSUME NEW body, IsBody(body)
    PROVE  /\ OptimizeNode(body) = Reordered(body)[body]
           /\ \A n \in Statements(body) :
                Reordered(body)[n] =
                    OptimizeStep(n, Under(n, Reordered(body)))
<1>1. PICK value : value = [n \in Statements(body) |-> Step("optimize", n, Under(n, value), body)]
  <2>1. \A pass : \E value : value = [n \in Statements(body) |-> Step(pass, n, Under(n, value), body)]
    BY TableExists
  <2> QED BY <2>1
<1>2. \A n \in Statements(body) : value[n] = OptimizeStep(n, Under(n, value))
  BY <1>1 DEF Step
<1>3. value = [n \in Statements(body) |-> OptimizeStep(n, Under(n, value))]
  BY <1>1, <1>2
<1>4. Reordered(body) = [n \in Statements(body) |->
        OptimizeStep(n, Under(n, Reordered(body)))]
  BY <1>3 DEF Reordered
<1>5. OptimizeNode(body) = Reordered(body)[body]
  BY DEF OptimizeNode, BottomUp, Reordered, Under
<1> QED BY <1>4, <1>5

----------------------------------------------------------------------------
(* Numbers and counting *)

(* A set of natural numbers has a least element, a bounded one a largest.   *)
LEMMA Least ==
    ASSUME NEW S, S \subseteq Nat, S # {}
    PROVE  Min(S) \in S /\ \A y \in S : Min(S) <= y
<1>1. PICK x \in S : \A y \in S : <<y, x>> \notin OpToRel(<, Nat)
  BY NatLessThanWellFounded, WFMin, Zenon
<1>2. \A y \in S : ~(y < x)
  BY <1>1, Zenon DEF OpToRel
<1>3. \A y \in S : x <= y
  BY <1>2
<1> QED BY <1>3 DEF Min

LEMMA Largest ==
    ASSUME NEW N \in Nat, NEW S, S \subseteq 0 .. N, S # {}
    PROVE  Max(S) \in S /\ \A y \in S : y <= Max(S)
<1> DEFINE T == {N - x : x \in S}
<1>1. T \subseteq Nat /\ T # {}
  <2>1. \A x \in S : x \in 0 .. N /\ N - x \in Nat
    OBVIOUS
  <2> QED BY <2>1
<1>2. PICK x \in S : \A y \in S : N - x <= N - y
  <2>1. Min(T) \in T /\ \A z \in T : Min(T) <= z
    <3> HIDE DEF T
    <3> QED BY <1>1, Least
  <2> QED BY <2>1
<1>3. \A y \in S : y <= x
  BY <1>2
<1> QED BY <1>3 DEF Max

(* Sets of indices are finite; a set with more elements is not a subset.    *)
LEMMA Indices ==
    ASSUME NEW N \in Nat
    PROVE  /\ IsFiniteSet(1 .. N) /\ Cardinality(1 .. N) = N
           /\ \A S \in SUBSET (1 .. N) :
                /\ IsFiniteSet(S) /\ Cardinality(S) \in 0 .. N
                /\ Cardinality(S) = 0 <=> S = {}
                /\ Cardinality(S) = N <=> S = 1 .. N
<1>1. IsFiniteSet(1 .. N) /\ Cardinality(1 .. N) = N
  BY FS_Interval
<1>2. ASSUME NEW S \in SUBSET (1 .. N)
      PROVE  /\ IsFiniteSet(S) /\ Cardinality(S) \in 0 .. N
             /\ Cardinality(S) = 0 <=> S = {}
             /\ Cardinality(S) = N <=> S = 1 .. N
  <2>1. IsFiniteSet(S) /\ Cardinality(S) <= N /\ (N = Cardinality(S) => 1 .. N = S)
    BY <1>1, FS_Subset
  <2>2. Cardinality(S) \in Nat
    BY <2>1, FS_CardinalityType
  <2>3. Cardinality(S) = 0 <=> S = {}
    BY <2>1, FS_EmptySet
  <2> QED BY <1>1, <2>1, <2>2, <2>3
<1> QED BY <1>1, <1>2

----------------------------------------------------------------------------
(* Statements *)

LEMMA Shape ==
    ASSUME NEW n, IsStatement(n)
    PROVE  /\ n.kids \in Seq(ToSet(n.kids))
           /\ Len(n.kids) \in Nat /\ DOMAIN n.kids = 1 .. Len(n.kids)
           /\ {"op", "kids"} \subseteq DOMAIN n
           /\ n.op \in {"and", "or", "not", "some", "range", "subscope", "leaf"}
           /\ n.op \in {"not", "subscope"} => Len(n.kids) = 1
           /\ n.op \in {"range", "leaf"} => n.kids = <<>>
           /\ n.op = "some" => n.count \in Nat /\ "count" \in DOMAIN n
           /\ n.op = "range" =>
                n.min \in Nat /\ n.max \in Nat \union {NoMax}
                    /\ {"min", "max", "feature"} \subseteq DOMAIN n
           /\ n.op = "leaf" => n.feature.kind # "com" /\ "feature" \in DOMAIN n
<1> DEFINE Kids == Seq(ToSet(n.kids))
<1>0. <<>> \in Kids
  OBVIOUS
<1>1. n.kids \in Kids
  BY <1>0 DEF IsStatement
<1>2. Len(n.kids) \in Nat /\ DOMAIN n.kids = 1 .. Len(n.kids)
  BY <1>1, LenProperties
<1> HIDE DEF Kids
<1>3. CASE n \in [op : {"and", "or"}, kids : Kids]
  BY <1>1, <1>2, <1>3 DEF Kids
<1>4. CASE n \in [op : {"some"}, count : Nat, kids : Kids]
  BY <1>1, <1>2, <1>4 DEF Kids
<1>5. CASE n \in [op : {"not"}, kids : Kids] /\ Len(n.kids) = 1
  BY <1>1, <1>2, <1>5 DEF Kids
<1>6. CASE n \in [op : {"subscope"}, scope : STRING, kids : Kids] /\ Len(n.kids) = 1
  BY <1>1, <1>2, <1>6 DEF Kids
<1>7. CASE n \in [op : {"range"}, feature : Feature, min : Nat, max : Nat \union {NoMax},
                 kids : {<<>>}]
  BY <1>1, <1>2, <1>7 DEF Kids
<1>8. CASE n \in [op : {"leaf"}, feature : Feature, kids : {<<>>}] /\ n.feature.kind # "com"
  BY <1>1, <1>2, <1>8 DEF Kids
<1> QED BY <1>3, <1>4, <1>5, <1>6, <1>7, <1>8 DEF IsStatement, Kids

LEMMA FeatureOf ==
    ASSUME NEW n, IsStatement(n), n.op \in {"leaf", "range"}
    PROVE  n.feature \in Feature
<1> DEFINE Kids == Seq(ToSet(n.kids))
<1> HIDE DEF Kids
<1>1. CASE n \in [op : {"and", "or"}, kids : Kids]
  BY <1>1
<1>2. CASE n \in [op : {"some"}, count : Nat, kids : Kids]
  BY <1>2
<1>3. CASE n \in [op : {"not"}, kids : Kids]
  BY <1>3
<1>4. CASE n \in [op : {"subscope"}, scope : STRING, kids : Kids]
  BY <1>4
<1>5. CASE n \in [op : {"range"}, feature : Feature, min : Nat, max : Nat \union {NoMax},
                 kids : {<<>>}]
  BY <1>5
<1>6. CASE n \in [op : {"leaf"}, feature : Feature, kids : {<<>>}]
  BY <1>6
<1> QED BY <1>1, <1>2, <1>3, <1>4, <1>5, <1>6 DEF IsStatement, Kids

----------------------------------------------------------------------------
(* What one call computes when no child fails *)

(* The verdict on a statement, when `yes` are the children that match.      *)
Holds(n, yes, F) ==
    CASE n.op = "and" -> yes = DOMAIN n.kids
      [] n.op = "or" -> yes # {}
      [] n.op = "not" -> yes = {}
      [] n.op = "some" -> n.kids # <<>> /\ Cardinality(yes) >= n.count
      [] n.op = "range" -> InRange(Cardinality(Locations(F, n.feature)), n)
      [] n.op = "leaf" -> Hits(n.feature, F) # {}

(* A loop for `some` ends with "yes" when it has a child to look at and     *)
(* enough of all children match.                                            *)
LEMMA SomeHolds ==
    ASSUME NEW N \in Nat, NEW outs, DOMAIN outs = 1 .. N, \A i \in 1 .. N : outs[i] \in {Yes, No},
           NEW count \in Nat
    PROVE  SomeLoop(outs, count) =
                BoolOutcome(N # 0 /\ Cardinality({i \in 1 .. N : outs[i] = Yes}) >= count)
<1> DEFINE enough == {i \in DOMAIN outs : YesUpTo(outs, i) >= count}
           failed == {i \in DOMAIN outs : outs[i] = Error}
           verdicts == [i \in DOMAIN outs |-> IF i \in failed THEN Error ELSE Yes]
<1>0. enough \in SUBSET Nat
  OBVIOUS
<1>1. failed = {}
  BY DEF Error, Yes, No
<1>2. SomeLoop(outs, count) = FirstOf(verdicts, enough, No)
  BY <1>1 DEF SomeLoop
<1>3. \A i \in enough : verdicts[i] = Yes
  BY <1>1
<1>4. SomeLoop(outs, count) = BoolOutcome(enough # {})
  <2> HIDE DEF enough, failed, verdicts
  <2>1. CASE enough = {}
    BY <1>1, <1>2, <2>1 DEF BoolOutcome, FirstOf
  <2>2. CASE enough # {}
    <3>1. Min(enough) \in enough
      BY <1>0, <2>2, Least
    <3> QED BY <1>2, <1>3, <2>2, <3>1 DEF BoolOutcome, FirstOf
  <2> QED BY <2>1, <2>2
<1>5. YesUpTo(outs, N) = Cardinality({i \in 1 .. N : outs[i] = Yes})
  BY DEF YesUpTo
<1>6. ASSUME NEW i \in 1 .. N
      PROVE  /\ YesUpTo(outs, i) \in Nat /\ YesUpTo(outs, N) \in Nat
             /\ YesUpTo(outs, i) <= YesUpTo(outs, N)
  <2> DEFINE some == {j \in 1 .. i : outs[j] = Yes}
             all == {j \in 1 .. N : outs[j] = Yes}
  <2>1. some \subseteq all /\ all \in SUBSET (1 .. N)
    OBVIOUS
  <2>2. IsFiniteSet(all) /\ Cardinality(all) \in Nat
    BY <2>1, Indices
  <2>3. IsFiniteSet(some) /\ Cardinality(some) <= Cardinality(all)
    BY <2>1, <2>2, FS_Subset
  <2>4. Cardinality(some) \in Nat
    BY <2>3, FS_CardinalityType
  <2> QED BY <2>2, <2>3, <2>4 DEF YesUpTo
<1>7. enough # {} <=> N # 0 /\ YesUpTo(outs, N) >= count
  <2>1. ASSUME NEW i \in enough
        PROVE  N # 0 /\ YesUpTo(outs, N) >= count
    BY <1>6
  <2>2. ASSUME N # 0, YesUpTo(outs, N) >= count
        PROVE  N \in enough
    BY <2>2
  <2> QED BY <2>1, <2>2
<1> QED BY <1>4, <1>5, <1>7

LEMMA StepHolds ==
    ASSUME NEW n, IsStatement(n), n.op # "subscope", NEW F,
           NEW outs, DOMAIN outs = DOMAIN n.kids, \A i \in DOMAIN outs : outs[i] \in {Yes, No}
    PROVE  BooleanStep(n, outs, F) = BoolOutcome(Holds(n, {i \in DOMAIN outs : outs[i] = Yes}, F))
<1> DEFINE N == Len(n.kids)
           yes == {i \in DOMAIN outs : outs[i] = Yes}
<1>1. N \in Nat /\ DOMAIN outs = 1 .. N /\ DOMAIN n.kids = 1 .. N
  BY Shape
<1>2. CASE n.op = "and"
  <2> DEFINE stop == {i \in DOMAIN outs : outs[i] # Yes}
  <2>1. stop \subseteq Nat /\ \A i \in stop : outs[i] = No
    BY <1>1
  <2>2. BooleanStep(n, outs, F) = FirstOf(outs, stop, Yes)
    BY <1>2 DEF BooleanStep
  <2>3. stop = {} <=> yes = DOMAIN n.kids
    BY <1>1
  <2>4. FirstOf(outs, stop, Yes) = BoolOutcome(stop = {})
    <3> HIDE DEF stop, N
    <3>1. CASE stop = {}
      BY <1>1, <2>1, <3>1 DEF BoolOutcome, FirstOf
    <3>2. CASE stop # {}
      <4>1. Min(stop) \in stop
        BY <2>1, <3>2, Least
      <4> QED BY <2>1, <3>2, <4>1 DEF BoolOutcome, FirstOf
    <3> QED BY <3>1, <3>2
  <2> QED BY <1>2, <2>2, <2>3, <2>4 DEF Holds
<1>3. CASE n.op = "or"
  <2> DEFINE stop == {i \in DOMAIN outs : outs[i] # No}
  <2>1. stop \subseteq Nat /\ \A i \in stop : outs[i] = Yes
    BY <1>1
  <2>2. BooleanStep(n, outs, F) = FirstOf(outs, stop, No)
    BY <1>3 DEF BooleanStep
  <2>3. stop = {} <=> yes = {}
    BY <1>1 DEF Yes, No
  <2>4. FirstOf(outs, stop, No) = BoolOutcome(stop # {})
    <3> HIDE DEF stop, N
    <3>1. CASE stop = {}
      BY <1>1, <2>1, <3>1 DEF BoolOutcome, FirstOf
    <3>2. CASE stop # {}
      <4>1. Min(stop) \in stop
        BY <2>1, <3>2, Least
      <4> QED BY <2>1, <3>2, <4>1 DEF BoolOutcome, FirstOf
    <3> QED BY <3>1, <3>2
  <2> QED BY <1>3, <2>2, <2>3, <2>4 DEF Holds
<1>4. CASE n.op = "not"
  <2>0. N = 1
    BY <1>4, Shape
  <2>1. DOMAIN outs = {1}
    BY <1>1, <2>0
  <2>2. BooleanStep(n, outs, F) = IF outs[1] = Yes THEN No ELSE Yes
    BY <1>4, <2>1 DEF BooleanStep, Yes, No
  <2>3. outs[1] = Yes <=> yes # {}
    BY <2>1
  <2> QED BY <1>4, <2>2, <2>3 DEF Holds, BoolOutcome
<1>5. CASE n.op = "some"
  <2>1. n.count \in Nat
    BY <1>5, Shape
  <2>2. BooleanStep(n, outs, F) = SomeLoop(outs, n.count)
    BY <1>5 DEF BooleanStep
  <2>3. n.kids # <<>> <=> N # 0
    BY Shape
  <2> QED BY <1>1, <1>5, <2>1, <2>2, <2>3, SomeHolds DEF Holds
<1>6. CASE n.op = "range"
  BY <1>6 DEF BooleanStep, Holds
<1>7. CASE n.op = "leaf"
  <2>1. n.feature.kind # "com"
    BY <1>7, Shape
  <2> QED BY <1>7, <2>1 DEF BooleanStep, Holds
<1> QED BY <1>2, <1>3, <1>4, <1>5, <1>6, <1>7, Shape

(* No statement of a body fails, but for a subscope, which is its root.     *)
Matching(n, value) == {i \in DOMAIN n.kids : value[n.kids[i]] = Yes}

LEMMA Verdicts ==
    ASSUME NEW body, IsBody(body), NEW F, NEW n \in Statements(body), n.op # "subscope"
    PROVE  /\ Outcomes(body, F)[n] \in {Yes, No}
           /\ Outcomes(body, F)[n] = BoolOutcome(Holds(n, Matching(n, Outcomes(body, F)), F))
<1> DEFINE value == Outcomes(body, F)
           P == {m \in Statements(body) : m.op # "subscope" => value[m] \in {Yes, No}}
<1>1. ASSUME NEW m \in Statements(body), ToSet(m.kids) \subseteq P, m.op # "subscope"
      PROVE  /\ value[m] \in {Yes, No}
             /\ value[m] = BoolOutcome(Holds(m, Matching(m, value), F))
  <2> DEFINE outs == Under(m, value)
  <2>1. IsStatement(m) /\ \A kid \in ToSet(m.kids) : kid.op # "subscope"
    BY DEF IsBody
  <2>2. DOMAIN outs = DOMAIN m.kids
    BY DEF Under
  <2>3. \A i \in DOMAIN outs : outs[i] = value[m.kids[i]] /\ outs[i] \in {Yes, No}
    <3> SUFFICES ASSUME NEW i \in DOMAIN m.kids
                 PROVE  outs[i] = value[m.kids[i]] /\ outs[i] \in {Yes, No}
      BY <2>2
    <3>1. m.kids[i] \in ToSet(m.kids)
      BY DEF ToSet
    <3> QED BY <1>1, <2>1, <3>1 DEF Under
  <2>4. value[m] = BooleanStep(m, outs, F)
    BY OutcomesAre
  <2>5. {i \in DOMAIN outs : outs[i] = Yes} = Matching(m, value)
    BY <2>2, <2>3 DEF Matching
  <2> HIDE DEF outs, value
  <2>6. value[m] = BoolOutcome(Holds(m, {i \in DOMAIN outs : outs[i] = Yes}, F))
    BY <1>1, <2>1, <2>2, <2>3, <2>4, StepHolds
  <2> QED BY <2>5, <2>6 DEF BoolOutcome
<1>2. Statements(body) \subseteq P
  <2>1. \A m \in Statements(body) : ToSet(m.kids) \subseteq P => m \in P
    BY <1>1
  <2> HIDE DEF P
  <2> QED BY <2>1, BodyInduction
<1>3. ToSet(n.kids) \subseteq P
  BY <1>2, Closed
<1> QED BY <1>1, <1>3

----------------------------------------------------------------------------
(* Which rules match does not depend on the order of the feature set *)

(* Every entry of a feature set is a record with a feature.                 *)
Entry == [feature : Feature, locs : SUBSET Addr]
IsFeatureSet(F) == F \in Seq(Entry)

LEMMA ReversedHasAll ==
    ASSUME NEW S, NEW s \in Seq(S)
    PROVE  {s[i] : i \in DOMAIN s} = {Reversed(s)[i] : i \in DOMAIN Reversed(s)}
<1>1. Len(s) \in Nat /\ DOMAIN s = 1 .. Len(s) /\ DOMAIN Reversed(s) = 1 .. Len(s)
  BY LenProperties DEF Reversed
<1>2. \A i \in 1 .. Len(s) : Len(s) + 1 - i \in 1 .. Len(s)
  BY <1>1
<1>3. \A i \in 1 .. Len(s) : Reversed(s)[i] = s[Len(s) + 1 - i]
  BY <1>1 DEF Reversed
<1>4. \A i \in 1 .. Len(s) : Reversed(s)[Len(s) + 1 - i] = s[i]
  <2> SUFFICES ASSUME NEW i \in 1 .. Len(s)
               PROVE  Reversed(s)[Len(s) + 1 - i] = s[i]
    OBVIOUS
  <2>1. Len(s) + 1 - (Len(s) + 1 - i) = i
    BY <1>1
  <2> QED BY <1>2, <1>3, <2>1
<1> HIDE DEF Reversed
<1> QED BY <1>1, <1>2, <1>3, <1>4

(* A call looks at the entries as a set.                                    *)
LEMMA SameEntries ==
    ASSUME NEW F, NEW G, {F[i] : i \in DOMAIN F} = {G[i] : i \in DOMAIN G},
           NEW n, NEW outs
    PROVE  BooleanStep(n, outs, F) = BooleanStep(n, outs, G)
<1>1. ASSUME NEW f
      PROVE  Locations(F, f) = Locations(G, f)
  <2>1. Locations(F, f) = UNION {e.locs : e \in {d \in {F[i] : i \in DOMAIN F} : d.feature = f}}
    BY DEF Locations
  <2>2. Locations(G, f) = UNION {e.locs : e \in {d \in {G[i] : i \in DOMAIN G} : d.feature = f}}
    BY DEF Locations
  <2> QED BY <2>1, <2>2
<1>2. ASSUME NEW q
      PROVE  Hits(q, F) # {} <=> Hits(q, G) # {}
  <2>1. Hits(q, F) # {} <=> \E e \in {F[i] : i \in DOMAIN F} : LeafAccepts(q, e.feature)
    BY DEF Hits
  <2>2. Hits(q, G) # {} <=> \E e \in {G[i] : i \in DOMAIN G} : LeafAccepts(q, e.feature)
    BY DEF Hits
  <2> QED BY <2>1, <2>2
<1>3. BoolOutcome(Hits(n.feature, F) # {}) = BoolOutcome(Hits(n.feature, G) # {})
  BY <1>2 DEF BoolOutcome
<1> QED BY <1>1, <1>3 DEF BooleanStep

LEMMA OrderDoesNotMatter ==
    ASSUME NEW body, IsBody(body), NEW S, NEW F \in Seq(S)
    PROVE  EvaluateBoolean(body, Reversed(F)) = EvaluateBoolean(body, F)
<1> DEFINE G == Reversed(F)
           value == Outcomes(body, F)
           other == Outcomes(body, G)
           P == {n \in Statements(body) : other[n] = value[n]}
<1>1. ASSUME NEW n \in Statements(body), ToSet(n.kids) \subseteq P
      PROVE  n \in P
  <2>1. Under(n, other) = Under(n, value)
    <3>1. \A kid \in ToSet(n.kids) : other[kid] = value[kid]
      BY <1>1
    <3> HIDE DEF value, other
    <3> QED BY <3>1, SameUnder
  <2>2. other[n] = BooleanStep(n, Under(n, other), G) /\ value[n] = BooleanStep(n, Under(n, value), F)
    BY OutcomesAre
  <2>3. BooleanStep(n, Under(n, value), G) = BooleanStep(n, Under(n, value), F)
    <3>1. {F[i] : i \in DOMAIN F} = {G[i] : i \in DOMAIN G}
      BY ReversedHasAll
    <3> HIDE DEF value, G
    <3> QED BY <3>1, SameEntries
  <2> QED BY <2>1, <2>2, <2>3
<1>2. Statements(body) \subseteq P
  <2> HIDE DEF P
  <2> QED BY <1>1, BodyInduction
<1> QED BY <1>2, Closed, OutcomesAre

----------------------------------------------------------------------------
(* Sorting *)

(* In a finite set with a strict total order, a rank for each element and   *)
(* an element for each rank: by counting.                                   *)
Below(S, R, a) == {b \in S : <<b, a>> \in R}

IsOrder(S, R) ==
    /\ \A a \in S : <<a, a>> \notin R
    /\ \A a, b \in S : a # b => <<a, b>> \in R \/ <<b, a>> \in R
    /\ \A a, b, c \in S : <<a, b>> \in R /\ <<b, c>> \in R => <<a, c>> \in R

IsRanked(S, R) ==
    /\ \A a \in S : Cardinality(Below(S, R, a)) \in 0 .. Cardinality(S) - 1
    /\ \A a, b \in S : Cardinality(Below(S, R, a)) = Cardinality(Below(S, R, b)) => a = b
    /\ \A k \in 1 .. Cardinality(S) : \E a \in S : Cardinality(Below(S, R, a)) = k - 1

LEMMA Ranks ==
    ASSUME NEW S, NEW R, IsFiniteSet(S), IsOrder(S, R)
    PROVE  IsRanked(S, R)
<1> DEFINE n == Cardinality(S)
           rank(a) == Cardinality(Below(S, R, a))
<1>0. n \in Nat
  BY FS_CardinalityType
<1>1. ASSUME NEW a \in S
      PROVE  IsFiniteSet(Below(S, R, a)) /\ rank(a) \in 0 .. n - 1
  <2>1. Below(S, R, a) \in SUBSET S /\ a \notin Below(S, R, a)
    BY DEF Below, IsOrder
  <2>2. IsFiniteSet(Below(S, R, a)) /\ rank(a) <= n /\ (n = rank(a) => S = Below(S, R, a))
    BY <2>1, FS_Subset
  <2>3. rank(a) \in Nat
    BY <2>2, FS_CardinalityType
  <2> QED BY <1>0, <2>1, <2>2, <2>3
<1>2. ASSUME NEW a \in S, NEW b \in S, <<a, b>> \in R
      PROVE  rank(a) # rank(b)
  <2>1. Below(S, R, a) \in SUBSET Below(S, R, b) /\ a \in Below(S, R, b) /\ a \notin Below(S, R, a)
    BY <1>2 DEF Below, IsOrder
  <2> QED BY <1>1, <2>1, FS_Subset
<1>3. \A a, b \in S : rank(a) = rank(b) => a = b
  BY <1>2 DEF IsOrder
<1>4. \A k \in 1 .. n : \E a \in S : rank(a) = k - 1
  <2> SUFFICES ASSUME NEW k \in 1 .. n, \A a \in S : rank(a) # k - 1
               PROVE  FALSE
    OBVIOUS
  <2> DEFINE place == [a \in S |-> rank(a) + 1]
             others == (1 .. n) \ {k}
  <2>1. IsFiniteSet(1 .. n) /\ Cardinality(1 .. n) = n
    BY <1>0, FS_Interval
  <2>2. IsFiniteSet(others) /\ Cardinality(others) < n
    <3>1. Cardinality((1 .. n) \ {k}) = n - 1 /\ IsFiniteSet((1 .. n) \ {k})
      BY <2>1, FS_RemoveElement
    <3> QED BY <1>0, <3>1
  <2>3. place \in [S -> others]
    BY <1>0, <1>1
  <2>4. \E a, b \in S : a # b /\ place[a] = place[b]
    <3> HIDE DEF place, others
    <3> QED BY <2>2, <2>3, FS_PigeonHole
  <2>5. PICK a \in S, b \in S : a # b /\ rank(a) + 1 = rank(b) + 1
    BY <2>4
  <2> QED BY <1>1, <1>3, <2>5
<1> QED BY <1>1, <1>3, <1>4 DEF IsRanked

(* Indices in ascending order.                                              *)
LEMMA IndicesInOrder ==
    ASSUME NEW N \in Nat, NEW S \in SUBSET (1 .. N)
    PROVE  /\ Cardinality(S) \in Nat
           /\ InOrder(S, LAMBDA i, j : i < j) \in [1 .. Cardinality(S) -> S]
<1> DEFINE R == {p \in S \X S : p[1] < p[2]}
<1>1. IsFiniteSet(S) /\ Cardinality(S) \in Nat
  BY Indices
<1>2. \A a \in S : Below(S, R, a) = {b \in S : b < a}
  BY DEF Below
<1>3. \A k \in 1 .. Cardinality(S) : \E a \in S : Cardinality(Below(S, R, a)) = k - 1
  <2>1. IsOrder(S, R)
    BY DEF IsOrder
  <2> HIDE DEF R
  <2>2. IsRanked(S, R)
    BY <1>1, <2>1, Ranks
  <2> QED BY <2>2 DEF IsRanked
<1>4. \A k \in 1 .. Cardinality(S) :
        (CHOOSE a \in S : Cardinality({b \in S : b < a}) = k - 1) \in S
  BY <1>2, <1>3
<1> QED BY <1>1, <1>4 DEF InOrder

----------------------------------------------------------------------------
(* The state: a body of the rule set, and a feature set.                    *)
TypeOK == tree \in Trees /\ IsFeatureSet(fs)

LEMMA SequenceOf ==
    ASSUME NEW S, NEW N \in Nat, NEW s \in [1 .. N -> S]
    PROVE  s \in Seq(S) /\ Len(s) = N
OBVIOUS

LEMMA EntriesOf ==
    ASSUME NEW F, IsFeatureSet(F)
    PROVE  Len(F) \in Nat /\ DOMAIN F = 1 .. Len(F) /\ \A i \in DOMAIN F : F[i] \in Entry
<1>1. Len(F) \in Nat /\ DOMAIN F = 1 .. Len(F)
  BY LenProperties DEF IsFeatureSet
<1>2. \A i \in 1 .. Len(F) : F[i] \in Entry
  BY ElementOfSeq DEF IsFeatureSet
<1> QED BY <1>1, <1>2

LEMMA EntriesStay ==
    ASSUME NEW F, IsFeatureSet(F), NEW G, DOMAIN G = DOMAIN F, G = [i \in DOMAIN F |-> G[i]],
           \A i \in DOMAIN F : G[i] \in Entry
    PROVE  IsFeatureSet(G)
<1>1. Len(F) \in Nat /\ DOMAIN F = 1 .. Len(F)
  BY EntriesOf
<1>2. G \in [1 .. Len(F) -> Entry]
  BY <1>1
<1> QED BY <1>1, <1>2, SequenceOf DEF IsFeatureSet

LEMMA InsertKeepsType ==
    ASSUME NEW F, IsFeatureSet(F), NEW f \in Feature, NEW locs \in SUBSET Addr
    PROVE  IsFeatureSet(InsertMany(F, f, locs))
<1>1. \A i \in DOMAIN F : F[i] \in Entry
  BY EntriesOf
<1>2. CASE f \in Keys(F)
  <2> DEFINE G == [i \in DOMAIN F |-> IF F[i].feature = f
                                      THEN [F[i] EXCEPT !.locs = @ \union locs] ELSE F[i]]
  <2>1. \A i \in DOMAIN F : G[i] \in Entry
    BY <1>1 DEF Entry
  <2>2. DOMAIN G = DOMAIN F /\ G = [i \in DOMAIN F |-> G[i]]
    OBVIOUS
  <2>3. InsertMany(F, f, locs) = G
    BY <1>2 DEF InsertMany
  <2> HIDE DEF G
  <2> QED BY <2>1, <2>2, <2>3, EntriesStay
<1>3. CASE f \notin Keys(F)
  <2>1. [feature |-> f, locs |-> locs] \in Entry
    BY DEF Entry
  <2>2. InsertMany(F, f, locs) = Append(F, [feature |-> f, locs |-> locs])
    BY <1>3 DEF InsertMany
  <2> QED BY <2>1, <2>2, AppendProperties DEF IsFeatureSet
<1> QED BY <1>2, <1>3

LEMMA MergeKeepsType ==
    ASSUME NEW F, IsFeatureSet(F), NEW other, IsFeatureSet(other)
    PROVE  IsFeatureSet(MergeSets(F, other))
<1> DEFINE new == {i \in DOMAIN other : other[i].feature \notin Keys(F)}
           order == InOrder(new, LAMBDA i, j : i < j)
           old == [i \in DOMAIN F |->
                    [F[i] EXCEPT !.locs = @ \union Locations(other, F[i].feature)]]
           added == [k \in DOMAIN order |-> other[order[k]]]
<1>1. MergeSets(F, other) = old \o added
  BY DEF MergeSets, Each
<1>2. Len(other) \in Nat /\ DOMAIN other = 1 .. Len(other) /\ \A i \in DOMAIN other : other[i] \in Entry
  BY EntriesOf
<1>3. \A f : Locations(other, f) \subseteq Addr
  BY <1>2 DEF Locations, Entry
<1>4. IsFeatureSet(old)
  <2>1. \A i \in DOMAIN F : old[i] \in Entry
    BY <1>3, EntriesOf DEF Entry
  <2>2. DOMAIN old = DOMAIN F /\ old = [i \in DOMAIN F |-> old[i]]
    OBVIOUS
  <2> HIDE DEF old
  <2> QED BY <2>1, <2>2, EntriesStay
<1>5. IsFeatureSet(added)
  <2>1. new \in SUBSET (1 .. Len(other))
    BY <1>2
  <2>2. Cardinality(new) \in Nat /\ order \in [1 .. Cardinality(new) -> new]
    <3> HIDE DEF new
    <3> QED BY <1>2, <2>1, IndicesInOrder
  <2>3. added \in [1 .. Cardinality(new) -> Entry]
    <3> HIDE DEF order
    <3> QED BY <1>2, <2>1, <2>2
  <2> HIDE DEF added, new
  <2> QED BY <2>2, <2>3, SequenceOf DEF IsFeatureSet
<1> HIDE DEF old, added
<1>6. old \o added \in Seq(Entry)
  BY <1>4, <1>5, ConcatProperties DEF IsFeatureSet
<1> QED BY <1>1, <1>6 DEF IsFeatureSet

(* The states of Spec are bodies and feature sets.                          *)
THEOREM TypeCorrect == Spec => []TypeOK
<1>1. Init => TypeOK
  <2>1. <<>> \in Seq(Entry)
    BY EmptySeq
  <2> QED BY <2>1 DEF Init, TypeOK, IsFeatureSet
<1>2. TypeOK /\ [Next]_vars => TypeOK'
  <2> SUFFICES ASSUME TypeOK, [Next]_vars
               PROVE  TypeOK'
    OBVIOUS
  <2>1. ASSUME NEW f \in Feature, NEW a \in Addr, Insert(f, a)
        PROVE  TypeOK'
    BY <2>1, InsertKeepsType DEF TypeOK, Insert
  <2>2. ASSUME NEW other \in ChildSets, Merge(other)
        PROVE  TypeOK'
    <3>1. PICK f \in Feature, g \in Feature :
            other = <<[feature |-> f, locs |-> Addr], [feature |-> g, locs |-> Addr]>>
      BY DEF ChildSets
    <3>2. [feature |-> f, locs |-> Addr] \in Entry /\ [feature |-> g, locs |-> Addr] \in Entry
      BY DEF Entry
    <3>3. \A a, b \in Entry : <<a, b>> \in Seq(Entry)
      OBVIOUS
    <3>4. IsFeatureSet(other)
      BY <3>1, <3>2, <3>3 DEF IsFeatureSet
    <3> QED BY <2>2, <3>4, MergeKeepsType DEF TypeOK, Merge
  <2>3. CASE UNCHANGED vars
    BY <2>3 DEF TypeOK, vars
  <2> QED BY <2>1, <2>2, <2>3 DEF Next
<1> QED BY <1>1, <1>2, PTL DEF Spec

(* Which rules match does not depend on the insertion order of the feature  *)
(* set: evaluate_boolean asks whether an entry is there, and the order only *)
(* decides at which of the hits a scan stops.                               *)
THEOREM InsertionOrderIsIrrelevant == Spec => []OutcomeIgnoresInsertionOrder
<1>1. TypeOK => OutcomeIgnoresInsertionOrder
  <2> SUFFICES ASSUME TypeOK
               PROVE  OutcomeIgnoresInsertionOrder
    OBVIOUS
  <2>1. IsBody(tree) /\ fs \in Seq(Entry)
    BY TreesAreBodies DEF TypeOK, IsFeatureSet
  <2> QED BY <2>1, OrderDoesNotMatter DEF OutcomeIgnoresInsertionOrder
<1> QED BY <1>1, TypeCorrect, PTL

----------------------------------------------------------------------------
(* The index finds every rule that can match *)

(* The requirement of a statement is typed: an anchor has a finite set of   *)
(* alternatives and a score.                                                *)
IsRequirement(r) ==
    r \in [indexable : BOOLEAN, score : Nat, alts : {A \in SUBSET Feature : IsFiniteSet(A)}]

(* The anchor of a conjunction is one of its children's requirements.       *)
LEMMA AnchorIsOne ==
    ASSUME NEW N \in Nat, NEW reqs, DOMAIN reqs = 1 .. N, \A i \in 1 .. N : IsRequirement(reqs[i])
    PROVE  \/ Anchor(reqs) = NotIndexable
           \/ \E i \in 1 .. N : Anchor(reqs) = reqs[i] /\ reqs[i].indexable
<1> DEFINE some == {i \in DOMAIN reqs : reqs[i].indexable}
           best == {i \in some : \A j \in some : BetterOrEqual(reqs[i], reqs[j])}
           upTo(k) == {i \in some : i <= k}
           K == {k \in Nat : upTo(k) # {} =>
                    \E i \in upTo(k) : \A j \in upTo(k) : BetterOrEqual(reqs[i], reqs[j])}
<1>1. \A i \in 1 .. N : reqs[i].score \in Nat /\ Cardinality(reqs[i].alts) \in Nat
  BY FS_CardinalityType DEF IsRequirement
<1>2. \A i, j, k \in 1 .. N :
        /\ BetterOrEqual(reqs[i], reqs[i])
        /\ BetterOrEqual(reqs[i], reqs[j]) \/ BetterOrEqual(reqs[j], reqs[i])
        /\ BetterOrEqual(reqs[i], reqs[j]) /\ BetterOrEqual(reqs[j], reqs[k])
            => BetterOrEqual(reqs[i], reqs[k])
  BY <1>1 DEF BetterOrEqual
<1>3. 0 \in K
  OBVIOUS
<1>4. ASSUME NEW k \in 0 .. N - 1, k \in K
      PROVE  k + 1 \in K
  <2>1. CASE k + 1 \notin some
    <3>1. upTo(k + 1) = upTo(k)
      BY <2>1
    <3> QED BY <1>4, <3>1
  <2>2. CASE k + 1 \in some
    <3>1. upTo(k + 1) = upTo(k) \union {k + 1}
      BY <2>2
    <3>2. CASE upTo(k) = {}
      BY <1>2, <2>2, <3>1, <3>2
    <3>3. CASE upTo(k) # {}
      <4>1. PICK i \in upTo(k) : \A j \in upTo(k) : BetterOrEqual(reqs[i], reqs[j])
        BY <1>4, <3>3
      <4>2. i \in 1 .. N /\ k + 1 \in 1 .. N /\ \A j \in upTo(k) : j \in 1 .. N
        BY <2>2
      <4>3. CASE BetterOrEqual(reqs[i], reqs[k + 1])
        <5>1. \A j \in upTo(k + 1) : BetterOrEqual(reqs[i], reqs[j])
          BY <3>1, <4>1, <4>3
        <5> QED BY <3>1, <5>1
      <4>4. CASE BetterOrEqual(reqs[k + 1], reqs[i])
        <5>1. \A j \in upTo(k + 1) : BetterOrEqual(reqs[k + 1], reqs[j])
          BY <1>2, <3>1, <4>1, <4>2, <4>4
        <5> QED BY <3>1, <5>1
      <4> QED BY <1>2, <4>2, <4>3, <4>4
    <3> QED BY <3>2, <3>3
  <2> QED BY <2>1, <2>2
<1>5. N \in K
  <2>1. \A k \in 0 .. N - 1 : k \in K => k + 1 \in K
    BY <1>4
  <2> HIDE DEF K
  <2>2. \A k \in 0 .. N : k \in K
    BY <1>3, <2>1, UpTo, Zenon
  <2> QED BY <2>2
<1>6. upTo(N) = some
  OBVIOUS
<1>7. CASE some = {}
  BY <1>7 DEF Anchor
<1>8. CASE some # {}
  <2>1. best # {}
    BY <1>5, <1>6, <1>8
  <2>2. best \subseteq 0 .. N
    OBVIOUS
  <2>3. Max(best) \in best
    <3> HIDE DEF best, K
    <3> QED BY <2>1, <2>2, Largest
  <2>4. Anchor(reqs) = reqs[Max(best)]
    BY <1>8 DEF Anchor
  <2> QED BY <2>3, <2>4
<1> QED BY <1>7, <1>8

LEMMA AlternativesAreTyped ==
    ASSUME NEW N \in Nat, NEW reqs, DOMAIN reqs = 1 .. N, \A i \in 1 .. N : IsRequirement(reqs[i])
    PROVE  IsRequirement(Alternatives(reqs))
<1> DEFINE scores == {reqs[i].score : i \in DOMAIN reqs} \union {MaxScore}
           sets == {reqs[i].alts : i \in DOMAIN reqs}
<1>1. Min(scores) \in Nat
  <2>1. scores \subseteq Nat /\ scores # {}
    BY DEF IsRequirement, MaxScore
  <2> HIDE DEF scores
  <2> QED BY <2>1, Least
<1>2. UNION sets \subseteq Feature /\ IsFiniteSet(UNION sets)
  <2>1. \A A \in sets : A \subseteq Feature /\ IsFiniteSet(A)
    BY DEF IsRequirement
  <2>2. IsFiniteSet(DOMAIN reqs)
    BY Indices
  <2> DEFINE altsOf == [i \in DOMAIN reqs |-> reqs[i].alts]
  <2>3. altsOf \in Surjection(DOMAIN reqs, sets)
    BY DEF Surjection
  <2>4. IsFiniteSet(sets)
    <3> HIDE DEF altsOf, sets
    <3> QED BY <2>2, <2>3, FS_Surjection
  <2> HIDE DEF sets
  <2> QED BY <2>1, <2>4, FS_UNION
<1>3. CASE \E i \in DOMAIN reqs : ~ reqs[i].indexable
  <2>1. IsFiniteSet({})
    BY FS_EmptySet
  <2> QED BY <1>3, <2>1 DEF Alternatives, NotIndexable, IsRequirement
<1>4. CASE ~ \E i \in DOMAIN reqs : ~ reqs[i].indexable
  <2>1. Alternatives(reqs) = [indexable |-> TRUE, score |-> Min(scores), alts |-> UNION sets]
    BY <1>4 DEF Alternatives, Indexable
  <2> HIDE DEF scores, sets
  <2> QED BY <1>1, <1>2, <2>1 DEF IsRequirement
<1> QED BY <1>3, <1>4

LEMMA RequirementsAreTyped ==
    ASSUME NEW body, IsBody(body)
    PROVE  \A n \in Statements(body) : IsRequirement(Requirements(body)[n])
<1> DEFINE req == Requirements(body)
           P == {n \in Statements(body) : IsRequirement(req[n])}
<1>0. IsRequirement(NotIndexable)
  <2>1. IsFiniteSet({})
    BY FS_EmptySet
  <2> QED BY <2>1 DEF NotIndexable, IsRequirement
<1>1. ASSUME NEW n \in Statements(body), ToSet(n.kids) \subseteq P
      PROVE  n \in P
  <2> DEFINE reqs == Under(n, req)
  <2>1. IsStatement(n)
    BY DEF IsBody
  <2>2. Len(n.kids) \in Nat /\ DOMAIN reqs = 1 .. Len(n.kids)
    BY <2>1, Shape DEF Under
  <2>3. \A i \in 1 .. Len(n.kids) : IsRequirement(reqs[i])
    BY <1>1, <2>2 DEF Under, ToSet
  <2>4. req[n] = RequiredStep(n, reqs)
    BY RequirementsAre
  <2>5. IsRequirement(Anchor(reqs))
    <3> HIDE DEF reqs
    <3> QED BY <1>0, <2>2, <2>3, AnchorIsOne
  <2>6. IsRequirement(Alternatives(reqs))
    <3> HIDE DEF reqs
    <3> QED BY <2>2, <2>3, AlternativesAreTyped
  <2>7. ASSUME n.op \in {"leaf", "range"}
        PROVE  IsRequirement(Indexable(IndexScore(n.feature), {n.feature}))
    <3>1. n.feature \in Feature
      BY <2>1, <2>7, FeatureOf
    <3>2. IsFiniteSet({n.feature})
      BY FS_Singleton
    <3>3. IndexScore(n.feature) \in Nat
      BY DEF IndexScore
    <3> QED BY <3>1, <3>2, <3>3 DEF Indexable, IsRequirement
  <2>8. n.op \in {"and", "or", "not", "some", "range", "subscope", "leaf"}
    BY <2>1, Shape
  <2>9. RequiredStep(n, reqs) \in {NotIndexable, Anchor(reqs), Alternatives(reqs)}
            \union (IF n.op \in {"leaf", "range"}
                    THEN {Indexable(IndexScore(n.feature), {n.feature})} ELSE {})
    <3> HIDE DEF reqs
    <3> QED BY <2>8 DEF RequiredStep
  <2> HIDE DEF reqs, req
  <2> QED BY <1>0, <2>4, <2>5, <2>6, <2>7, <2>9
<1>2. Statements(body) \subseteq P
  <2> HIDE DEF P
  <2> QED BY <1>1, BodyInduction
<1> QED BY <1>2

(* An alternative a present key opens: exactly, or through its bucket.      *)
Opens(alt, keys) ==
    IF QueryBucket(alt) = "exact" THEN alt \in keys
    ELSE \E key \in keys : KeyBucket(key) = QueryBucket(alt)

LEMMA AcceptedIsOpened ==
    ASSUME NEW query, NEW keys, NEW f \in keys, LeafAccepts(query, f)
    PROVE  Opens(query, keys)
<1>1. CASE query.kind \in {"substring", "regex"}
  BY <1>1 DEF LeafAccepts, Opens, QueryBucket, KeyBucket, StringKinds
<1>2. CASE query.kind = "bytes"
  BY <1>2 DEF LeafAccepts, Opens, QueryBucket, KeyBucket, StringKinds
<1>3. CASE query.kind = "os"
  BY <1>3 DEF LeafAccepts, Opens, QueryBucket, KeyBucket, StringKinds
<1>4. CASE query.kind \notin {"substring", "regex", "bytes", "os"}
  BY <1>4 DEF LeafAccepts, Opens, QueryBucket
<1> QED BY <1>1, <1>2, <1>3, <1>4

LEMMA PresentIsOpened ==
    ASSUME NEW keys, NEW f \in keys
    PROVE  Opens(f, keys)
BY DEF Opens, QueryBucket, KeyBucket, StringKinds

(* A statement whose anchor is closed does not match.                       *)
LEMMA ClosedDoesNotMatch ==
    ASSUME NEW body, IsBody(body), NEW F
    PROVE  \A n \in Statements(body) :
                n.op # "subscope" /\ ~ IsCandidate(Requirements(body)[n], Keys(F))
                    => Outcomes(body, F)[n] = No
<1> DEFINE req == Requirements(body)
           value == Outcomes(body, F)
           P == {n \in Statements(body) :
                    n.op # "subscope" /\ ~ IsCandidate(req[n], Keys(F)) => value[n] = No}
<1>1. ASSUME NEW n \in Statements(body), ToSet(n.kids) \subseteq P,
             n.op # "subscope", ~ IsCandidate(req[n], Keys(F))
      PROVE  value[n] = No
  <2> DEFINE reqs == Under(n, req)
             yes == Matching(n, value)
  <2>1. IsStatement(n) /\ \A kid \in ToSet(n.kids) : kid.op # "subscope"
    BY DEF IsBody
  <2>2. value[n] = BoolOutcome(Holds(n, yes, F))
    BY <1>1, Verdicts
  <2>3. /\ Len(n.kids) \in Nat /\ DOMAIN n.kids = 1 .. Len(n.kids)
        /\ DOMAIN reqs = 1 .. Len(n.kids)
    BY <2>1, Shape DEF Under
  <2>4. \A i \in DOMAIN n.kids : /\ reqs[i] = req[n.kids[i]]
                                 /\ IsRequirement(reqs[i])
                                 /\ ~ IsCandidate(reqs[i], Keys(F)) => value[n.kids[i]] = No
    <3> SUFFICES ASSUME NEW i \in DOMAIN n.kids
                 PROVE  /\ reqs[i] = req[n.kids[i]] /\ IsRequirement(reqs[i])
                        /\ ~ IsCandidate(reqs[i], Keys(F)) => value[n.kids[i]] = No
      OBVIOUS
    <3>1. n.kids[i] \in ToSet(n.kids)
      BY DEF ToSet
    <3>2. reqs[i] = req[n.kids[i]]
      BY DEF Under
    <3>3. IsRequirement(req[n.kids[i]])
      BY <3>1, Closed, RequirementsAreTyped
    <3> HIDE DEF reqs, req, value
    <3> QED BY <1>1, <2>1, <3>1, <3>2, <3>3
  <2>5. req[n] = RequiredStep(n, reqs)
    BY RequirementsAre
  <2>6. req[n].indexable /\ \A alt \in req[n].alts : ~ Opens(alt, Keys(F))
    BY <1>1 DEF IsCandidate, Opens
  <2>7. ASSUME n.op = "or" \/ (n.op = "some" /\ n.count # 0)
        PROVE  yes = {}
    <3>1. req[n] = Alternatives(reqs)
      BY <2>5, <2>7 DEF RequiredStep
    <3>2. /\ \A i \in DOMAIN reqs : reqs[i].indexable
          /\ req[n].alts = UNION {reqs[i].alts : i \in DOMAIN reqs}
      <4> HIDE DEF reqs, req
      <4> QED BY <2>6, <3>1 DEF Alternatives, NotIndexable, Indexable
    <3>3. \A i \in DOMAIN n.kids : ~ IsCandidate(reqs[i], Keys(F))
      <4> HIDE DEF reqs, req
      <4> QED BY <2>3, <2>6, <3>2 DEF IsCandidate, Opens
    <3>4. \A i \in DOMAIN n.kids : value[n.kids[i]] = No
      BY <2>4, <3>3
    <3> HIDE DEF value
    <3> QED BY <3>4 DEF Matching, Yes, No
  <2>8. CASE n.op = "and"
    <3>1. req[n] = Anchor(reqs)
      BY <2>5, <2>8 DEF RequiredStep
    <3>2. PICK i \in 1 .. Len(n.kids) : req[n] = reqs[i]
      <4> HIDE DEF reqs, req
      <4> QED BY <2>3, <2>4, <2>6, <3>1, AnchorIsOne DEF NotIndexable
    <3>3. value[n.kids[i]] = No
      BY <1>1, <2>3, <2>4, <3>2
    <3>4. i \in DOMAIN n.kids /\ i \notin yes
      <4> HIDE DEF value
      <4> QED BY <2>3, <3>3 DEF Matching, Yes, No
    <3> HIDE DEF value, yes
    <3> QED BY <2>2, <2>8, <3>4 DEF Holds, BoolOutcome
  <2>9. CASE n.op = "or"
    <3>1. yes = {}
      BY <2>7, <2>9
    <3> HIDE DEF value, yes
    <3> QED BY <2>2, <2>9, <3>1 DEF Holds, BoolOutcome
  <2>10. CASE n.op = "some"
    <3>1. n.count \in Nat
      BY <2>1, <2>10, Shape
    <3>2. n.count # 0
      <4> HIDE DEF reqs, req
      <4> QED BY <2>5, <2>6, <2>10 DEF RequiredStep, NotIndexable
    <3>3. yes = {}
      BY <2>7, <2>10, <3>2
    <3>4. Cardinality(yes) = 0
      BY <3>3, FS_EmptySet
    <3> HIDE DEF value, yes
    <3> QED BY <2>2, <2>10, <3>1, <3>2, <3>4 DEF Holds, BoolOutcome
  <2>11. CASE n.op = "not"
    <3> HIDE DEF reqs, req
    <3> QED BY <2>5, <2>6, <2>11 DEF RequiredStep, NotIndexable
  <2>12. CASE n.op = "range"
    <3>1. n.min \in Nat /\ n.max \in Nat \union {NoMax}
      BY <2>1, <2>12, Shape
    <3>2. n.min # 0 /\ ~ Opens(n.feature, Keys(F))
      <4> HIDE DEF reqs, req
      <4> QED BY <2>5, <2>6, <2>12 DEF RequiredStep, NotIndexable, Indexable
    <3>3. n.feature \notin Keys(F)
      BY <3>2, PresentIsOpened
    <3>4. Locations(F, n.feature) = {}
      BY <3>3 DEF Locations, Keys
    <3>5. ~ InRange(0, n)
      BY <3>1, <3>2 DEF InRange
    <3>6. ~ InRange(Cardinality(Locations(F, n.feature)), n)
      BY <3>4, <3>5, FS_EmptySet
    <3> HIDE DEF value, yes
    <3> QED BY <2>2, <2>12, <3>6 DEF Holds, BoolOutcome
  <2>13. CASE n.op = "leaf"
    <3>1. ~ Opens(n.feature, Keys(F))
      <4> HIDE DEF reqs, req
      <4> QED BY <2>5, <2>6, <2>13 DEF RequiredStep, NotIndexable, Indexable
    <3>2. \A i \in DOMAIN F : ~ LeafAccepts(n.feature, F[i].feature)
      BY <3>1, AcceptedIsOpened DEF Keys
    <3>3. Hits(n.feature, F) = {}
      BY <3>2 DEF Hits
    <3> HIDE DEF value, yes
    <3> QED BY <2>2, <2>13, <3>3 DEF Holds, BoolOutcome
  <2> QED BY <1>1, <2>1, <2>8, <2>9, <2>10, <2>11, <2>12, <2>13, Shape
<1>2. Statements(body) \subseteq P
  <2>1. \A n \in Statements(body) : ToSet(n.kids) \subseteq P => n \in P
    BY <1>1
  <2> HIDE DEF P
  <2> QED BY <2>1, BodyInduction
<1> QED BY <1>2

(* A rule the feature index does not select would neither match nor fail:   *)
(* required_features names something every match needs, and candidates      *)
(* looks at every bucket that may hold it.                                  *)
THEOREM IndexLosesNoMatch == Spec => []IndexIsSound
<1>1. TypeOK => IndexIsSound
  <2> SUFFICES ASSUME TypeOK, ~ IsCandidate(RequiredFeatures(tree), Keys(fs))
               PROVE  EvaluateBoolean(tree, fs) = No
    BY DEF IndexIsSound
  <2>1. IsBody(tree) /\ tree \in Statements(tree)
    BY TreesAreBodies, Closed DEF TypeOK
  <2>2. ~ IsCandidate(Requirements(tree)[tree], Keys(fs))
    BY <2>1, RequirementsAre
  <2>3. tree.op # "subscope"
    <3>1. Requirements(tree)[tree] = RequiredStep(tree, Under(tree, Requirements(tree)))
      BY <2>1, RequirementsAre
    <3>2. tree.op = "subscope" => Requirements(tree)[tree] = NotIndexable
      BY <3>1 DEF RequiredStep
    <3>3. IsCandidate(NotIndexable, Keys(fs))
      BY DEF IsCandidate, NotIndexable
    <3> QED BY <2>2, <3>2, <3>3
  <2>4. EvaluateBoolean(tree, fs) = Outcomes(tree, fs)[tree]
    BY <2>1, OutcomesAre
  <2> QED BY <2>1, <2>2, <2>3, <2>4, ClosedDoesNotMatch
<1> QED BY <1>1, TypeCorrect, PTL

----------------------------------------------------------------------------
(* The two passes agree *)

(* What a loop has looked at when it leaves behind child m.                 *)
Cut(results, found, m) ==
    /\ Len(results) = m /\ DOMAIN results = 1 .. m
    /\ \A i \in 1 .. m : results[i] = found[i]

(* Results of which none is an error.                                       *)
Clean(R) == \A r \in R : r.outcome \in {Yes, No}

LEMMA EvalUntilCuts ==
    ASSUME NEW N \in Nat, NEW R, Clean(R), NEW found \in [1 .. N -> R], NEW stop \in SUBSET (1 .. N)
    PROVE  \/ stop = {} /\ Cut(EvalUntil(found, stop), found, N)
           \/ \E m \in stop : Cut(EvalUntil(found, stop), found, m)
<1>1. found \in Seq(R) /\ Len(found) = N /\ DOMAIN found = 1 .. N
  BY SequenceOf
<1>2. {i \in DOMAIN found : found[i].outcome = Error} = {}
  BY DEF Clean, Error, Yes, No
<1>3. EvalUntil(found, stop) = IF stop = {} THEN found ELSE SubSeq(found, 1, Min(stop))
  BY <1>2 DEF EvalUntil
<1>4. CASE stop = {}
  BY <1>1, <1>3, <1>4 DEF Cut
<1>5. CASE stop # {}
  <2> DEFINE m == Min(stop)
  <2>1. m \in stop
    <3>1. stop \subseteq Nat
      OBVIOUS
    <3> QED BY <1>5, <3>1, Least
  <2> HIDE DEF m
  <2>2. m \in 1 .. N
    BY <2>1
  <2>3. Len(SubSeq(found, 1, m)) = m /\ DOMAIN SubSeq(found, 1, m) = 1 .. m
    BY <1>1, <2>2
  <2>4. \A i \in 1 .. m : SubSeq(found, 1, m)[i] = found[i]
    BY <1>1, <2>2
  <2>5. EvalUntil(found, stop) = SubSeq(found, 1, m)
    BY <1>3, <1>5 DEF m
  <2> QED BY <2>1, <2>3, <2>4, <2>5 DEF Cut
<1> QED BY <1>4, <1>5

(* `satisfied` counts the same children in a prefix of the N children.      *)
Tally(results, found, m, N) ==
    /\ Satisfied(results, Len(results)) = Satisfied(found, m)
    /\ Len(results) = m /\ (results # <<>> <=> m # 0)
    /\ Satisfied(found, m) \in 0 .. m
    /\ Satisfied(found, m) <= Satisfied(found, N)
    /\ Satisfied(found, m) = 0 <=> \A i \in 1 .. m : found[i].outcome # Yes
    /\ Satisfied(found, m) = m <=> \A i \in 1 .. m : found[i].outcome = Yes

LEMMA CutCounts ==
    ASSUME NEW N \in Nat, NEW R, NEW found \in [1 .. N -> R], NEW m \in 0 .. N,
           NEW results, Cut(results, found, m)
    PROVE  Tally(results, found, m, N)
<1> DEFINE some == {i \in 1 .. m : found[i].outcome = Yes}
           all == {i \in 1 .. N : found[i].outcome = Yes}
<1>1. {i \in 1 .. Len(results) : results[i].outcome = Yes} = some
  BY DEF Cut
<1>2. some \in SUBSET (1 .. m) /\ all \in SUBSET (1 .. N) /\ some \subseteq all /\ m \in Nat
  OBVIOUS
<1>3. /\ Cardinality(some) \in 0 .. m
      /\ Cardinality(some) = 0 <=> some = {}
      /\ Cardinality(some) = m <=> some = 1 .. m
  <2> HIDE DEF some, all
  <2> QED BY <1>2, Indices
<1>4. IsFiniteSet(all) /\ Cardinality(all) \in Nat
  <2> HIDE DEF some, all
  <2> QED BY <1>2, Indices
<1>5. Cardinality(some) <= Cardinality(all)
  <2> HIDE DEF some, all
  <2> QED BY <1>2, <1>4, FS_Subset
<1>6. Satisfied(found, m) = Cardinality(some) /\ Satisfied(found, N) = Cardinality(all)
  BY DEF Satisfied
<1>7. Satisfied(results, Len(results)) = Cardinality(some)
  BY <1>1 DEF Satisfied
<1>8. some = {} <=> \A i \in 1 .. m : found[i].outcome # Yes
  OBVIOUS
<1>9. some = 1 .. m <=> \A i \in 1 .. m : found[i].outcome = Yes
  OBVIOUS
<1>10. Len(results) = m /\ (results # <<>> <=> m # 0)
  BY DEF Cut
<1> HIDE DEF some, all
<1> QED BY <1>3, <1>5, <1>6, <1>7, <1>8, <1>9, <1>10 DEF Tally

(* Looking at a prefix only, or at all children, `evaluate` comes to the    *)
(* verdict; a full pass over an empty optional list does not.               *)
LEMMA EvaluateHolds ==
    ASSUME NEW n, IsStatement(n), n.op # "subscope", NEW F, NEW short \in BOOLEAN,
           short \/ ~ (n.op = "some" /\ n.count = 0 /\ n.kids = <<>>),
           NEW R, Clean(R), NEW found \in [1 .. Len(n.kids) -> R]
    PROVE  EvaluateStep(n, found, F, short).outcome =
                BoolOutcome(Holds(n, {i \in DOMAIN found : found[i].outcome = Yes}, F))
<1> DEFINE N == Len(n.kids)
           yes == {i \in 1 .. N : found[i].outcome = Yes}
           results == EvalKids(n, found, short)
<1>1. /\ N \in Nat /\ DOMAIN n.kids = 1 .. N /\ (n.kids = <<>> <=> N = 0)
      /\ n.op \in {"and", "or", "not", "some", "range", "leaf"}
      /\ n.op = "some" => n.count \in Nat
      /\ n.op = "not" => N = 1
  BY Shape
<1>2. {i \in DOMAIN found : found[i].outcome = Yes} = yes
  OBVIOUS
<1> SUFFICES EvaluateStep(n, found, F, short).outcome = BoolOutcome(Holds(n, yes, F))
  BY <1>2
<1>3. \A i \in 1 .. N : found[i].outcome \in {Yes, No}
  BY DEF Clean
<1>4. Cut(found, found, N)
  BY <1>1, SequenceOf DEF Cut
<1>5. Cardinality(yes) = Satisfied(found, N)
  BY DEF Satisfied
<1> HIDE DEF N
<1>6. ASSUME n.op \in {"and", "or", "not", "some"},
             NEW m \in 0 .. N, Cut(results, found, m),
             StatementHolds(n, results, short) <=> Holds(n, yes, F)
      PROVE  EvaluateStep(n, found, F, short).outcome = BoolOutcome(Holds(n, yes, F))
  <2>1. \A i \in DOMAIN results : results[i].outcome # Error
    <3>1. \A i \in DOMAIN results : i \in 1 .. N /\ results[i] = found[i]
      BY <1>1, <1>6 DEF Cut
    <3> HIDE DEF results
    <3> QED BY <1>3, <3>1 DEF Error, Yes, No
  <2> HIDE DEF results
  <2>2. EvaluateStep(n, found, F, short) = Result(BoolOutcome(StatementHolds(n, results, short)), {}, results)
    BY <1>6, <2>1 DEF EvaluateStep, results
  <2>3. BoolOutcome(StatementHolds(n, results, short)) = BoolOutcome(Holds(n, yes, F))
    BY <1>6 DEF BoolOutcome
  <2>4. \A verdict : Result(verdict, {}, results).outcome = verdict
    BY DEF Result
  <2> QED BY <2>2, <2>3, <2>4
<1>7. \A m \in 0 .. N : Cut(results, found, m) => Tally(results, found, m, N)
  <2> HIDE DEF results
  <2>1. found \in [1 .. N -> R]
    BY DEF N
  <2> QED BY <1>1, <2>1, CutCounts
<1>8. Tally(found, found, N, N)
  <2>1. found \in [1 .. N -> R] /\ N \in 0 .. N
    BY <1>1 DEF N
  <2> QED BY <1>1, <1>4, <2>1, CutCounts
<1>9. ASSUME NEW stop \in SUBSET (1 .. N), results = EvalUntil(found, stop)
      PROVE  \/ stop = {} /\ Cut(results, found, N)
             \/ \E m \in stop : Cut(results, found, m)
  <2>1. found \in [1 .. N -> R]
    BY DEF N
  <2> HIDE DEF results
  <2> QED BY <1>1, <1>9, <2>1, EvalUntilCuts
<1>10. CASE n.op \in {"and", "or", "not", "some"} /\ (~ short \/ n.op = "not")
  <2>1. results = found
    BY <1>10 DEF EvalKids, ShortKids
  <2> HIDE DEF results
  <2>2. StatementHolds(n, results, short) <=> Holds(n, yes, F)
    <3>1. n.op = "and" => (Satisfied(found, N) = N <=> yes = DOMAIN n.kids)
      BY <1>1, <1>8 DEF Tally
    <3>2. Satisfied(found, N) = 0 <=> yes = {}
      BY <1>1, <1>8 DEF Tally
    <3>3. Satisfied(found, N) \in 0 .. N /\ Len(found) = N /\ (found # <<>> <=> N # 0)
      BY <1>8 DEF Tally
    <3> HIDE DEF yes
    <3>4. CASE n.op = "and"
      BY <1>1, <2>1, <3>1, <3>3, <3>4 DEF StatementHolds, Holds
    <3>5. CASE n.op = "or"
      BY <1>1, <2>1, <3>2, <3>3, <3>5 DEF StatementHolds, Holds
    <3>6. CASE n.op = "not"
      BY <1>1, <2>1, <3>2, <3>3, <3>6 DEF StatementHolds, Holds
    <3>7. CASE n.op = "some"
      <4>1. ~ short /\ n.count \in Nat /\ (n.count # 0 \/ n.kids # <<>>)
        BY <1>1, <1>10, <3>7
      <4> QED BY <1>1, <1>5, <2>1, <3>3, <3>7, <4>1 DEF StatementHolds, Holds
    <3> QED BY <1>10, <3>4, <3>5, <3>6, <3>7
  <2> QED BY <1>1, <1>4, <1>6, <1>10, <2>1, <2>2
<1>11. CASE n.op = "and" /\ short
  <2> DEFINE stop == {i \in DOMAIN found : found[i].outcome = No}
  <2>1. results = EvalUntil(found, stop)
    BY <1>11 DEF EvalKids, ShortKids
  <2>2. stop \in SUBSET (1 .. N) /\ (stop = {} <=> yes = 1 .. N)
    BY <1>3 DEF Yes, No, N
  <2> HIDE DEF results
  <2>3. CASE stop = {} /\ Cut(results, found, N)
    <3>1. Satisfied(results, Len(results)) = N /\ Len(results) = N
      BY <1>1, <1>7, <2>2, <2>3 DEF Tally
    <3>2. StatementHolds(n, results, short) /\ Holds(n, yes, F)
      BY <1>1, <1>11, <2>2, <2>3, <3>1 DEF StatementHolds, Holds
    <3>9. N \in 0 .. N /\ Cut(results, found, N)
      BY <1>1, <2>3
    <3> QED BY <1>6, <1>11, <3>2, <3>9
  <2>4. ASSUME NEW m \in stop, Cut(results, found, m)
        PROVE  EvaluateStep(n, found, F, short).outcome = BoolOutcome(Holds(n, yes, F))
    <3>1. m \in 1 .. N /\ m \in 0 .. N /\ found[m].outcome # Yes
      BY <1>1, <2>2 DEF Yes, No
    <3>2. Satisfied(results, Len(results)) # Len(results)
      BY <1>7, <2>4, <3>1 DEF Tally
    <3>3. ~ StatementHolds(n, results, short) /\ ~ Holds(n, yes, F)
      BY <1>1, <1>11, <3>1, <3>2 DEF StatementHolds, Holds
    <3> QED BY <1>6, <1>11, <2>4, <3>1, <3>3
  <2> HIDE DEF stop
  <2> QED BY <1>9, <2>1, <2>2, <2>3, <2>4
<1>12. CASE n.op = "or" /\ short
  <2> DEFINE stop == {i \in DOMAIN found : found[i].outcome = Yes}
  <2>1. results = EvalUntil(found, stop)
    BY <1>12 DEF EvalKids, ShortKids
  <2>2. stop \in SUBSET (1 .. N) /\ stop = yes
    BY DEF N
  <2> HIDE DEF results
  <2>3. CASE stop = {} /\ Cut(results, found, N)
    <3>1. Satisfied(results, Len(results)) = 0
      BY <1>1, <1>7, <2>2, <2>3 DEF Tally
    <3>2. ~ StatementHolds(n, results, short) /\ ~ Holds(n, yes, F)
      BY <1>1, <1>12, <2>2, <2>3, <3>1 DEF StatementHolds, Holds
    <3>9. N \in 0 .. N /\ Cut(results, found, N)
      BY <1>1, <2>3
    <3> QED BY <1>6, <1>12, <3>2, <3>9
  <2>4. ASSUME NEW m \in stop, Cut(results, found, m)
        PROVE  EvaluateStep(n, found, F, short).outcome = BoolOutcome(Holds(n, yes, F))
    <3>1. m \in 1 .. N /\ m \in 0 .. N /\ found[m].outcome = Yes /\ m \in yes
      BY <1>1, <2>2
    <3>2. Satisfied(results, Len(results)) \in Nat \ {0}
      BY <1>7, <2>4, <3>1 DEF Tally
    <3>3. StatementHolds(n, results, short) /\ Holds(n, yes, F)
      BY <1>1, <1>12, <3>1, <3>2 DEF StatementHolds, Holds
    <3> QED BY <1>6, <1>12, <2>4, <3>1, <3>3
  <2> HIDE DEF stop
  <2> QED BY <1>9, <2>1, <2>2, <2>3, <2>4
<1>13. CASE n.op = "some" /\ short
  <2> DEFINE stop == {i \in DOMAIN found : Satisfied(found, i) >= n.count}
  <2>0. n.count \in Nat
    BY <1>1, <1>13
  <2>1. results = EvalUntil(found, stop)
    BY <1>13 DEF EvalKids, ShortKids
  <2>2. stop \in SUBSET (1 .. N) /\ DOMAIN found = 1 .. N
    BY DEF N
  <2> HIDE DEF results
  <2>3. CASE stop = {} /\ Cut(results, found, N)
    <3>1. N = 0 \/ ~ (Satisfied(found, N) >= n.count)
      BY <1>1, <2>2, <2>3
    <3>2. /\ Satisfied(results, Len(results)) = Satisfied(found, N)
          /\ results # <<>> <=> N # 0
      BY <1>1, <1>7, <2>3 DEF Tally
    <3>3. ~ StatementHolds(n, results, short) /\ ~ Holds(n, yes, F)
      BY <1>1, <1>5, <1>13, <3>1, <3>2 DEF StatementHolds, Holds
    <3>9. N \in 0 .. N /\ Cut(results, found, N)
      BY <1>1, <2>3
    <3> QED BY <1>6, <1>13, <3>3, <3>9
  <2>4. ASSUME NEW m \in stop, Cut(results, found, m)
        PROVE  EvaluateStep(n, found, F, short).outcome = BoolOutcome(Holds(n, yes, F))
    <3>1. m \in 1 .. N /\ m \in 0 .. N /\ Satisfied(found, m) >= n.count /\ N # 0
      BY <1>1, <2>2
    <3>2. /\ Satisfied(results, Len(results)) = Satisfied(found, m)
          /\ results # <<>>
          /\ Satisfied(found, m) \in Nat /\ Satisfied(found, N) \in Nat
          /\ Satisfied(found, m) <= Satisfied(found, N)
      BY <1>1, <1>7, <1>8, <2>4, <3>1 DEF Tally
    <3>3. Satisfied(found, N) >= n.count
      BY <2>0, <3>1, <3>2
    <3>4. StatementHolds(n, results, short) /\ Holds(n, yes, F)
      BY <1>1, <1>5, <1>13, <3>1, <3>2, <3>3 DEF StatementHolds, Holds
    <3> QED BY <1>6, <1>13, <2>4, <3>1, <3>4
  <2> HIDE DEF stop
  <2> QED BY <1>9, <2>1, <2>2, <2>3, <2>4
<1>14. CASE n.op = "range"
  BY <1>14 DEF EvaluateStep, Holds, Result
<1>15. CASE n.op = "leaf"
  <2>1. n.feature.kind # "com"
    BY <1>15, Shape
  <2> QED BY <1>15, <2>1 DEF EvaluateStep, Holds, Result
<1> QED BY <1>1, <1>10, <1>11, <1>12, <1>13, <1>14, <1>15

(* The outcome of every statement is the same in a pass that keeps the      *)
(* evidence as in evaluate_boolean.                                         *)
LEMMA SameOutcome ==
    ASSUME NEW body, IsBody(body), NEW F, NEW short \in BOOLEAN, short \/ NoEmptyOptional(body)
    PROVE  EvaluateBoolean(body, F) = Evaluate(body, F, short).outcome
<1> DEFINE value == Outcomes(body, F)
           found == Found(body, F, short)
           P == {n \in Statements(body) : n.op # "subscope" => found[n].outcome = value[n]}
<1>1. ASSUME NEW n \in Statements(body), ToSet(n.kids) \subseteq P, n.op # "subscope"
      PROVE  found[n].outcome = value[n]
  <2> DEFINE results == Under(n, found)
             R == {found[kid] : kid \in ToSet(n.kids)}
  <2>1. IsStatement(n) /\ \A kid \in ToSet(n.kids) : kid.op # "subscope"
    BY DEF IsBody
  <2>2. Len(n.kids) \in Nat /\ DOMAIN n.kids = 1 .. Len(n.kids)
    BY <2>1, Shape
  <2>3. \A kid \in ToSet(n.kids) : found[kid].outcome = value[kid] /\ value[kid] \in {Yes, No}
    <3> SUFFICES ASSUME NEW kid \in ToSet(n.kids)
                 PROVE  found[kid].outcome = value[kid] /\ value[kid] \in {Yes, No}
      OBVIOUS
    <3>1. kid \in Statements(body) /\ kid.op # "subscope"
      BY <2>1, Closed
    <3>2. value[kid] \in {Yes, No}
      BY <3>1, Verdicts
    <3> QED BY <1>1, <3>1, <3>2
  <2>4. Clean(R)
    <3> HIDE DEF found, value
    <3> QED BY <2>3 DEF Clean
  <2>5. results \in [1 .. Len(n.kids) -> R]
    <3> HIDE DEF found
    <3> QED BY <2>2 DEF Under, ToSet
  <2>6. {i \in DOMAIN results : results[i].outcome = Yes} = Matching(n, value)
    <3>1. \A i \in DOMAIN n.kids : results[i].outcome = value[n.kids[i]]
      <4> HIDE DEF found, value
      <4> QED BY <2>3 DEF Under, ToSet
    <3>2. DOMAIN results = DOMAIN n.kids
      BY DEF Under
    <3> HIDE DEF results, value
    <3> QED BY <3>1, <3>2 DEF Matching
  <2>7. short \/ ~ (n.op = "some" /\ n.count = 0 /\ n.kids = <<>>)
    BY DEF NoEmptyOptional
  <2>8. found[n] = EvaluateStep(n, results, F, short)
    BY FoundAre
  <2>9. value[n] = BoolOutcome(Holds(n, Matching(n, value), F))
    BY <1>1, Verdicts
  <2> HIDE DEF results, R, found, value
  <2>10. EvaluateStep(n, results, F, short).outcome =
            BoolOutcome(Holds(n, {i \in DOMAIN results : results[i].outcome = Yes}, F))
    BY <1>1, <2>1, <2>4, <2>5, <2>7, EvaluateHolds
  <2> QED BY <2>6, <2>8, <2>9, <2>10
<1>2. Statements(body) \subseteq P
  <2>1. \A n \in Statements(body) : ToSet(n.kids) \subseteq P => n \in P
    BY <1>1
  <2> HIDE DEF P
  <2> QED BY <2>1, BodyInduction
<1>3. /\ body \in Statements(body)
      /\ EvaluateBoolean(body, F) = value[body]
      /\ Evaluate(body, F, short) = found[body]
  BY Closed, OutcomesAre, FoundAre
<1>4. CASE body.op # "subscope"
  BY <1>2, <1>3, <1>4
<1>5. CASE body.op = "subscope"
  <2>1. value[body] = BooleanStep(body, Under(body, value), F)
    BY <1>3, OutcomesAre
  <2>2. found[body] = EvaluateStep(body, Under(body, found), F, short)
    BY <1>3, FoundAre
  <2>3. value[body] = Error
    BY <1>5, <2>1 DEF BooleanStep
  <2>4. found[body] = ErrorResult
    BY <1>5, <2>2 DEF EvaluateStep
  <2> HIDE DEF value, found
  <2> QED BY <1>3, <2>3, <2>4 DEF ErrorResult
<1> QED BY <1>4, <1>5

(* evaluate_boolean decides which rules match, evaluate is run again over   *)
(* those to collect the evidence: the outcomes are the same, unless the     *)
(* body holds an empty optional list.                                       *)
THEOREM PassesComeToOneOutcome == Spec => []PassesAgree
<1>1. TypeOK => PassesAgree
  <2> SUFFICES ASSUME TypeOK
               PROVE  PassesAgree
    OBVIOUS
  <2>1. IsBody(tree)
    BY TreesAreBodies DEF TypeOK
  <2>2. EvaluateBoolean(tree, fs) = Evaluate(tree, fs, TRUE).outcome
    BY <2>1, SameOutcome
  <2>3. NoEmptyOptional(tree) => EvaluateBoolean(tree, fs) = Evaluate(tree, fs, FALSE).outcome
    BY <2>1, SameOutcome
  <2> QED BY <2>2, <2>3 DEF PassesAgree
<1> QED BY <1>1, TypeCorrect, PTL

----------------------------------------------------------------------------
(* Costs *)

(* A statement of a body is a body: below it there is less room.            *)
LEMMA SubBody ==
    ASSUME NEW body, IsBody(body), NEW n \in Statements(body)
    PROVE  IsBody(n)
<1> DEFINE K == {k \in Nat : Generations(n)[k] \subseteq Late(body, MaxDepth + 1 - k)}
<1>0. MaxDepth \in Nat
  BY MaxDepthIsNatural
<1>1. 0 \in K
  <2>1. Generations(n)[0] = {n}
    <3>1. Generations(n)[0] = GenerationAt(n, Generations(n), 0)
      BY <1>0, GenerationsAre
    <3> QED BY <3>1 DEF GenerationAt
  <2>2. Late(body, MaxDepth + 1 - 0) = Statements(body)
    <3>1. Late(body, MaxDepth + 1) = Statements(body)
      BY LateGenerations DEF IsBody
    <3> QED BY <1>0, <3>1
  <2> QED BY <2>1, <2>2
<1>2. ASSUME NEW k \in 0 .. MaxDepth - 1, k \in K
      PROVE  k + 1 \in K
  <2>1. Generations(n)[k + 1] = UNION {ToSet(m.kids) : m \in Generations(n)[k]}
    <3>1. k + 1 \in 0 .. MaxDepth /\ k + 1 # 0 /\ (k + 1) - 1 = k
      BY <1>0
    <3>2. Generations(n)[k + 1] = GenerationAt(n, Generations(n), k + 1)
      BY <3>1, GenerationsAre
    <3> QED BY <3>1, <3>2 DEF GenerationAt
  <2>2. \A m \in Late(body, MaxDepth + 1 - k) : ToSet(m.kids) \subseteq Late(body, MaxDepth + 1 - (k + 1))
    <3>1. MaxDepth - k \in 0 .. MaxDepth /\ (MaxDepth - k) + 1 = MaxDepth + 1 - k
            /\ MaxDepth + 1 - (k + 1) = MaxDepth - k
      BY <1>0
    <3>2. \A m \in Late(body, (MaxDepth - k) + 1) : ToSet(m.kids) \subseteq Late(body, MaxDepth - k)
      BY <3>1, LateGenerations DEF IsBody
    <3> QED BY <3>1, <3>2
  <2>3. Generations(n)[k] \subseteq Late(body, MaxDepth + 1 - k)
    BY <1>2
  <2>4. Generations(n)[k + 1] \subseteq Late(body, MaxDepth + 1 - (k + 1))
    BY <2>1, <2>2, <2>3
  <2> QED BY <2>4
<1>3. \A k \in 0 .. MaxDepth : k \in K
  <2>1. \A k \in 0 .. MaxDepth - 1 : k \in K => k + 1 \in K
    BY <1>2
  <2> HIDE DEF K
  <2> QED BY <1>0, <1>1, <2>1, UpTo, Zenon
<1>4. \A k \in 0 .. MaxDepth : Late(body, MaxDepth + 1 - k) \subseteq Statements(body)
  BY <1>0 DEF Late, Statements
<1>5. Statements(n) \subseteq Statements(body)
  <2>1. Statements(n) = UNION {Generations(n)[k] : k \in 0 .. MaxDepth}
    BY DEF Statements
  <2> QED BY <1>3, <1>4, <2>1
<1>6. Generations(n)[MaxDepth] \subseteq Generations(body)[MaxDepth]
  <2>1. Generations(n)[MaxDepth] \subseteq Late(body, MaxDepth + 1 - MaxDepth)
    BY <1>0, <1>3
  <2>2. Late(body, MaxDepth + 1 - MaxDepth) = Generations(body)[MaxDepth]
    BY <1>0 DEF Late
  <2> QED BY <2>1, <2>2
<1> QED BY <1>5, <1>6 DEF IsBody

(* A sum of natural numbers is one.                                         *)
LEMMA TotalIsNatural ==
    ASSUME NEW N \in Nat, NEW costs \in [1 .. N -> Nat]
    PROVE  TotalCost(costs) \in Nat
<1> DEFINE IsSum(upTo, k) ==
                upTo = [i \in 0 .. k |-> IF i = 0 THEN 0 ELSE upTo[i - 1] + costs[i]]
           K == {k \in Nat : \E upTo \in [0 .. k -> Nat] : IsSum(upTo, k)}
<1>1. 0 \in K
  <2>1. [i \in 0 .. 0 |-> 0] \in [0 .. 0 -> Nat] /\ IsSum([i \in 0 .. 0 |-> 0], 0)
    OBVIOUS
  <2> QED BY <2>1
<1>2. ASSUME NEW k \in 0 .. N - 1, k \in K
      PROVE  k + 1 \in K
  <2>1. PICK upTo \in [0 .. k -> Nat] : IsSum(upTo, k)
    BY <1>2
  <2> DEFINE next == [i \in 0 .. k + 1 |-> IF i = 0 THEN 0 ELSE upTo[i - 1] + costs[i]]
  <2>2. next \in [0 .. k + 1 -> Nat]
    OBVIOUS
  <2>3. \A i \in 0 .. k : next[i] = upTo[i]
    BY <2>1
  <2>4. \A i \in 0 .. k + 1 : next[i] = IF i = 0 THEN 0 ELSE next[i - 1] + costs[i]
    <3> SUFFICES ASSUME NEW i \in 0 .. k + 1
                 PROVE  next[i] = IF i = 0 THEN 0 ELSE next[i - 1] + costs[i]
      OBVIOUS
    <3>1. next[i] = IF i = 0 THEN 0 ELSE upTo[i - 1] + costs[i]
      OBVIOUS
    <3>2. i # 0 => i - 1 \in 0 .. k
      OBVIOUS
    <3> HIDE DEF next
    <3> QED BY <2>3, <3>1, <3>2
  <2>5. IsSum(next, k + 1)
    <3> HIDE DEF next
    <3> QED BY <2>2, <2>4
  <2> HIDE DEF next
  <2>6. \E u \in [0 .. k + 1 -> Nat] : IsSum(u, k + 1)
    <3> HIDE DEF IsSum
    <3> QED BY <2>2, <2>5
  <2>7. k + 1 \in Nat
    OBVIOUS
  <2> HIDE DEF IsSum
  <2> QED BY <2>6, <2>7
<1>3. N \in K
  <2>1. \A k \in 0 .. N - 1 : k \in K => k + 1 \in K
    BY <1>2
  <2> HIDE DEF K
  <2>2. \A k \in 0 .. N : k \in K
    BY <1>1, <2>1, UpTo, Zenon
  <2> QED BY <2>2
<1>4. Len(costs) = N
  BY SequenceOf
<1> DEFINE sum == CHOOSE upTo : IsSum(upTo, N)
<1>5. TotalCost(costs) = sum[N]
  BY <1>4 DEF TotalCost
<1>6. IsSum(sum, N)
  BY <1>3
<1> HIDE DEF sum
<1> DEFINE J == {k \in Nat : sum[k] \in Nat}
<1>7. 0 \in J
  BY <1>6
<1>8. \A k \in 0 .. N - 1 : k \in J => k + 1 \in J
  <2> SUFFICES ASSUME NEW k \in 0 .. N - 1, sum[k] \in Nat
               PROVE  sum[k + 1] \in Nat
    OBVIOUS
  <2>1. sum[k + 1] = sum[k] + costs[k + 1] /\ costs[k + 1] \in Nat
    BY <1>6
  <2> QED BY <2>1
<1>9. \A k \in 0 .. N : k \in J
  <2> HIDE DEF J
  <2> QED BY <1>7, <1>8, UpTo, Zenon
<1> QED BY <1>5, <1>9

LEMMA CostIsNatural ==
    ASSUME NEW body, IsBody(body)
    PROVE  NodeCost(body) \in Nat
<1> DEFINE cost == Costs(body)
           P == {n \in Statements(body) : cost[n] \in Nat}
<1>1. ASSUME NEW n \in Statements(body), ToSet(n.kids) \subseteq P
      PROVE  n \in P
  <2> DEFINE costs == Under(n, cost)
  <2>1. IsStatement(n)
    BY DEF IsBody
  <2>2. Len(n.kids) \in Nat /\ DOMAIN n.kids = 1 .. Len(n.kids)
    BY <2>1, Shape
  <2>3. costs \in [1 .. Len(n.kids) -> Nat]
    BY <1>1, <2>2 DEF Under, ToSet
  <2>4. TotalCost(costs) \in Nat
    <3> HIDE DEF costs
    <3> QED BY <2>2, <2>3, TotalIsNatural
  <2>5. cost[n] = CostStep(n, costs)
    BY CostsAre
  <2>6. \A f : FeatureCost(f) \in Nat
    BY DEF FeatureCost
  <2> HIDE DEF cost, costs
  <2>7. cost[n] \in Nat
    BY <2>4, <2>5, <2>6 DEF CostStep
  <2> QED BY <2>7 DEF cost
<1>2. Statements(body) \subseteq P
  <2> HIDE DEF P
  <2> QED BY <1>1, BodyInduction
<1> QED BY <1>2, Closed, CostsAre

----------------------------------------------------------------------------
(* The optimiser *)

IsPermutation(order, N) ==
    /\ order \in [1 .. N -> 1 .. N]
    /\ \A j, k \in 1 .. N : order[j] = order[k] => j = k
    /\ \A i \in 1 .. N : \E k \in 1 .. N : order[k] = i

(* Sorting keeps every child: the stable sort orders the children by cost   *)
(* and index, so that no two are equal.                                     *)
LEMMA SortIsPermutation ==
    ASSUME NEW N \in Nat, NEW cost \in [1 .. N -> Nat]
    PROVE  IsPermutation(SortByCost({<<cost[i], i>> : i \in 1 .. N}), N)
<1> DEFINE S == {<<cost[i], i>> : i \in 1 .. N}
           R == {p \in S \X S : Cheaper(p[1], p[2])}
           rank(a) == Cardinality(Below(S, R, a))
           sorted == InOrder(S, Cheaper)
           order == SortByCost(S)
<1>1. IsFiniteSet(S) /\ Cardinality(S) = N
  <2> DEFINE f == [i \in 1 .. N |-> <<cost[i], i>>]
  <2>1. f \in Bijection(1 .. N, S)
    BY DEF Bijection, Injection, Surjection, IsInjective
  <2>2. ExistsBijection(1 .. N, S)
    <3> HIDE DEF f, S
    <3> QED BY <2>1 DEF ExistsBijection
  <2> HIDE DEF S
  <2> QED BY <2>2, Indices, FS_Bijection
<1>2. \A a \in S : a[1] \in Nat /\ a[2] \in 1 .. N /\ a = <<cost[a[2]], a[2]>>
  OBVIOUS
<1>3. IsOrder(S, R)
  <2>1. \A a, b \in S : <<a, b>> \in R <=> Cheaper(a, b)
    <3> HIDE DEF S
    <3> QED OBVIOUS
  <2>2. \A a, b \in S : a # b => a[2] # b[2]
    BY <1>2
  <2> HIDE DEF S, R
  <2>3. \A a \in S : ~ Cheaper(a, a)
    BY <1>2 DEF Cheaper
  <2>4. \A a, b \in S : a # b => Cheaper(a, b) \/ Cheaper(b, a)
    BY <1>2, <2>2 DEF Cheaper
  <2>5. \A a, b, c \in S : Cheaper(a, b) /\ Cheaper(b, c) => Cheaper(a, c)
    BY <1>2 DEF Cheaper
  <2> QED BY <2>1, <2>3, <2>4, <2>5 DEF IsOrder
<1>4. IsRanked(S, R)
  <2> HIDE DEF S, R
  <2> QED BY <1>1, <1>3, Ranks
<1>5. \A a \in S : Below(S, R, a) = {b \in S : Cheaper(b, a)}
  <2> HIDE DEF S
  <2> QED BY DEF Below
<1>6. \A k \in 1 .. N : sorted[k] \in S /\ rank(sorted[k]) = k - 1
  <2> SUFFICES ASSUME NEW k \in 1 .. N
               PROVE  sorted[k] \in S /\ rank(sorted[k]) = k - 1
    OBVIOUS
  <2> HIDE DEF S, R
  <2>1. sorted[k] = CHOOSE a \in S : Cardinality({b \in S : Cheaper(b, a)}) = k - 1
    BY <1>1 DEF InOrder
  <2>2. \E a \in S : Cardinality({b \in S : Cheaper(b, a)}) = k - 1
    BY <1>1, <1>4, <1>5 DEF IsRanked
  <2>3. sorted[k] \in S /\ Cardinality({b \in S : Cheaper(b, sorted[k])}) = k - 1
    <3> HIDE DEF sorted
    <3> QED BY <2>1, <2>2
  <2> HIDE DEF sorted
  <2> QED BY <1>5, <2>3
<1>7. DOMAIN order = 1 .. N /\ \A k \in 1 .. N : order[k] = sorted[k][2]
  <2> HIDE DEF S
  <2>1. DOMAIN sorted = 1 .. N
    BY <1>1 DEF InOrder
  <2> HIDE DEF sorted
  <2>2. order = [k \in DOMAIN sorted |-> sorted[k][2]]
    BY DEF SortByCost, Each, sorted
  <2> QED BY <2>1, <2>2
<1>8. order \in [1 .. N -> 1 .. N]
  <2>1. order = [k \in DOMAIN order |-> order[k]]
    BY DEF SortByCost, Each
  <2> HIDE DEF S, R, sorted, order
  <2> QED BY <1>2, <1>6, <1>7, <2>1
<1>9. ASSUME NEW j \in 1 .. N, NEW k \in 1 .. N, order[j] = order[k]
      PROVE  j = k
  <2> HIDE DEF S, R, sorted, order
  <2>1. sorted[j] = sorted[k]
    <3>1. sorted[j] = <<cost[sorted[j][2]], sorted[j][2]>>
      BY <1>2, <1>6
    <3>2. sorted[k] = <<cost[sorted[k][2]], sorted[k][2]>>
      BY <1>2, <1>6
    <3>3. sorted[j][2] = sorted[k][2]
      BY <1>7, <1>9
    <3> QED BY <3>1, <3>2, <3>3
  <2>2. j - 1 = k - 1
    BY <1>6, <2>1
  <2> QED BY <2>2
<1>10. ASSUME NEW i \in 1 .. N
       PROVE  \E k \in 1 .. N : order[k] = i
  <2>1. PICK a \in S : a[2] = i
    <3>1. <<cost[i], i>> \in S /\ <<cost[i], i>>[2] = i
      OBVIOUS
    <3> QED BY <3>1
  <2> HIDE DEF S, R, sorted, order
  <2>2. rank(a) \in 0 .. N - 1
    BY <1>1, <1>4 DEF IsRanked
  <2> DEFINE k == rank(a) + 1
  <2>3. k \in 1 .. N /\ k - 1 = rank(a)
    BY <2>2
  <2>4. sorted[k] \in S /\ rank(sorted[k]) = rank(a)
    <3> HIDE DEF k
    <3> QED BY <1>6, <2>3
  <2>5. sorted[k] = a
    BY <1>4, <2>4 DEF IsRanked
  <2> QED BY <1>7, <2>1, <2>3, <2>5
<1> QED BY <1>8, <1>9, <1>10 DEF IsPermutation

(* What the optimiser makes of a statement: the same statement over its     *)
(* reordered children.                                                      *)
IsReordered(n, new, kid, order) ==
    /\ new = [n EXCEPT !.kids = [k \in DOMAIN n.kids |-> kid[n.kids[order[k]]]]]
    /\ IsPermutation(order, Len(n.kids))

LEMMA StatementsAreReordered ==
    ASSUME NEW body, IsBody(body), NEW n \in Statements(body)
    PROVE  \E order : IsReordered(n, Reordered(body)[n], Reordered(body), order)
<1> DEFINE new == Reordered(body)
           N == Len(n.kids)
           kids == Under(n, new)
           order == SortByCost(SortKeys(n.kids))
           same == [k \in 1 .. N |-> k]
<1>1. IsStatement(n)
  BY DEF IsBody
<1>2. N \in Nat /\ DOMAIN n.kids = 1 .. N
  BY <1>1, Shape
<1>3. new[n] = OptimizeStep(n, kids)
  BY ReorderedAre
<1>4. kids = [k \in DOMAIN n.kids |-> new[n.kids[k]]]
  BY DEF Under
<1>5. IsPermutation(order, N)
  <2> DEFINE cost == [i \in 1 .. N |-> NodeCost(n.kids[i])]
  <2>1. cost \in [1 .. N -> Nat]
    <3>1. \A i \in 1 .. N : NodeCost(n.kids[i]) \in Nat
      <4> SUFFICES ASSUME NEW i \in 1 .. N
                   PROVE  NodeCost(n.kids[i]) \in Nat
        OBVIOUS
      <4>1. n.kids[i] \in Statements(body)
        BY <1>2, Closed DEF ToSet
      <4>2. IsBody(n.kids[i])
        BY <4>1, SubBody
      <4> QED BY <4>2, CostIsNatural
    <3> QED BY <3>1
  <2>2. SortKeys(n.kids) = {<<cost[i], i>> : i \in 1 .. N}
    BY <1>2 DEF SortKeys
  <2> HIDE DEF cost, N
  <2> QED BY <1>2, <2>1, <2>2, SortIsPermutation
<1>6. IsPermutation(same, N)
  BY <1>2 DEF IsPermutation
<1>7. CASE n.op \in {"and", "or", "some"}
  <2>1. new[n] = [n EXCEPT !.kids = [k \in DOMAIN order |-> kids[order[k]]]]
    BY <1>3, <1>7 DEF OptimizeStep
  <2>2. DOMAIN order = DOMAIN n.kids /\ \A k \in DOMAIN order : order[k] \in DOMAIN n.kids
    BY <1>2, <1>5 DEF IsPermutation
  <2> HIDE DEF order, new, N
  <2>3. [k \in DOMAIN order |-> kids[order[k]]] = [k \in DOMAIN n.kids |-> new[n.kids[order[k]]]]
    BY <2>2, <1>4
  <2>4. IsReordered(n, new[n], new, order)
    BY <1>5, <2>1, <2>3 DEF IsReordered, N
  <2> QED BY <2>4 DEF new
<1>8. CASE n.op \notin {"and", "or", "some"}
  <2>1. new[n] = [n EXCEPT !.kids = kids]
    BY <1>3, <1>8 DEF OptimizeStep
  <2>2. kids = [k \in DOMAIN n.kids |-> new[n.kids[same[k]]]]
    <3> HIDE DEF new
    <3> QED BY <1>2, <1>4
  <2> HIDE DEF new, kids, same
  <2>3. IsReordered(n, new[n], new, same)
    BY <1>6, <2>1, <2>2 DEF IsReordered
  <2> QED BY <2>3 DEF new
<1> QED BY <1>7, <1>8

(* Reordering keeps the shape of a statement.                               *)
LEMMA ReorderedShape ==
    ASSUME NEW n, IsStatement(n), NEW new, NEW kid, NEW order, IsReordered(n, new, kid, order)
    PROVE  /\ IsStatement(new) /\ new.op = n.op
           /\ Len(new.kids) = Len(n.kids) /\ DOMAIN new.kids = DOMAIN n.kids
           /\ \A k \in DOMAIN n.kids : order[k] \in DOMAIN n.kids /\ new.kids[k] = kid[n.kids[order[k]]]
           /\ ToSet(new.kids) = {kid[m] : m \in ToSet(n.kids)}
           /\ n.op = "some" => new.count = n.count
           /\ n.op = "range" => new.feature = n.feature /\ new.min = n.min /\ new.max = n.max
           /\ n.op = "leaf" => new.feature = n.feature
<1> DEFINE N == Len(n.kids)
           kids == [k \in DOMAIN n.kids |-> kid[n.kids[order[k]]]]
<1>1. /\ N \in Nat /\ DOMAIN n.kids = 1 .. N
      /\ {"op", "kids"} \subseteq DOMAIN n
      /\ n.op \in {"and", "or", "not", "some", "range", "subscope", "leaf"}
      /\ n.op \in {"range", "leaf"} => n.kids = <<>>
  BY Shape
<1>2. new = [n EXCEPT !.kids = kids]
  BY DEF IsReordered
<1>3. new.kids = kids /\ new.op = n.op
  BY <1>1, <1>2
<1>4. /\ order \in [1 .. N -> 1 .. N]
      /\ \A i \in 1 .. N : \E k \in 1 .. N : order[k] = i
  BY DEF IsReordered, IsPermutation
<1>5. ToSet(new.kids) = {kid[m] : m \in ToSet(n.kids)}
  <2> HIDE DEF N
  <2>1. ToSet(new.kids) = {kid[n.kids[order[k]]] : k \in 1 .. N}
    BY <1>1, <1>3 DEF ToSet
  <2>2. {kid[m] : m \in ToSet(n.kids)} = {kid[n.kids[i]] : i \in 1 .. N}
    BY <1>1 DEF ToSet
  <2>3. ASSUME NEW i \in 1 .. N
        PROVE  kid[n.kids[i]] \in ToSet(new.kids)
    BY <1>4, <2>1
  <2>4. ASSUME NEW k \in 1 .. N
        PROVE  kid[n.kids[order[k]]] \in {kid[m] : m \in ToSet(n.kids)}
    BY <1>4, <2>2
  <2> QED BY <2>1, <2>2, <2>3, <2>4
<1>6. kids \in [1 .. N -> ToSet(new.kids)] /\ DOMAIN kids = 1 .. N
  BY <1>1, <1>3 DEF ToSet
<1>7. kids \in Seq(ToSet(new.kids)) /\ Len(kids) = N
  <2> HIDE DEF kids, N
  <2> QED BY <1>1, <1>6, SequenceOf
<1>8. \A k \in DOMAIN n.kids : order[k] \in DOMAIN n.kids /\ new.kids[k] = kid[n.kids[order[k]]]
  BY <1>1, <1>3, <1>4
<1> DEFINE Old == Seq(ToSet(n.kids))
           New == Seq(ToSet(new.kids))
<1>9. new.kids \in New /\ Len(new.kids) = N
  BY <1>3, <1>7
<1> HIDE DEF kids, N, Old, New
<1>10. DOMAIN n.kids = DOMAIN new.kids /\ Len(new.kids) = Len(n.kids)
  BY <1>1, <1>3, <1>9 DEF kids, N
<1>11. CASE n.op \in {"and", "or"}
  <2>1. n \in [op : {"and", "or"}, kids : Old]
    BY <1>11 DEF IsStatement, Old
  <2>2. new \in [op : {"and", "or"}, kids : New]
    BY <1>2, <1>3, <1>9, <1>11, <2>1
  <2>3. IsStatement(new)
    BY <2>2 DEF IsStatement, New
  <2> QED BY <1>3, <1>5, <1>8, <1>10, <1>11, <2>3
<1>12. CASE n.op = "some"
  <2>1. n \in [op : {"some"}, count : Nat, kids : Old]
    BY <1>12 DEF IsStatement, Old
  <2>2. new \in [op : {"some"}, count : Nat, kids : New] /\ new.count = n.count
    BY <1>2, <1>3, <1>9, <1>12, <2>1
  <2>3. IsStatement(new)
    BY <2>2 DEF IsStatement, New
  <2> QED BY <1>3, <1>5, <1>8, <1>10, <1>12, <2>2, <2>3
<1>13. CASE n.op = "not"
  <2>1. n \in [op : {"not"}, kids : Old] /\ Len(n.kids) = 1
    BY <1>13 DEF IsStatement, Old
  <2>2. new \in [op : {"not"}, kids : New] /\ Len(new.kids) = 1
    BY <1>2, <1>3, <1>9, <1>10, <1>13, <2>1
  <2>3. IsStatement(new)
    BY <2>2 DEF IsStatement, New
  <2> QED BY <1>3, <1>5, <1>8, <1>10, <1>13, <2>3
<1>14. CASE n.op = "subscope"
  <2>1. n \in [op : {"subscope"}, scope : STRING, kids : Old] /\ Len(n.kids) = 1
    BY <1>14 DEF IsStatement, Old
  <2>2. new \in [op : {"subscope"}, scope : STRING, kids : New] /\ Len(new.kids) = 1
    BY <1>2, <1>3, <1>9, <1>10, <1>14, <2>1
  <2>3. IsStatement(new)
    BY <2>2 DEF IsStatement, New
  <2> QED BY <1>3, <1>5, <1>8, <1>10, <1>14, <2>3
<1>15. CASE n.op \in {"range", "leaf"}
  <2>1. kids = <<>>
    BY <1>1, <1>15 DEF kids
  <2>2. n = new
    <3>1. n \in [op : {"range"}, feature : Feature, min : Nat, max : Nat \union {NoMax}, kids : {<<>>}]
          \/ n \in [op : {"leaf"}, feature : Feature, kids : {<<>>}]
      BY <1>15 DEF IsStatement
    <3> QED BY <1>2, <2>1, <3>1
  <2> QED BY <1>5, <1>8, <1>10, <2>2
<1> QED BY <1>1, <1>11, <1>12, <1>13, <1>14, <1>15

(* The optimised body: its statements are the reordered statements.         *)
LEMMA ReorderedBody ==
    ASSUME NEW body, IsBody(body)
    PROVE  /\ IsBody(OptimizeNode(body))
           /\ Statements(OptimizeNode(body)) = {Reordered(body)[n] : n \in Statements(body)}
<1> DEFINE g == Reordered(body)
           new == OptimizeNode(body)
           K == {k \in Nat : Generations(new)[k] = {g[n] : n \in Generations(body)[k]}}
<1>0. MaxDepth \in Nat
  BY MaxDepthIsNatural
<1>1. new = g[body]
  BY ReorderedAre
<1>2. \A k \in 0 .. MaxDepth : Generations(body)[k] \subseteq Statements(body)
  BY DEF Statements
<1>3. \A n \in Statements(body) :
        IsStatement(g[n]) /\ g[n].op = n.op /\ ToSet(g[n].kids) = {g[m] : m \in ToSet(n.kids)}
  <2> SUFFICES ASSUME NEW n \in Statements(body)
               PROVE  /\ IsStatement(g[n]) /\ g[n].op = n.op
                      /\ ToSet(g[n].kids) = {g[m] : m \in ToSet(n.kids)}
    OBVIOUS
  <2>1. PICK order : IsReordered(n, g[n], g, order)
    BY StatementsAreReordered
  <2>2. IsStatement(n)
    BY DEF IsBody
  <2> HIDE DEF g
  <2> QED BY <2>1, <2>2, ReorderedShape
<1> HIDE DEF g, new
<1>4. 0 \in K
  <2>1. \A b : Generations(b)[0] = {b}
    <3> SUFFICES ASSUME NEW b
                 PROVE  Generations(b)[0] = {b}
      OBVIOUS
    <3>1. Generations(b)[0] = GenerationAt(b, Generations(b), 0)
      BY <1>0, GenerationsAre
    <3> QED BY <3>1 DEF GenerationAt
  <2>2. Generations(body)[0] = {body} /\ Generations(new)[0] = {new}
    BY <2>1
  <2> QED BY <1>1, <2>2
<1>5. ASSUME NEW k \in 0 .. MaxDepth - 1, k \in K
      PROVE  k + 1 \in K
  <2>1. \A b : Generations(b)[k + 1] = UNION {ToSet(m.kids) : m \in Generations(b)[k]}
    <3> SUFFICES ASSUME NEW b
                 PROVE  Generations(b)[k + 1] = UNION {ToSet(m.kids) : m \in Generations(b)[k]}
      OBVIOUS
    <3>1. k + 1 \in 0 .. MaxDepth /\ k + 1 # 0 /\ (k + 1) - 1 = k
      BY <1>0
    <3>2. Generations(b)[k + 1] = GenerationAt(b, Generations(b), k + 1)
      BY <3>1, GenerationsAre
    <3> QED BY <3>1, <3>2 DEF GenerationAt
  <2> DEFINE now == Generations(body)[k]
  <2>2. Generations(new)[k + 1] = UNION {ToSet(m.kids) : m \in {g[n] : n \in now}}
    <3>1. Generations(new)[k] = {g[n] : n \in now}
      BY <1>5
    <3>2. Generations(new)[k + 1] = UNION {ToSet(m.kids) : m \in Generations(new)[k]}
      BY <2>1
    <3> HIDE DEF now
    <3> QED BY <3>1, <3>2
  <2>3. Generations(body)[k + 1] = UNION {ToSet(n.kids) : n \in now}
    BY <2>1
  <2>4. \A n \in now : ToSet(g[n].kids) = {g[m] : m \in ToSet(n.kids)}
    BY <1>0, <1>2, <1>3
  <2> HIDE DEF now
  <2>5. ASSUME NEW x \in Generations(new)[k + 1]
        PROVE  x \in {g[m] : m \in Generations(body)[k + 1]}
    <3>1. PICK n \in now : x \in ToSet(g[n].kids)
      BY <2>2
    <3>2. PICK m \in ToSet(n.kids) : x = g[m]
      BY <2>4, <3>1
    <3>3. m \in Generations(body)[k + 1]
      BY <2>3
    <3> QED BY <3>2, <3>3
  <2>6. ASSUME NEW m \in Generations(body)[k + 1]
        PROVE  g[m] \in Generations(new)[k + 1]
    <3>1. PICK n \in now : m \in ToSet(n.kids)
      BY <2>3
    <3>2. g[m] \in ToSet(g[n].kids)
      BY <2>4, <3>1
    <3> QED BY <2>2, <3>2
  <2>7. Generations(new)[k + 1] = {g[m] : m \in Generations(body)[k + 1]}
    BY <2>5, <2>6
  <2>8. k + 1 \in Nat
    OBVIOUS
  <2> QED BY <2>7, <2>8
<1>6. \A k \in 0 .. MaxDepth : k \in K
  <2>1. \A k \in 0 .. MaxDepth - 1 : k \in K => k + 1 \in K
    BY <1>5
  <2> HIDE DEF K
  <2> QED BY <1>0, <1>4, <2>1, UpTo, Zenon
<1>7. \A k \in 0 .. MaxDepth : Generations(new)[k] = {g[n] : n \in Generations(body)[k]}
  BY <1>6
<1>8. Statements(new) = {g[n] : n \in Statements(body)}
  <2>1. Statements(new) = UNION {Generations(new)[k] : k \in 0 .. MaxDepth}
    BY DEF Statements
  <2>2. Statements(body) = UNION {Generations(body)[k] : k \in 0 .. MaxDepth}
    BY DEF Statements
  <2>3. \A x : x \in Statements(new) <=> \E k \in 0 .. MaxDepth : x \in Generations(new)[k]
    BY <2>1
  <2>4. \A x : x \in Statements(body) <=> \E k \in 0 .. MaxDepth : x \in Generations(body)[k]
    BY <2>2
  <2> QED BY <1>7, <2>3, <2>4
<1>9. \A n \in Statements(new) : IsStatement(n) /\ \A kid \in ToSet(n.kids) : kid.op # "subscope"
  <2> SUFFICES ASSUME NEW n \in Statements(body)
               PROVE  /\ IsStatement(g[n])
                      /\ \A kid \in ToSet(g[n].kids) : kid.op # "subscope"
    BY <1>8
  <2>1. \A kid \in ToSet(n.kids) : kid.op # "subscope" /\ kid \in Statements(body)
    BY Closed DEF IsBody
  <2> QED BY <1>3, <2>1
<1>10. \A n \in Generations(new)[MaxDepth] : n.kids = <<>>
  <2> SUFFICES ASSUME NEW n \in Generations(body)[MaxDepth]
               PROVE  g[n].kids = <<>>
    BY <1>0, <1>7
  <2>1. n \in Statements(body) /\ n.kids = <<>>
    BY <1>0, <1>2 DEF IsBody
  <2>2. PICK order : IsReordered(n, g[n], g, order)
    BY <2>1, StatementsAreReordered DEF g
  <2>3. IsStatement(n) /\ IsStatement(g[n])
    BY <1>3, <2>1 DEF IsBody
  <2>4. Len(g[n].kids) = Len(n.kids)
    BY <2>2, <2>3, ReorderedShape
  <2>5. Len(g[n].kids) = 0
    BY <2>1, <2>4
  <2>6. g[n].kids \in Seq(ToSet(g[n].kids))
    BY <2>3, Shape
  <2> QED BY <2>5, <2>6, EmptySeq
<1> QED BY <1>8, <1>9, <1>10 DEF IsBody, new, g

(* A verdict depends on how many children match, not on which.              *)
LEMMA HoldsForReordered ==
    ASSUME NEW n, IsStatement(n), n.op # "subscope", NEW F,
           NEW new, NEW kid, NEW order, IsReordered(n, new, kid, order),
           NEW yes \in SUBSET DOMAIN n.kids
    PROVE  BoolOutcome(Holds(new, {k \in DOMAIN n.kids : order[k] \in yes}, F)) =
                BoolOutcome(Holds(n, yes, F))
<1> DEFINE N == Len(n.kids)
           moved == {k \in DOMAIN n.kids : order[k] \in yes}
<1>1. /\ N \in Nat /\ DOMAIN n.kids = 1 .. N
      /\ (n.kids = <<>> <=> N = 0)
      /\ n.op \in {"and", "or", "not", "some", "range", "leaf"}
  BY Shape
<1>2. /\ IsStatement(new) /\ new.op = n.op /\ DOMAIN new.kids = DOMAIN n.kids
      /\ Len(new.kids) = N
      /\ n.op = "some" => new.count = n.count
      /\ n.op = "range" => new.feature = n.feature /\ new.min = n.min /\ new.max = n.max
      /\ n.op = "leaf" => new.feature = n.feature
  BY ReorderedShape
<1>3. new.kids = <<>> <=> N = 0
  <2>1. Len(new.kids) = N /\ new.kids \in Seq(ToSet(new.kids))
    BY <1>2, Shape
  <2> QED BY <2>1, EmptySeq
<1>4. /\ order \in [1 .. N -> 1 .. N]
      /\ \A j, k \in 1 .. N : order[j] = order[k] => j = k
      /\ \A i \in 1 .. N : \E k \in 1 .. N : order[k] = i
  BY DEF IsReordered, IsPermutation
<1> HIDE DEF N
<1>5. moved = {} <=> yes = {}
  <2>1. ASSUME NEW k \in moved
        PROVE  order[k] \in yes
    OBVIOUS
  <2>2. ASSUME NEW i \in yes
        PROVE  \E k \in moved : order[k] = i
    BY <1>1, <1>4
  <2> HIDE DEF moved
  <2> QED BY <2>1, <2>2
<1>6. moved = DOMAIN n.kids <=> yes = DOMAIN n.kids
  <2>1. ASSUME yes = DOMAIN n.kids
        PROVE  moved = DOMAIN n.kids
    BY <1>1, <1>4, <2>1
  <2>2. ASSUME moved = DOMAIN n.kids, NEW i \in 1 .. N
        PROVE  i \in yes
    <3>1. PICK k \in 1 .. N : order[k] = i
      BY <1>4
    <3>2. k \in moved
      BY <1>1, <2>2
    <3> QED BY <3>1, <3>2
  <2> HIDE DEF moved
  <2> QED BY <1>1, <2>1, <2>2
<1>7. Cardinality(moved) = Cardinality(yes)
  <2> DEFINE f == [k \in moved |-> order[k]]
  <2>1. moved \in SUBSET (1 .. N)
    BY <1>1
  <2>2. IsFiniteSet(moved)
    <3> HIDE DEF moved
    <3> QED BY <1>1, <2>1, Indices
  <2>3. f \in Bijection(moved, yes)
    <3>1. f \in [moved -> yes]
      OBVIOUS
    <3>2. \A j, k \in moved : f[j] = f[k] => j = k
      BY <1>1, <1>4
    <3>3. \A i \in yes : \E k \in moved : f[k] = i
      BY <1>1, <1>4
    <3> HIDE DEF f, moved
    <3> QED BY <3>1, <3>2, <3>3 DEF Bijection, Injection, Surjection, IsInjective
  <2>4. ExistsBijection(moved, yes)
    <3> HIDE DEF f, moved
    <3> QED BY <2>3 DEF ExistsBijection
  <2> HIDE DEF moved
  <2> QED BY <2>2, <2>4, FS_Bijection
<1> SUFFICES BoolOutcome(Holds(new, moved, F)) = BoolOutcome(Holds(n, yes, F))
  OBVIOUS
<1> HIDE DEF moved
<1>8. CASE n.op = "and"
  BY <1>2, <1>6, <1>8 DEF Holds, BoolOutcome
<1>9. CASE n.op \in {"or", "not"}
  BY <1>2, <1>5, <1>9 DEF Holds, BoolOutcome
<1>10. CASE n.op = "some"
  BY <1>1, <1>2, <1>3, <1>7, <1>10 DEF Holds, BoolOutcome
<1>11. CASE n.op \in {"range", "leaf"}
  BY <1>2, <1>11 DEF Holds, InRange, BoolOutcome
<1> QED BY <1>1, <1>8, <1>9, <1>10, <1>11

LEMMA ReorderedOutcome ==
    ASSUME NEW body, IsBody(body), NEW F
    PROVE  EvaluateBoolean(OptimizeNode(body), F) = EvaluateBoolean(body, F)
<1> DEFINE g == Reordered(body)
           new == OptimizeNode(body)
           value == Outcomes(body, F)
           other == Outcomes(new, F)
           P == {n \in Statements(body) : n.op # "subscope" => other[g[n]] = value[n]}
<1>1. IsBody(new) /\ new = g[body] /\ body \in Statements(body) /\ new \in Statements(new)
  BY ReorderedBody, ReorderedAre, Closed
<1>2. \A n \in Statements(body) : g[n] \in Statements(new)
  BY ReorderedBody
<1>3. ASSUME NEW n \in Statements(body), ToSet(n.kids) \subseteq P, n.op # "subscope"
      PROVE  other[g[n]] = value[n]
  <2> DEFINE yes == Matching(n, value)
  <2>1. IsStatement(n) /\ \A kid \in ToSet(n.kids) : kid.op # "subscope"
    BY DEF IsBody
  <2>2. PICK order : IsReordered(n, g[n], g, order)
    BY StatementsAreReordered
  <2>3. /\ g[n].op = n.op /\ DOMAIN g[n].kids = DOMAIN n.kids
        /\ \A k \in DOMAIN n.kids : order[k] \in DOMAIN n.kids /\ g[n].kids[k] = g[n.kids[order[k]]]
    <3> HIDE DEF g
    <3> QED BY <2>1, <2>2, ReorderedShape
  <2>4. \A k \in DOMAIN n.kids : other[g[n].kids[k]] = value[n.kids[order[k]]]
    <3> SUFFICES ASSUME NEW k \in DOMAIN n.kids
                 PROVE  other[g[n].kids[k]] = value[n.kids[order[k]]]
      OBVIOUS
    <3>1. n.kids[order[k]] \in ToSet(n.kids)
      BY <2>3 DEF ToSet
    <3>2. other[g[n.kids[order[k]]]] = value[n.kids[order[k]]]
      BY <1>3, <2>1, <3>1
    <3> HIDE DEF g, other, value
    <3> QED BY <2>3, <3>2
  <2>5. Matching(g[n], other) = {k \in DOMAIN n.kids : order[k] \in yes}
    <3> HIDE DEF g, other, value
    <3> QED BY <2>3, <2>4 DEF Matching
  <2>6. value[n] = BoolOutcome(Holds(n, yes, F))
    BY <1>3, Verdicts
  <2>7. other[g[n]] = BoolOutcome(Holds(g[n], Matching(g[n], other), F))
    <3>1. g[n].op # "subscope"
      BY <1>3, <2>3
    <3> HIDE DEF g, new
    <3> QED BY <1>1, <1>2, <3>1, Verdicts
  <2>8. yes \in SUBSET DOMAIN n.kids
    BY DEF Matching
  <2> HIDE DEF g, other, value, yes
  <2>9. BoolOutcome(Holds(g[n], {k \in DOMAIN n.kids : order[k] \in yes}, F)) =
            BoolOutcome(Holds(n, yes, F))
    BY <1>3, <2>1, <2>2, <2>8, HoldsForReordered
  <2> QED BY <2>5, <2>6, <2>7, <2>9
<1>4. Statements(body) \subseteq P
  <2>1. \A n \in Statements(body) : ToSet(n.kids) \subseteq P => n \in P
    BY <1>3
  <2> HIDE DEF P
  <2> QED BY <2>1, BodyInduction
<1>5. EvaluateBoolean(body, F) = value[body] /\ EvaluateBoolean(new, F) = other[new]
  <2>1. EvaluateBoolean(body, F) = value[body]
    BY OutcomesAre
  <2> HIDE DEF new
  <2>2. EvaluateBoolean(new, F) = other[new]
    BY <1>1, OutcomesAre
  <2> QED BY <2>1, <2>2
<1>6. CASE body.op # "subscope"
  BY <1>1, <1>4, <1>5, <1>6
<1>7. CASE body.op = "subscope"
  <2>1. PICK order : IsReordered(body, g[body], g, order)
    BY <1>1, StatementsAreReordered
  <2>2. IsStatement(body)
    BY <1>1 DEF IsBody
  <2>3. new.op = "subscope"
    <3> HIDE DEF g
    <3>1. g[body].op = body.op
      BY <2>1, <2>2, ReorderedShape
    <3> QED BY <1>1, <1>7, <3>1
  <2>4. value[body] = BooleanStep(body, Under(body, value), F)
    BY <1>1, OutcomesAre
  <2>5. other[new] = BooleanStep(new, Under(new, other), F)
    <3> HIDE DEF new
    <3> QED BY <1>1, OutcomesAre
  <2> HIDE DEF new, value, other
  <2>6. value[body] = Error /\ other[new] = Error
    BY <1>7, <2>3, <2>4, <2>5 DEF BooleanStep
  <2> QED BY <1>5, <2>6 DEF new
<1> QED BY <1>6, <1>7

(* optimize_node sorts the children of a statement by cost: no rule matches *)
(* or fails that would not have before.                                     *)
THEOREM OptimizerIsInvisible == Spec => []OptimizerPreservesOutcome
<1>1. TypeOK => OptimizerPreservesOutcome
  <2> SUFFICES ASSUME TypeOK
               PROVE  OptimizerPreservesOutcome
    OBVIOUS
  <2>1. IsBody(tree)
    BY TreesAreBodies DEF TypeOK
  <2> QED BY <2>1, ReorderedOutcome DEF OptimizerPreservesOutcome
<1> QED BY <1>1, TypeCorrect, PTL

============================================================================
