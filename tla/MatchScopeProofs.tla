-------------------------- MODULE MatchScopeProofs --------------------------
(***************************************************************************)
(* The indexed matcher equals the linear matcher, for every rule list and  *)
(* every feature set, provided the feature index is sound.                 *)
(***************************************************************************)
EXTENDS MatchScope, TLAPS

\* Publishing the matches of P and then of p is publishing both at once.
LEMMA PublishStep ==
    ASSUME NEW F \in FeatureSets, NEW P \in SUBSET Positions, NEW p \in Positions
    PROVE  Publish(Publish(F, P), {p}) = Publish(F, P \union {p})
<1> DEFINE old == UNION {Published(rules[q]) : q \in P}
           new == UNION {Published(rules[q]) : q \in {p}}
           all == UNION {Published(rules[q]) : q \in P \union {p}}
<1>1. all = old \union new
  OBVIOUS
<1> HIDE DEF old, new, all
<1>2. Insert(Insert(F, old, addr), new, addr) = Insert(F, all, addr)
  BY <1>1 DEF Insert
<1> QED
  BY <1>2 DEF Publish, old, new, all

\* Publishing nothing changes nothing.
LEMMA PublishNothing ==
    ASSUME NEW F \in FeatureSets
    PROVE  Publish(F, {}) = F
<1>1. UNION {Published(rules[q]) : q \in {}} = {}
  OBVIOUS
<1>2. F = [k \in DOMAIN F |-> F[k]]
  BY FunctionsAssumption
<1>3. \A k \in DOMAIN F : (F[k] \union {}) = F[k]
  OBVIOUS
<1>4. Insert(F, {}, addr) = [k \in DOMAIN F |-> F[k]]
  BY <1>3 DEF Insert
<1> QED
  BY <1>1, <1>2, <1>4 DEF Publish

\* The initial state of a match satisfies the invariant.
LEMMA InitInv == Init => Inv
<1> SUFFICES ASSUME Init PROVE Inv
  OBVIOUS
<1>1. rules \in Seq(Rule) /\ input \in FeatureSets
  BY ListsAssumption, InputsAssumption DEF Init
<1>2. TypeOK
  BY <1>1 DEF Init, TypeOK, Positions
<1>3. fs = Publish(input, matched)
  BY <1>1, PublishNothing DEF Init
<1>4. \A p \in Positions : p \in Nat /\ p > 0
  BY <1>1 DEF Positions
<1>5. Behind(position)
  BY <1>4 DEF Init, Behind
<1>6. Ahead
  BY DEF Init, Ahead
<1> QED
  BY <1>2, <1>3, <1>4, <1>5, <1>6 DEF Init, Inv, FailsLikeLinear

\* Positions are natural numbers, and every listed rule is a rule.
LEMMA PositionFacts ==
    ASSUME TypeOK
    PROVE  /\ \A p \in Positions : p \in Nat /\ p > 0 /\ rules[p] \in Rule
           /\ position \in Nat
<1>1. rules \in Seq(Rule)
  BY ListsAssumption DEF TypeOK
<1> QED
  BY <1>1 DEF TypeOK, Positions

\* When position p is popped, every position before it has got the decision
\* of the linear matcher, and the current set is what that matcher has at p.
LEMMA Popped ==
    ASSUME Inv, status = "matching", NEW p \in Positions, IsNext(p)
    PROVE  /\ p > position
           /\ p \notin matched
           /\ LinearSet(p) = fs
           /\ \A q \in Positions : q < p => LinearAt(q) /\ Eval(rules[q], LinearSet(q)) # "error"
<1> USE DEF Inv
<1>1. p > position /\ p \notin matched
  BY PositionFacts DEF IsNext
<1>2. ASSUME NEW q \in Positions, q > position PROVE LinearSet(q) = fs
  <2>1. {r \in matched : r < q} = matched
    BY <1>2, PositionFacts DEF TypeOK
  <2> QED
    BY <2>1 DEF LinearSet
<1>3. ASSUME NEW q \in Positions, q < p
      PROVE  LinearAt(q) /\ Eval(rules[q], LinearSet(q)) # "error"
  <2>1. CASE q <= position
    BY <2>1 DEF Behind
  <2>2. CASE q > position
    <3>1. q \notin candidates
      BY <1>3, PositionFacts DEF IsNext
    <3>2. Eval(rules[q], fs) = "no"
      BY <2>2, <3>1, IndexSound, PositionFacts DEF Ahead, TypeOK
    <3>3. q \notin matched
      BY <2>2, PositionFacts
    <3> QED
      BY <1>2, <2>2, <3>2, <3>3 DEF LinearAt
  <2> QED
    BY <2>1, <2>2, PositionFacts
<1> QED
  BY <1>1, <1>2, <1>3

\* Popping a rule that does not match preserves the invariant.
LEMMA SkipInv ==
    ASSUME Inv, status = "matching", NEW p \in Positions, IsNext(p), position' = p,
           UNCHANGED <<rules, input, addr>>, Skip(p)
    PROVE  Inv'
<1> USE DEF Inv
<1>1. TypeOK'
  BY DEF Skip, TypeOK, Positions
<1>2. fs' = Publish(input, matched)'
  BY DEF Skip, Publish
<1>3. \A q \in Positions : LinearSet(q)' = LinearSet(q)
  BY DEF Skip, LinearSet, Publish
<1>4. Behind(position)'
  <2>1. LinearAt(p) /\ Eval(rules[p], LinearSet(p)) # "error"
    BY Popped DEF LinearAt, Skip
  <2>2. \A q \in Positions : q <= p => LinearAt(q) /\ Eval(rules[q], LinearSet(q)) # "error"
    BY <2>1, Popped, PositionFacts
  <2> QED
    BY <1>3, <2>2 DEF Behind, LinearAt, Skip, Positions
<1>5. (\A q \in matched : q <= position)' /\ (\A q \in candidates : q > position)'
  BY Popped, PositionFacts DEF Skip, IsNext, TypeOK
<1>6. Ahead'
  BY Popped, PositionFacts DEF Skip, Ahead, Positions
<1>7. status' = "matching"
  BY DEF Skip
<1> QED
  BY <1>1, <1>2, <1>4, <1>5, <1>6, <1>7 DEF FailsLikeLinear

\* An error raised by the popped rule is the error of the linear matcher.
LEMMA FailInv ==
    ASSUME Inv, status = "matching", NEW p \in Positions, IsNext(p), position' = p,
           UNCHANGED <<rules, input, addr>>, Fail(p)
    PROVE  Inv'
<1> USE DEF Inv
<1>1. TypeOK'
  BY DEF Fail, TypeOK, Positions
<1>2. fs' = Publish(input, matched)'
  BY DEF Fail, Publish
<1>3. \A q \in Positions : LinearSet(q)' = LinearSet(q)
  BY DEF Fail, LinearSet, Publish
<1>4. FailsLikeLinear'
  BY <1>3, Popped DEF Fail, FailsLikeLinear, LinearAt, Positions
<1>5. (\A q \in matched : q <= position)' /\ (\A q \in candidates : q > position)'
  BY Popped, PositionFacts DEF Fail, IsNext, TypeOK
<1>6. Ahead'
  BY Popped, PositionFacts DEF Fail, Ahead, Positions
<1>7. status' = "error"
  BY DEF Fail
<1> QED
  BY <1>1, <1>2, <1>4, <1>5, <1>6, <1>7

\* A match publishes its features and activates exactly the later rules that
\* the new keys select.
LEMMA MatchInv ==
    ASSUME Inv, status = "matching", NEW p \in Positions, IsNext(p), position' = p,
           UNCHANGED <<rules, input, addr>>, Match(p)
    PROVE  Inv'
<1> USE DEF Inv
<1> DEFINE new == DOMAIN fs' \ DOMAIN fs
<1>1. fs' = Insert(fs, Published(rules[p]), addr)
  BY DEF Match, Publish
<1>2. DOMAIN fs' = DOMAIN fs \union Published(rules[p])
  BY <1>1 DEF Insert
<1>3. fs' \in FeatureSets
  BY <1>1, ClosedAssumption, PositionFacts DEF TypeOK
<1>4. TypeOK'
  <2>1. Activated(p, new) \subseteq Positions
    BY DEF Activated
  <2> QED
    BY <1>3, <2>1 DEF Match, TypeOK, Positions
<1>5. fs' = Publish(input, matched)'
  <2>1. fs' = Publish(fs, {p})
    BY DEF Match
  <2>2. Publish(Publish(input, matched), {p}) = Publish(input, matched \union {p})
    <3>1. input \in FeatureSets /\ matched \in SUBSET Positions
      BY InputsAssumption DEF TypeOK
    <3> QED
      BY <3>1, PublishStep
  <2>3. Publish(input, matched)' = Publish(input, matched \union {p})
    BY DEF Match, Publish
  <2> QED
    BY <2>1, <2>2, <2>3
<1>6. ASSUME NEW q \in Positions, q <= p PROVE LinearSet(q)' = LinearSet(q)
  <2>1. {r \in matched' : r < q} = {r \in matched : r < q}
    BY <1>6, PositionFacts DEF Match, TypeOK
  <2> QED
    BY <2>1 DEF LinearSet, Publish
<1>7. Behind(position)'
  <2>1. \A q \in Positions : q <= p =>
          ((q \in matched') <=> Eval(rules[q], LinearSet(q)) = "yes") /\ Eval(rules[q], LinearSet(q)) # "error"
    BY Popped, PositionFacts DEF Match, LinearAt
  <2> QED
    BY <1>6, <2>1 DEF Behind, LinearAt, Match, Positions
<1>8. (\A q \in matched : q <= position)' /\ (\A q \in candidates : q > position)'
  BY Popped, PositionFacts DEF Match, IsNext, TypeOK, Activated
<1>9. Ahead'
  <2> SUFFICES ASSUME NEW q \in Positions, q > p
               PROVE  q \in candidates' <=> Selected(rules[q], DOMAIN fs')
    BY DEF Ahead, Match, Positions, Selected
  <2>1. q > position /\ q # p
    BY Popped, PositionFacts
  <2>2. q \in candidates <=> Selected(rules[q], DOMAIN fs)
    BY <2>1 DEF Ahead
  <2>3. q \in candidates' <=> q \in candidates \/ \E key \in new : key \in Alts(rules[q])
    BY <2>1 DEF Match, Activated
  <2>4. \A key \in new : \A alt \in Alts(rules[q]) : Opens(alt, key) <=> alt = key
    BY <1>2, PublishedExact, PositionFacts
  <2>5. Selected(rules[q], DOMAIN fs') <=>
          Selected(rules[q], DOMAIN fs) \/ \E alt \in Alts(rules[q]) : \E key \in new : Opens(alt, key)
    BY <1>2 DEF Selected
  <2> QED
    BY <2>2, <2>3, <2>4, <2>5
<1>10. status' = "matching"
  BY DEF Match
<1> QED
  BY <1>4, <1>5, <1>7, <1>8, <1>9, <1>10 DEF FailsLikeLinear

\* Every step of the match preserves the invariant.
LEMMA NextInv == Inv /\ [Next]_vars => Inv'
<1> SUFFICES ASSUME Inv, [Next]_vars PROVE Inv'
  OBVIOUS
<1>1. CASE Step
  BY <1>1, SkipInv, FailInv, MatchInv DEF Step
<1>2. CASE Finish
  <2>1. TypeOK' /\ Ahead' /\ FailsLikeLinear'
    BY <1>2 DEF Inv, Finish, TypeOK, Ahead, FailsLikeLinear, Positions, Selected
  <2>2. fs' = Publish(input, matched)' /\ Behind(position)'
    BY <1>2 DEF Inv, Finish, Publish, Behind, LinearAt, LinearSet, Positions
  <2> QED
    BY <1>2, <2>1, <2>2 DEF Inv, Finish
<1>3. CASE UNCHANGED vars
  <2>1. TypeOK' /\ Ahead'
    BY <1>3 DEF Inv, vars, TypeOK, Ahead, Positions, Selected
  <2>2. fs' = Publish(input, matched)' /\ (Behind(position) <=> Behind(position)')
    BY <1>3 DEF Inv, vars, Publish, Behind, LinearAt, LinearSet, Positions
  <2>3. FailsLikeLinear'
    BY <1>3 DEF Inv, vars, FailsLikeLinear, Publish, LinearAt, LinearSet, Positions
  <2> QED
    BY <1>3, <2>1, <2>2, <2>3 DEF Inv, vars
<1> QED
  BY <1>1, <1>2, <1>3 DEF Next, Returned

\* The invariant holds in every reachable state of every match.
THEOREM Invariance == Spec => []Inv
BY InitInv, NextInv, PTL DEF Spec

\* Type correctness of the matching loop.
THEOREM TypeCorrect == Spec => []TypeOK
<1>1. Inv => TypeOK
  BY DEF Inv
<1> QED
  BY <1>1, Invariance, PTL

\* The rules that match are those the linear matcher matches.
THEOREM IndexedIsLinear == Spec => []MatchesLikeLinear
<1>1. Inv => MatchesLikeLinear
  <2> SUFFICES ASSUME Inv, status = "done", NEW p \in Positions
               PROVE  LinearAt(p) /\ Eval(rules[p], LinearSet(p)) # "error"
    BY DEF Inv, MatchesLikeLinear
  <2> USE DEF Inv
  <2>1. CASE p <= position
    BY <2>1 DEF Behind
  <2>2. CASE p > position
    <3>1. Eval(rules[p], fs) = "no"
      BY <2>2, IndexSound, PositionFacts DEF Ahead, TypeOK
    <3>2. {q \in matched : q < p} = matched /\ p \notin matched
      BY <2>2, PositionFacts DEF TypeOK
    <3> QED
      BY <3>1, <3>2 DEF LinearAt, LinearSet
  <2> QED
    BY <2>1, <2>2, PositionFacts
<1> QED
  BY <1>1, Invariance, PTL

\* A failing match fails at the rule where the linear matcher fails.
THEOREM IndexedFailsLinear == Spec => []FailsLikeLinear
<1>1. Inv => FailsLikeLinear
  BY DEF Inv
<1> QED
  BY <1>1, Invariance, PTL
=============================================================================
