---------------------------- MODULE RecordProofs ----------------------------
(* Proofs about what code recovery records, for every set of images and     *)
(* every bound: the call graph is closed (CallGraphIsClosed), which says    *)
(* that the target of every walked call in executable memory is a function  *)
(* of the result, waits for good, is noted as too large, or is a mere       *)
(* pattern that was passed over; and the typed locations stay disjoint      *)
(* (TypedLocationsAreDisjoint).                                             *)
(*                                                                          *)
(* The first argument goes from the instruction to the function: the walk   *)
(* that met the call returns its target, the target is seeded as one, and a *)
(* seed that is no mere pattern is queued, started, walked or finished. The *)
(* second follows every list of intervals from the step that makes it to    *)
(* the one that takes it up: instructions, scans, tables and pointers.      *)
EXTENDS RecoveryProofs

(* A walk was given up.                                                     *)
Cut == \E d \in an.diags : d[2] = "abandoned"

(* A function that is walked, waits, is finished, or is too large for that. *)
Held(t) == t \in Due(walk) \cup graph.delayed \cup DOMAIN graph.completed \/ TooLarge(t)

(* A seed is held, started or queued, or a mere pattern that was popped in  *)
(* walked code.                                                             *)
Placed(t) == t \in main.starts \cup ToSet(main.pending)
Shelved(t) == t \in main.skipped /\ an.seeds[t] \subseteq SignatureKinds
Served(t) == Held(t) \/ Placed(t) \/ Shelved(t) \/ PassedOver(t)

(* Every executable seed is. *)
SeedsAreTaken ==
    main.pc # "pass" /\ ~main.told /\ ~Cut => \A t \in DOMAIN an.seeds \cap img.exec : Served(t)

(* A function that was finished once is held. *)
OrderIsHeld ==
    /\ IsSeq(an.forder)
    /\ main.pc # "pass" /\ ~Cut => \A t \in ToSet(an.forder) \cap img.exec : Held(t)

(* A suspended instruction is recorded, its edges are still to be walked.   *)
Awaits(a) ==
    /\ a # None /\ ~IsUndecodable(a)
    /\ \/ Task("opcode", a) \in ToSet(walk.tasks)
       \/ walk.at = a /\ walk.resume

(* A walked call is returned by the walk, seeded, or not yet resumed.       *)
CallsAreNoted ==
    ~Cut => \A a \in an.insns : CallsExecutable(a) =>
        \/ img.at[a].direct \in walk.calls
        \/ "call" \in KindsAt(an.seeds, img.at[a].direct)
        \/ Awaits(a)

(* Three loops walk.                                                        *)
Callers == walk.on => walk.caller \in {"main", "import", "plt"}

CInv ==
    /\ SeedsAreTaken /\ OrderIsHeld /\ CallsAreNoted /\ Callers
    /\ CallGraphIsClosed

----------------------------------------------------------------------------
(* What a step of a walk does to these *)

SameSeeds(t) == t \in DOMAIN an.seeds /\ an'.seeds[t] = an.seeds[t]

(* The target of a call is returned by the walk.                            *)
Called(a) == CallsExecutable(a) => img.at[a].direct \in walk'.calls

(* What was held stays so, and so becomes what is seeded or finished.       *)
Holds ==
    /\ \A t \in img.exec : Held(t) => Held(t)'
    /\ \A t \in DOMAIN an'.seeds \cap img.exec : Held(t)' \/ SameSeeds(t)
    /\ \A t \in ToSet(an'.forder) \cap img.exec : Held(t)' \/ t \in ToSet(an.forder)

Minds ==
    /\ walk'.caller = walk.caller
    /\ IsSeq(an'.forder)
    /\ \A a \in an'.insns : a \in an.insns \/ Awaits(a)' \/ Called(a)
    /\ \A a : Awaits(a) => Awaits(a)' \/ Called(a)
    /\ Cut' \/ Holds

(* The tasks s hold those of t.                                             *)
Has(s, t) == IsSeq(s) /\ ToSet(t) \subseteq ToSet(s)

(* Pushing tasks in front of others, or behind them, loses none.            *)
LEMMA Onto ==
    ASSUME NEW rest, IsSeq(rest)
    PROVE  /\ Has(rest, rest)
           /\ \A front : IsSeq(front) => Has(front \o rest, rest) /\ Has(rest \o front, rest)
           /\ \A front : IsSeq(front) => Has(front \o rest, front)
<1>1. \A front : IsSeq(front) =>
         /\ IsSeq(front \o rest) /\ ToSet(front \o rest) = ToSet(front) \cup ToSet(rest)
         /\ IsSeq(rest \o front) /\ ToSet(rest \o front) = ToSet(rest) \cup ToSet(front)
  BY Concatenation
<1> QED BY <1>1 DEF Has

(* The tasks that are pushed are sequences.                                 *)
LEMMA PushedAreSequences ==
    /\ \A targets : IsSeq(Paths(targets))
    /\ \A a : IsSeq(<<Path(a)>>)
    /\ \A list : IsSeq(Batch("callback", list))
    /\ \A ops : IsSeq(<<Pointers(ops)>>)
    /\ \A kind, a : IsSeq(<<Task(kind, a)>>)
<1>1. ASSUME NEW kind, NEW list
      PROVE  IsSeq(Batch(kind, list))
  BY Short DEF Batch
<1> QED BY <1>1, Short DEF Paths

(* A callee is finished before the other tasks.                             *)
LEMMA DescendHas ==
    ASSUME NEW target, NEW tasks, IsSeq(tasks)
    PROVE  /\ Has(Descend(target, tasks), tasks)
           /\ target \in Finishers(ToSet(Descend(target, tasks)))
<1> DEFINE front == <<Path(target), Task("finish", target)>>
<1>1. IsSeq(front) /\ ToSet(front) = {Path(target), Task("finish", target)}
  BY Short
<1>2. Has(front \o tasks, front) /\ Has(front \o tasks, tasks)
  BY <1>1, Onto
<1>3. Task("finish", target) \in ToSet(Descend(target, tasks))
  BY <1>1, <1>2 DEF Has, Descend
<1>4. Task("finish", target).kind = "finish" /\ Task("finish", target).a = target
  BY DEF Task
<1> QED BY <1>2, <1>3, <1>4 DEF Descend, Finishers

(* A step keeps the tasks but the first one, and what waits.                *)
KeepsRest ==
    /\ walk.at = None /\ walk.tasks # <<>>
    /\ walk'.caller = walk.caller
    /\ Has(walk'.tasks, Rest)

(* What that leaves to finish and to resume. *)
LEMMA RestIsKept ==
    ASSUME Walkable, KeepsRest, UNCHANGED img, graph'.compat = graph.compat
    PROVE  /\ \A a : Awaits(a) => Awaits(a)' \/ Head(walk.tasks) = Task("opcode", a)
           /\ \A f \in Finishers(ToSet(walk.tasks)) :
                 \/ f \in Finishers(ToSet(walk'.tasks))
                 \/ Head(walk.tasks).kind = "finish" /\ Head(walk.tasks).a = f
<1>1. ToSet(walk.tasks) = {Head(walk.tasks)} \cup ToSet(Rest)
  BY HeadAndTail DEF Walkable, KeepsRest, Rest
<1>2. ToSet(walk.tasks) \subseteq {Head(walk.tasks)} \cup ToSet(walk'.tasks)
  BY <1>1 DEF KeepsRest, Has
<1>3. \A a : IsUndecodable(a)' <=> IsUndecodable(a)
  BY DEF IsUndecodable
<1>4. ASSUME NEW a, Awaits(a)
      PROVE  Awaits(a)' \/ Head(walk.tasks) = Task("opcode", a)
  BY <1>2, <1>3, <1>4 DEF Awaits, KeepsRest
<1>5. ASSUME NEW f \in Finishers(ToSet(walk.tasks))
      PROVE  \/ f \in Finishers(ToSet(walk'.tasks))
             \/ Head(walk.tasks).kind = "finish" /\ Head(walk.tasks).a = f
  BY <1>2, <1>5 DEF Finishers
<1> QED BY <1>4, <1>5

(* What is too large stays so.                                              *)
LEMMA LargeStays ==
    ASSUME Keeps
    PROVE  \A t : TooLarge(t) => TooLarge(t)'
BY DEF Keeps, Gains, TooLarge

(* Seeds are those of before, but for one address that is held.             *)
SeedsHeld ==
    an'.seeds = an.seeds
    \/ \E t, kind : an'.seeds = AddSeed(an.seeds, t, kind) /\ (t \in img.exec => Held(t)')

(* A seed that is not held is the one it was. *)
LEMMA SeedsHeldAreHeld ==
    ASSUME SeedsHeld
    PROVE  \A t \in DOMAIN an'.seeds \cap img.exec : Held(t)' \/ SameSeeds(t)
<1>1. ASSUME NEW u, NEW kind, an'.seeds = AddSeed(an.seeds, u, kind), u \in img.exec => Held(u)',
             NEW t \in DOMAIN an'.seeds \cap img.exec
      PROVE  Held(t)' \/ SameSeeds(t)
  <2>1. /\ DOMAIN an'.seeds = DOMAIN an.seeds \cup {u}
        /\ t # u => an'.seeds[t] = an.seeds[t]
    BY <1>1 DEF AddSeed, Insert
  <2>2. CASE t = u
    BY <1>1, <2>2
  <2>3. CASE t # u
    BY <2>1, <2>3 DEF SameSeeds
  <2> QED BY <2>2, <2>3
<1>2. an'.seeds = an.seeds => \A t \in DOMAIN an'.seeds : SameSeeds(t)
  BY DEF SameSeeds
<1> QED BY <1>1, <1>2 DEF SeedsHeld

(* The step of a task that finishes nothing. *)
LEMMA TaskMinds ==
    ASSUME Walkable, Keeps, KeepsRest, UNCHANGED img, graph'.compat = graph.compat,
           Head(walk.tasks).kind # "finish",
           \A a : Head(walk.tasks) = Task("opcode", a) /\ a # None /\ ~IsUndecodable(a) => Awaits(a)',
           \A t \in img.exec : t \in DOMAIN walk.delayed =>
              t \in DOMAIN walk'.delayed \cup Finishers(ToSet(walk'.tasks)),
           graph'.delayed = graph.delayed, DOMAIN graph'.completed = DOMAIN graph.completed,
           IsSeq(an.forder), an'.forder = an.forder, an'.insns = an.insns, SeedsHeld
    PROVE  Minds
<1>1. \A a : Awaits(a) => Awaits(a)'
  BY RestIsKept DEF Awaits
<1>2. \A t \in img.exec : Held(t) => Held(t)'
  BY RestIsKept, LargeStays DEF Held, Due
<1>3. Holds
  BY <1>2, SeedsHeldAreHeld DEF Holds
<1> QED BY <1>1, <1>3 DEF Minds, KeepsRest

(* Paths, calls that resume, callbacks, locals. *)
LEMMA PathMinds ==
    ASSUME Walkable, Keeps, Owes, IsSeq(an.forder), TakePath \/ ResumeCall
    PROVE  Minds
<1>1. /\ walk.on /\ walk.at = None /\ walk.tasks # <<>> /\ UNCHANGED <<img, main>>
      /\ DOMAIN walk = WalkFields /\ graph'.compat = graph.compat /\ graph'.delayed = graph.delayed
      /\ Head(walk.tasks).kind # "finish"
  BY DEF Walkable, TakePath, ResumeCall, AtTask, Keeps, KnownGrows, Owes
<1>2. IsSeq(Rest)
  BY <1>1, HeadAndTail DEF Walkable, Rest
<1>3. graph'.completed = graph.completed
  <2>1. graph' = graph \/ \E succ : graph' = [graph EXCEPT !.succ = succ]
    BY Zenon DEF TakePath, ResumeCall
  <2> QED BY <2>1 DEF Walkable, Fields, GraphFields
<1>4. an'.forder = an.forder /\ an'.insns = an.insns /\ an'.seeds = an.seeds
  <2>1. an' = an \/ \E cuts, xrefs : an' = [an EXCEPT !.noretCalls = cuts, !.xrefs = xrefs]
    BY Zenon DEF TakePath, ResumeCall
  <2> QED BY <2>1 DEF Walkable, Fields, AnalysisFields
<1> DEFINE Moved(tasks, at, resume) ==
             /\ walk' = [walk EXCEPT !.tasks = tasks, !.at = at, !.resume = resume]
             /\ tasks = Rest \/ (\E list : tasks = Paths(list) \o Rest) \/ (\E a : tasks = <<Path(a)>> \o Rest)
             /\ Head(walk.tasks).kind = "opcode" => at = Head(walk.tasks).a /\ resume
<1>5. \E tasks, at, resume : Moved(tasks, at, resume)
  <2>1. CASE TakePath
    <3> DEFINE left == Tail(Head(walk.tasks).list)
               head == Head(Head(walk.tasks).list)
    <3>1. \/ /\ Head(walk.tasks).kind = "path"
             /\ walk' = [walk EXCEPT !.tasks = Paths(left) \o Rest, !.at = head, !.resume = FALSE]
          \/ walk' = [walk EXCEPT !.tasks = Rest, !.at = Head(walk.tasks).a, !.resume = TRUE]
      BY <2>1 DEF TakePath, AtTask
    <3> HIDE DEF left, head
    <3>2. \/ Moved(Paths(left) \o Rest, head, FALSE)
          \/ Moved(Rest, Head(walk.tasks).a, TRUE)
      BY <3>1
    <3> HIDE DEF Moved
    <3> QED BY <3>2
  <2>2. CASE ResumeCall
    <3>1. /\ Head(walk.tasks).kind = "call"
          /\ \E tasks : /\ walk' = [walk EXCEPT !.tasks = tasks]
                        /\ tasks = Rest \/ \E a : tasks = <<Path(a)>> \o Rest
      BY <2>2 DEF ResumeCall, Remaining, AtTask
    <3>2. PICK tasks : /\ walk' = [walk EXCEPT !.tasks = tasks]
                       /\ tasks = Rest \/ \E a : tasks = <<Path(a)>> \o Rest
      BY <3>1
    <3>3. walk' = [walk EXCEPT !.tasks = tasks, !.at = walk.at, !.resume = walk.resume]
      BY <1>1, <3>2 DEF WalkFields
    <3>4. Moved(tasks, walk.at, walk.resume)
      BY <3>1, <3>2, <3>3
    <3> HIDE DEF Moved
    <3> QED BY <3>4
  <2> QED BY <2>1, <2>2
<1>6. PICK tasks, at, resume : Moved(tasks, at, resume)
  BY <1>5
<1>7. /\ walk'.tasks = tasks /\ walk'.at = at /\ walk'.resume = resume
      /\ walk'.caller = walk.caller /\ walk'.delayed = walk.delayed
  BY <1>1, <1>6 DEF WalkFields
<1>8. Has(tasks, Rest)
  BY <1>2, <1>6, Onto, PushedAreSequences
<1>9. KeepsRest
  BY <1>1, <1>7, <1>8 DEF KeepsRest
<1>10. ASSUME NEW a, Head(walk.tasks) = Task("opcode", a), a # None, ~IsUndecodable(a)
       PROVE  Awaits(a)'
  <2>1. at = a /\ resume
    BY <1>6, <1>10 DEF Task
  <2>2. ~IsUndecodable(a)'
    BY <1>1, <1>10, Zenon DEF IsUndecodable
  <2> QED BY <1>7, <1>10, <2>1, <2>2 DEF Awaits
<1> QED BY <1>1, <1>3, <1>4, <1>7, <1>9, <1>10, TaskMinds DEF SeedsHeld

(* A callee is seeded and walked, or nothing but the task goes.             *)
LEMMA CalleeMinds ==
    ASSUME Walkable, Keeps, Owes, IsSeq(an.forder), walk.at = None, walk.tasks # <<>>,
           UNCHANGED graph, Head(walk.tasks).kind \notin {"finish", "opcode"},
           NEW later, Has(later, Rest), NEW t, NEW kind,
           an'.forder = an.forder, an'.insns = an.insns,
           \/ an'.seeds = an.seeds /\ walk' = [walk EXCEPT !.tasks = later]
           \/ /\ an'.seeds \in {an.seeds, AddSeed(an.seeds, t, kind)}
              /\ walk' = [walk EXCEPT !.calls = @ \cup {t}, !.tasks = Descend(t, later)]
           \/ /\ an'.seeds \in {an.seeds, AddSeed(an.seeds, t, kind)} /\ walk' = [walk EXCEPT !.tasks = later]
              /\ t \in img.exec => t \in DOMAIN graph.completed \/ t \in Finishers(ToSet(later))
    PROVE  Minds
<1>1. DOMAIN walk = WalkFields /\ UNCHANGED img
  BY DEF Walkable, Owes
<1>2. Has(Descend(t, later), Rest) /\ t \in Finishers(ToSet(Descend(t, later)))
  BY DescendHas DEF Has
<1>3. /\ walk'.caller = walk.caller /\ walk'.delayed = walk.delayed
      /\ \/ an'.seeds = an.seeds /\ walk'.tasks = later
         \/ an'.seeds \in {an.seeds, AddSeed(an.seeds, t, kind)} /\ walk'.tasks = Descend(t, later)
         \/ /\ an'.seeds \in {an.seeds, AddSeed(an.seeds, t, kind)} /\ walk'.tasks = later
            /\ t \in img.exec => t \in DOMAIN graph.completed \/ t \in Finishers(ToSet(later))
  <2> DEFINE calls == walk.calls \cup {t}
             down == Descend(t, later)
  <2>1. \/ walk' = [walk EXCEPT !.tasks = later]
        \/ walk' = [walk EXCEPT !.calls = calls, !.tasks = down]
    OBVIOUS
  <2>2. walk' = [walk EXCEPT !.tasks = later] => walk'.tasks = later
    BY <1>1 DEF WalkFields
  <2>3. walk' = [walk EXCEPT !.calls = calls, !.tasks = down] => walk'.tasks = down
    <3> HIDE DEF calls, down
    <3> QED BY <1>1 DEF WalkFields
  <2>4. walk'.caller = walk.caller /\ walk'.delayed = walk.delayed
    <3> HIDE DEF calls, down
    <3> QED BY <1>1, <2>1 DEF WalkFields
  <2> QED BY <2>2, <2>3, <2>4
<1>4. KeepsRest
  BY <1>2, <1>3 DEF KeepsRest
<1>5. SeedsHeld
  <2>1. t \in DOMAIN graph.completed \cup Finishers(ToSet(walk'.tasks)) => Held(t)'
    BY DEF Held, Due
  <2> QED BY <1>2, <1>3, <2>1 DEF SeedsHeld
<1> QED BY <1>1, <1>3, <1>4, <1>5, TaskMinds DEF Task

(* Callees and callbacks that calling analysis found, and locals.           *)
LEMMA FoundMinds ==
    ASSUME Walkable, Keeps, Owes, IsSeq(an.forder), CallbackTarget \/ FlirtLocal
    PROVE  Minds
<1>1. /\ walk.at = None /\ walk.tasks # <<>> /\ UNCHANGED graph
      /\ Head(walk.tasks).kind \notin {"finish", "opcode"}
  BY DEF CallbackTarget, FlirtLocal, AtTask
<1>2. IsSeq(Rest)
  BY <1>1, HeadAndTail DEF Walkable, Rest
<1>3. \E later, t, kind :
         /\ Has(later, Rest)
         /\ \/ an' = an /\ walk' = [walk EXCEPT !.tasks = later]
            \/ /\ an' = [an EXCEPT !.seeds = AddSeed(@, t, kind)]
               /\ walk' = [walk EXCEPT !.calls = @ \cup {t}, !.tasks = Descend(t, later)]
  <2>1. CASE CallbackTarget
    <3> DEFINE list == Tail(Head(walk.tasks).list)
               later == Batch("callback", list) \o Rest
               t == Head(walk.tasks).list[1][1]
               kind == Head(walk.tasks).list[1][2]
    <3>1. \/ an' = an /\ walk' = [walk EXCEPT !.tasks = later]
          \/ /\ an' = [an EXCEPT !.seeds = AddSeed(@, t, kind)]
             /\ walk' = [walk EXCEPT !.calls = @ \cup {t}, !.tasks = Descend(t, later)]
      BY <2>1 DEF CallbackTarget, Remaining
    <3>2. Has(later, Rest)
      BY <1>2, Onto, PushedAreSequences
    <3> HIDE DEF later, t, kind
    <3> QED BY <3>1, <3>2
  <2>2. CASE FlirtLocal
    <3> DEFINE t == Head(walk.tasks).a
    <3>1. \/ an' = an /\ walk' = [walk EXCEPT !.tasks = Rest]
          \/ /\ an' = [an EXCEPT !.seeds = AddSeed(@, t, "local")]
             /\ walk' = [walk EXCEPT !.calls = @ \cup {t}, !.tasks = Descend(t, Rest)]
      BY <2>2 DEF FlirtLocal, Remaining
    <3>2. Has(Rest, Rest)
      BY <1>2, Onto
    <3> HIDE DEF t
    <3> QED BY <3>1, <3>2
  <2> QED BY <2>1, <2>2
<1>4. PICK later, t, kind :
         /\ Has(later, Rest)
         /\ \/ an' = an /\ walk' = [walk EXCEPT !.tasks = later]
            \/ /\ an' = [an EXCEPT !.seeds = AddSeed(@, t, kind)]
               /\ walk' = [walk EXCEPT !.calls = @ \cup {t}, !.tasks = Descend(t, later)]
  BY <1>3
<1>5. CASE an' = an /\ walk' = [walk EXCEPT !.tasks = later]
  BY <1>1, <1>4, <1>5, CalleeMinds
<1>6. CASE /\ an' = [an EXCEPT !.seeds = AddSeed(@, t, kind)]
           /\ walk' = [walk EXCEPT !.calls = @ \cup {t}, !.tasks = Descend(t, later)]
  <2>1. an'.forder = an.forder /\ an'.insns = an.insns /\ an'.seeds = AddSeed(an.seeds, t, kind)
    BY <1>6 DEF Walkable, Fields, AnalysisFields
  <2> QED BY <1>1, <1>4, <1>6, <2>1, CalleeMinds
<1> QED BY <1>4, <1>5, <1>6

(* Following a pointer seeds its target at most, and returns it then.       *)
LEMMA FollowSeeds ==
    ASSUME NEW i, NEW x, DOMAIN x = AnalysisFields, NEW p, NEW t, NEW n
    PROVE  LET r == FollowObservedPointer(i, x, p, t, n)
           IN  /\ DOMAIN r.an = AnalysisFields
               /\ r.an.forder = x.forder /\ r.an.insns = x.insns
               /\ r.an.seeds \in {x.seeds, AddSeed(x.seeds, r.target, "pointer")}
<1> DEFINE Fits(r) == /\ DOMAIN r.an = AnalysisFields
                      /\ r.an.forder = x.forder /\ r.an.insns = x.insns
                      /\ r.an.seeds \in {x.seeds, AddSeed(x.seeds, r.target, "pointer")}
           seeded == [x EXCEPT !.seeds = AddSeed(@, t, "pointer")]
           taken == [p EXCEPT !.cand = @ \ {<<"pointer", t>>}]
           added == AddCandidate(i, x, taken, t, "emulated")
           tried == [added EXCEPT !.tried = @ \cup {<<"pointer", t>>}]
           judge(verdict) ==
             CASE verdict = "code" -> Followed_(seeded, tried, t)
               [] verdict = "inconclusive" -> Followed_(Diagnose(x, t, "inconclusive"), tried, None)
               [] OTHER -> Followed_(x, tried, None)
           text == StringSize(i, x, tried, t)
           result ==
             IF <<"pointer", t>> \notin p.cand THEN Followed_(x, p, None)
             ELSE IF Cardinality(p.tried) >= MaxCandidates
                  THEN Followed_(Diagnose(x, t, "candidates"), taken, None)
             ELSE IF \/ <<"pointer", t>> \in p.tried
                     \/ Covered(i, x, t) \/ InData(p.data, t) \/ InImport(i, t)
                  THEN Followed_(x, tried, None)
             ELSE IF text # 0 THEN Followed_(x, MarkNoncode(tried, t, text), None)
             ELSE judge(IF "signature" \in KindsAt(x.seeds, t) THEN "code"
                        ELSE EvaluateCandidate(i, x, t, n, tried.data))
<1>1. FollowObservedPointer(i, x, p, t, n) = result
  BY DEF FollowObservedPointer
<1>2. ASSUME NEW q
      PROVE  /\ Fits(Followed_(x, q, None)) /\ Fits(Followed_(seeded, q, t))
             /\ \A what : Fits(Followed_(Diagnose(x, t, what), q, None))
  BY DEF Followed_, AnalysisFields, Diagnose
<1> HIDE DEF taken, added, tried, seeded, text, Fits
<1>3. ASSUME NEW v
      PROVE  Fits(judge(v))
  BY <1>2
<1>4. Fits(result)
  <2> HIDE DEF judge
  <2> QED BY <1>2, <1>3
<1> HIDE DEF result
<1> QED BY <1>1, <1>4 DEF Fits

(* FollowPointers, one operand. *)
LEMMA FollowMinds ==
    ASSUME Walkable, Keeps, Owes, IsSeq(an.forder), FollowPointers
    PROVE  Minds
<1> DEFINE ops == Head(walk.tasks).operands
           seen == ObserveInstruction(img, an, ptr, ops[1][1], FALSE).p
           r == FollowObservedPointer(img, an, seen, ops[1][2], graph.known)
           tail == <<Pointers(Tail(ops))>> \o Rest
           later == IF Len(ops) = 1 THEN Rest ELSE tail
<1>1. /\ walk.at = None /\ walk.tasks # <<>> /\ UNCHANGED <<img, graph>>
      /\ Head(walk.tasks).kind \notin {"finish", "opcode"}
      /\ DOMAIN an = AnalysisFields /\ img.exec \subseteq Addr
  BY DEF FollowPointers, AtTask, Walkable, Fields
<1>2. IsSeq(Rest) /\ Has(Rest, Rest) /\ Has(tail, Rest) /\ Has(later, Rest)
  <2>1. IsSeq(Rest)
    BY <1>1, HeadAndTail DEF Walkable, Rest
  <2>2. Has(Rest, Rest) /\ Has(tail, Rest)
    BY <2>1, Onto, PushedAreSequences
  <2> QED BY <2>1, <2>2
<1>3. \/ walk' = [walk EXCEPT !.tasks = Rest] /\ an' = an
      \/ /\ an' = r.an
         /\ \/ /\ walk' = [walk EXCEPT !.tasks = later]
               /\ r.target = None \/ r.target \in DOMAIN graph.completed \/ IsActive(Rest, r.target)
            \/ walk' = [walk EXCEPT !.calls = @ \cup {r.target}, !.tasks = Descend(r.target, tail)]
  <2>1. \/ walk' = Remaining(Rest) /\ an' = an
        \/ \E q \in {r} :
              /\ an' = q.an
              /\ IF q.target = None \/ q.target \in DOMAIN graph.completed \/ IsActive(Rest, q.target)
                 THEN walk' = Remaining(later)
                 ELSE walk' = [walk EXCEPT !.calls = @ \cup {q.target}, !.tasks = Descend(q.target, tail)]
    BY DEF FollowPointers
  <2> HIDE DEF r, later, tail
  <2> QED BY <2>1 DEF Remaining
<1>4. /\ r.an.forder = an.forder /\ r.an.insns = an.insns
      /\ r.an.seeds \in {an.seeds, AddSeed(an.seeds, r.target, "pointer")}
  <2> HIDE DEF seen, ops
  <2>1. \A t : LET q == FollowObservedPointer(img, an, seen, t, graph.known)
               IN  /\ q.an.forder = an.forder /\ q.an.insns = an.insns
                   /\ q.an.seeds \in {an.seeds, AddSeed(an.seeds, q.target, "pointer")}
    BY <1>1, FollowSeeds
  <2> QED BY <2>1
<1>5. IsActive(Rest, r.target) => r.target \in Finishers(ToSet(later))
  <2>1. ASSUME NEW f, IsActive(Rest, f)
        PROVE  f \in Finishers(ToSet(Rest))
    BY <2>1 DEF IsActive, Finishers, ToSet, Task
  <2>2. ToSet(Rest) \subseteq ToSet(later)
    BY <1>2 DEF Has
  <2> QED BY <2>1, <2>2 DEF Finishers
<1>6. None \notin img.exec
  BY <1>1, ImageAssumption DEF Addr
<1> HIDE DEF r, later, tail
<1>7. CASE walk' = [walk EXCEPT !.tasks = Rest] /\ an' = an
  BY <1>1, <1>2, <1>7, CalleeMinds
<1>8. CASE an' = r.an /\ walk' = [walk EXCEPT !.tasks = later]
           /\ (r.target = None \/ r.target \in DOMAIN graph.completed \/ IsActive(Rest, r.target))
  BY <1>1, <1>2, <1>4, <1>5, <1>6, <1>8, CalleeMinds
<1>9. CASE an' = r.an
           /\ walk' = [walk EXCEPT !.calls = @ \cup {r.target}, !.tasks = Descend(r.target, tail)]
  BY <1>1, <1>2, <1>4, <1>9, CalleeMinds
<1> QED BY <1>3, <1>7, <1>8, <1>9

(* The locals of a recognised function become tasks. *)
LEMMA FinalizeMinds ==
    ASSUME Walkable, Keeps, Owes, IsSeq(an.forder), FinalizeFunction
    PROVE  Minds
<1> DEFINE f == Head(walk.tasks).a
           locals == Ascending(FlirtLocals(f))
           first == [i \in DOMAIN locals |-> Task("local", locals[i])]
           release == IF f \in walk.released THEN <<>> ELSE <<Task("release", f)>>
           tasks == first \o release \o Rest
<1>1. /\ walk.at = None /\ walk.tasks # <<>> /\ UNCHANGED <<img, main>>
      /\ Head(walk.tasks).kind = "finalize" /\ DOMAIN walk = WalkFields
      /\ graph'.delayed = graph.delayed /\ graph'.compat = graph.compat
  BY DEF Walkable, FinalizeFunction, AtTask, Owes, Keeps, KnownGrows
<1>2. graph'.completed = graph.completed
  <2>1. \E known, done : graph' = [graph EXCEPT !.known = known, !.recognized = done]
    <3>1. graph' = [graph EXCEPT !.known = Learned(f),
                                 !.recognized = @ \cup ({f} \cap DOMAIN img.locals)]
      BY DEF FinalizeFunction
    <3> QED BY <3>1
  <2> QED BY <2>1 DEF Walkable, Fields, GraphFields
<1>3. an'.forder = an.forder /\ an'.insns = an.insns /\ an'.seeds = an.seeds
  <2>1. an' = [an EXCEPT !.flirtCounts = Insert(@, f, Len(an.forder)),
                         !.locationCounts = Insert(@, f, Len(an.order))]
    BY DEF FinalizeFunction
  <2> QED BY <2>1 DEF Walkable, Fields, AnalysisFields
<1>4. walk' = [walk EXCEPT !.released = @ \ {f}, !.tasks = tasks]
  BY DEF FinalizeFunction
<1>5. Has(tasks, Rest)
  <2>1. IsSeq(first)
    <3>1. Lists(first, {})
      BY AscendingHasAll, ManyTasks
    <3> QED BY <3>1 DEF Lists
  <2>2. IsSeq(release)
    BY Short
  <2>3. IsSeq(Rest)
    BY <1>1, HeadAndTail DEF Walkable, Rest
  <2> HIDE DEF first, release
  <2>4. IsSeq(first \o release) /\ tasks = (first \o release) \o Rest
    BY <2>1, <2>2, Concatenation
  <2> QED BY <2>3, <2>4, Onto
<1> HIDE DEF tasks
<1>6. walk'.tasks = tasks /\ walk'.caller = walk.caller /\ walk'.delayed = walk.delayed
  BY <1>1, <1>4 DEF WalkFields
<1>7. KeepsRest
  BY <1>1, <1>5, <1>6 DEF KeepsRest
<1> QED BY <1>1, <1>2, <1>3, <1>6, <1>7, TaskMinds DEF SeedsHeld, Task

(* Functions that waited are finished. *)
LEMMA ReleaseMinds ==
    ASSUME Walkable, Keeps, Owes, IsSeq(an.forder), ReleaseDelayed
    PROVE  Minds
<1> DEFINE f == Head(walk.tasks).a
           waits == [g \in DOMAIN walk.delayed |-> walk.delayed[g] \ {f}]
           ready == {g \in DOMAIN waits : waits[g] = {}}
           left == [g \in DOMAIN waits \ ready |-> waits[g]]
           order == Ascending(ready)
           first == [i \in DOMAIN order |-> Task("finish", order[i])]
           tasks == first \o Rest
<1>1. /\ walk.at = None /\ walk.tasks # <<>> /\ UNCHANGED <<img, main, graph>>
      /\ Head(walk.tasks).kind = "release" /\ DOMAIN walk = WalkFields /\ img.exec \subseteq Addr
  BY DEF Walkable, ReleaseDelayed, AtTask, Fields
<1>2. walk' = [walk EXCEPT !.delayed = left, !.released = @ \cup ready, !.tasks = tasks]
  BY Zenon DEF ReleaseDelayed
<1>3. an'.forder = an.forder /\ an'.insns = an.insns /\ an'.seeds = an.seeds
  <2>1. an' = [an EXCEPT !.analysisCounts = Insert(@, f, Len(an.forder))]
    BY DEF ReleaseDelayed
  <2> QED BY <2>1 DEF Walkable, Fields, AnalysisFields
<1>4. DOMAIN walk.delayed \subseteq DOMAIN left \cup ready
  OBVIOUS
<1>5. Has(tasks, Rest) /\ Has(tasks, first) /\ ready \cap Addr \subseteq Finishers(ToSet(first))
  <2>1. IsSeq(order) /\ ToSet(order) = ready \cap Addr
    BY AscendingHasAll
  <2> HIDE DEF order, ready
  <2>2. IsSeq(first)
    <3>1. Lists(first, ToSet(order))
      BY <2>1, ManyTasks
    <3> QED BY <3>1 DEF Lists
  <2>3. ready \cap Addr \subseteq Finishers(ToSet(first))
    <3> SUFFICES ASSUME NEW i \in DOMAIN order
                 PROVE  order[i] \in Finishers(ToSet(first))
      BY <2>1 DEF ToSet
    <3>1. first[i] = Task("finish", order[i]) /\ i \in DOMAIN first
      OBVIOUS
    <3>2. Task("finish", order[i]) \in ToSet(first)
      BY <3>1 DEF ToSet
    <3>3. Task("finish", order[i]).kind = "finish" /\ Task("finish", order[i]).a = order[i]
      BY DEF Task
    <3> QED BY <3>2, <3>3 DEF Finishers
  <2>4. IsSeq(Rest)
    BY <1>1, HeadAndTail DEF Walkable, Rest
  <2> HIDE DEF first
  <2> QED BY <2>2, <2>3, <2>4, Onto
<1> HIDE DEF tasks, left, ready, first
<1>6. walk'.tasks = tasks /\ walk'.caller = walk.caller /\ walk'.delayed = left
  BY <1>1, <1>2 DEF WalkFields
<1>7. KeepsRest
  BY <1>1, <1>5, <1>6 DEF KeepsRest
<1>8. \A t \in img.exec : t \in DOMAIN walk.delayed =>
         t \in DOMAIN walk'.delayed \cup Finishers(ToSet(walk'.tasks))
  BY <1>1, <1>4, <1>5, <1>6 DEF Has, Finishers
<1> QED BY <1>1, <1>3, <1>7, <1>8, TaskMinds DEF SeedsHeld, Task

(* A note about an orphaned pointer touches nothing else. *)
LEMMA NotedMinds ==
    ASSUME Fields, NEW a
    PROVE  /\ DOMAIN Noted(a) = AnalysisFields
           /\ Noted(a).seeds = an.seeds /\ Noted(a).forder = an.forder /\ Noted(a).insns = an.insns
<1>1. Noted(a) = an \/ \E what : Noted(a) = Diagnose(an, a, what)
  BY DEF Noted
<1> QED BY <1>1 DEF Fields, Diagnose, AnalysisFields

(* A path ends: in front of what is no code, or of what does not decode.    *)
LEMMA PathEndMinds ==
    ASSUME Walkable, Keeps, Owes, IsSeq(an.forder), StopPath \/ RejectInstruction
    PROVE  Minds
<1>1. /\ UNCHANGED <<img, graph>> /\ DOMAIN walk = WalkFields /\ Fields
      /\ \E failed : walk' = [walk EXCEPT !.at = None, !.failed = failed]
      /\ ~walk.resume \/ IsUndecodable(walk.at)
  BY DEF Walkable, StopPath, RejectInstruction
<1>2. /\ walk'.tasks = walk.tasks /\ walk'.delayed = walk.delayed /\ walk'.caller = walk.caller
      /\ walk'.at = None
  BY <1>1 DEF WalkFields
<1>3. an'.seeds = an.seeds /\ an'.forder = an.forder /\ an'.insns = an.insns
  <2>1. an' = Noted(walk.at) \/ \E what : an' = Diagnose(Noted(walk.at), walk.at, what)
    BY DEF StopPath, RejectInstruction
  <2>2. \A what : LET x == Diagnose(Noted(walk.at), walk.at, what)
                  IN  x.seeds = an.seeds /\ x.forder = an.forder /\ x.insns = an.insns
    BY <1>1, NotedMinds DEF Diagnose, AnalysisFields
  <2> QED BY <1>1, <2>1, <2>2, NotedMinds
<1>4. \A a : Awaits(a) => Awaits(a)'
  <2> SUFFICES ASSUME NEW a, Awaits(a)
               PROVE  Awaits(a)'
    OBVIOUS
  <2>1. ~IsUndecodable(a)'
    BY <1>1, Zenon DEF Awaits, IsUndecodable
  <2> QED BY <1>1, <1>2, <2>1 DEF Awaits
<1>5. Holds
  <2>1. \A t : Held(t) => Held(t)'
    BY <1>1, <1>2, LargeStays DEF Held, Due
  <2> QED BY <1>3, <2>1 DEF Holds, SameSeeds
<1> QED BY <1>2, <1>3, <1>4, <1>5 DEF Minds

----------------------------------------------------------------------------
(* A function is finished *)

(* The record r of a function f that is being finished: only f may have     *)
(* come to the order, or lost its extent, and no code was added.            *)
Places(r, f) ==
    /\ DOMAIN r = {"an", "graph", "ptr", "tasks", "blocks", "retyping"}
    /\ DOMAIN r.an = AnalysisFields
    /\ r.an.seeds = an.seeds /\ r.an.insns \subseteq an.insns
    /\ IsSeq(r.an.forder) /\ ToSet(r.an.forder) \subseteq ToSet(an.forder) \cup {f}
    /\ Has(r.tasks, Rest)
    /\ DOMAIN r.graph = GraphFields /\ r.graph.delayed = graph.delayed
    /\ DOMAIN graph.completed \subseteq DOMAIN r.graph.completed \cup {f}

(* Then f has an extent, is finished again, or is too large.                *)
Settled(r, f) ==
    \/ f \in DOMAIN r.graph.completed
    \/ f \in Finishers(ToSet(r.tasks))
    \/ <<f, "extent not preserved">> \in r.an.diags

(* The extent of f is stored, or said to be too large. *)
LEMMA ExtentSettles ==
    ASSUME NEW r, NEW f, Places(r, f), NEW view
    PROVE  Places(WithExtent(r, f, view), f) /\ Settled(WithExtent(r, f, view), f)
<1> DEFINE noted == Diagnose(r.an, f, "extent not preserved")
           blocks == Installed(view.blocks, Deleted(r, f))
           gone == IF Deleted(r, f) = {} THEN {} ELSE {Min(Deleted(r, f))}
           an1 == [r.an EXCEPT !.functions = Insert(@, f, blocks),
                               !.diags = @ \cup {<<a, "deleted block">> : a \in gone}]
           graph1 == [r.graph EXCEPT !.completed = IF f \in DOMAIN @ THEN @ ELSE Insert(@, f, blocks)]
<1>1. WithExtent(r, f, view) = IF view.oversized THEN [r EXCEPT !.an = noted]
                               ELSE [r EXCEPT !.an = an1, !.graph = graph1]
  BY Zenon DEF WithExtent
<1>2. /\ DOMAIN graph1 = GraphFields /\ graph1.delayed = graph.delayed
      /\ DOMAIN graph1.completed = DOMAIN r.graph.completed \cup {f}
  <2> HIDE DEF blocks
  <2>1. DOMAIN Insert(r.graph.completed, f, blocks) = DOMAIN r.graph.completed \cup {f}
    BY DomainOfInsert
  <2> QED BY <2>1 DEF Places, GraphFields
<1>3. /\ DOMAIN noted = AnalysisFields /\ noted.seeds = r.an.seeds /\ noted.insns = r.an.insns
      /\ noted.forder = r.an.forder /\ <<f, "extent not preserved">> \in noted.diags
  BY DEF Places, Diagnose, AnalysisFields
<1>4. /\ DOMAIN an1 = AnalysisFields /\ an1.seeds = r.an.seeds /\ an1.insns = r.an.insns
      /\ an1.forder = r.an.forder
  <2> HIDE DEF blocks, gone
  <2> QED BY DEF Places, AnalysisFields
<1> HIDE DEF noted, an1, graph1
<1> DEFINE large == [r EXCEPT !.an = noted]
           stored == [r EXCEPT !.an = an1, !.graph = graph1]
<1>5. Places(large, f) /\ Settled(large, f)
  <2>1. DOMAIN large = DOMAIN r /\ large.an = noted /\ large.graph = r.graph /\ large.tasks = r.tasks
    BY DEF Places
  <2> HIDE DEF large
  <2>2. Places(large, f)
    BY <1>3, <2>1 DEF Places
  <2>3. Settled(large, f)
    BY <1>3, <2>1 DEF Settled
  <2> QED BY <2>2, <2>3
<1>6. Places(stored, f) /\ Settled(stored, f)
  <2>1. DOMAIN stored = DOMAIN r /\ stored.an = an1 /\ stored.graph = graph1 /\ stored.tasks = r.tasks
    BY DEF Places
  <2> HIDE DEF stored
  <2> QED BY <1>2, <1>4, <2>1 DEF Places, Settled
<1> HIDE DEF large, stored
<1> QED BY <1>1, <1>5, <1>6 DEF large, stored

(* Calling analysis that takes the extent back finishes the function again. *)
LEMMA CallsSettle ==
    ASSUME NEW r, NEW f, Places(r, f), Settled(r, f)
    PROVE  Places(AnalyzeCalls(r, f), f) /\ Settled(AnalyzeCalls(r, f), f)
<1> DEFINE d == Discover(img, r.an, r.ptr, f, graph.known)
           q == ResolveSwitches(r.an, d.xrefs, d.switches)
           finish == <<Task("finish", f)>>
           last == IF q.arms = <<>> THEN <<Task("finalize", f)>> ELSE Paths(q.arms) \o finish
           first == Batch("callback", d.targets) \o <<Pointers(d.operands)>>
           left == Batch("callback", d.targets) \o <<Pointers(d.operands)>> \o last
           an1 == [r.an EXCEPT !.xrefs = q.xrefs, !.diags = @ \cup d.diags]
           graph1 == [r.graph EXCEPT !.succ = q.succ, !.tables = q.tables,
                                     !.completed = IF q.arms = <<>> THEN @ ELSE Without(@, f)]
           found == [r EXCEPT !.an = an1, !.graph = graph1, !.ptr = d.p, !.tasks = left \o @]
           open == [r EXCEPT !.tasks = <<Task("finalize", f)>> \o @]
<1>1. AnalyzeCalls(r, f) = IF graph.compat /\ CallingEnabled(img) THEN found ELSE open
  BY Zenon DEF AnalyzeCalls
<1>2. IsSeq(r.tasks) /\ Has(r.tasks, Rest)
  BY DEF Places, Has
<1>3. ASSUME NEW front, IsSeq(front)
      PROVE  /\ Has(front \o r.tasks, Rest) /\ Has(front \o r.tasks, front)
             /\ Has(front \o r.tasks, r.tasks)
  BY <1>2, <1>3, Onto DEF Has
<1>4. f \in Finishers(ToSet(finish))
  BY Short DEF Finishers, Task
<1>5. IsSeq(left) /\ (q.arms # <<>> => f \in Finishers(ToSet(left)))
  <2> HIDE DEF d, q
  <2>0. IsSeq(finish) /\ IsSeq(Paths(q.arms)) /\ IsSeq(<<Task("finalize", f)>>)
    BY PushedAreSequences DEF finish
  <2>1. IsSeq(last) /\ (q.arms # <<>> => Has(last, finish))
    BY <2>0, Onto DEF Has
  <2>2. IsSeq(first)
    BY PushedAreSequences, Concatenation
  <2> HIDE DEF first, last, finish
  <2>3. IsSeq(first \o last) /\ Has(first \o last, last)
    BY <2>1, <2>2, Onto DEF Has
  <2>4. left = first \o last
    BY DEF first
  <2> QED BY <1>4, <2>1, <2>3, <2>4 DEF Has, Finishers
<1>6. /\ DOMAIN graph1 = GraphFields /\ graph1.delayed = graph.delayed
      /\ DOMAIN graph.completed \subseteq DOMAIN graph1.completed \cup {f}
      /\ q.arms = <<>> => graph1.completed = r.graph.completed
  <2> HIDE DEF d, q
  <2>1. DOMAIN Without(r.graph.completed, f) = DOMAIN r.graph.completed \ {f}
    BY DEF Without
  <2> QED BY <2>1 DEF Places, GraphFields
<1>7. /\ DOMAIN an1 = AnalysisFields /\ an1.seeds = r.an.seeds /\ an1.insns = r.an.insns
      /\ an1.forder = r.an.forder /\ r.an.diags \subseteq an1.diags
  <2> HIDE DEF d, q
  <2> QED BY DEF Places, AnalysisFields
<1>8. Places(found, f) /\ Settled(found, f)
  <2> HIDE DEF d, q, left, an1, graph1, finish
  <2>1. /\ DOMAIN found = DOMAIN r /\ found.an = an1 /\ found.graph = graph1
        /\ found.tasks = left \o r.tasks
    BY DEF Places
  <2>2. Has(left \o r.tasks, Rest) /\ Has(left \o r.tasks, left) /\ Has(left \o r.tasks, r.tasks)
    BY <1>3, <1>5
  <2> HIDE DEF found
  <2>3. Places(found, f)
    BY <1>6, <1>7, <2>1, <2>2 DEF Places
  <2>4. Settled(found, f)
    BY <1>5, <1>6, <1>7, <2>1, <2>2 DEF Settled, Has, Finishers
  <2> QED BY <2>3, <2>4
<1>9. Places(open, f) /\ Settled(open, f)
  <2> DEFINE tasks == <<Task("finalize", f)>> \o r.tasks
  <2>1. Has(tasks, Rest) /\ Has(tasks, r.tasks)
    BY <1>3, PushedAreSequences
  <2>2. DOMAIN open = DOMAIN r /\ open.an = r.an /\ open.graph = r.graph /\ open.tasks = tasks
    BY DEF Places
  <2> HIDE DEF open, tasks
  <2> QED BY <2>1, <2>2 DEF Places, Settled, Has, Finishers
<1> HIDE DEF found, open
<1> QED BY <1>1, <1>8, <1>9

(* FinishFunction, whichever of its outcomes. *)
LEMMA FinishSettles ==
    ASSUME Fields, NEW f, NEW w, IsSeq(Rest), IsSeq(an.forder)
    PROVE  Places(FinishPrepared(f, w), f) /\ Settled(FinishPrepared(f, w), f)
<1> DEFINE an1 == Prepared(Ordered(f), w)
           r == Finishing(an1, w.p, Insert(walk.blocks, f, w.seen))
           view == IF w.result = "failed" THEN View(<<>>) ELSE BuildFunctionView(img, r.an, graph, f, FALSE)
           front == <<Path(w.at), Task("finish", f)>>
           more == [r EXCEPT !.retyping = @ \cup {f}, !.tasks = front \o @]
<1>1. /\ DOMAIN an1 = AnalysisFields /\ an1.seeds = an.seeds /\ an1.insns \subseteq an.insns
      /\ IsSeq(an1.forder) /\ ToSet(an1.forder) \subseteq ToSet(an.forder) \cup {f}
  <2>1. /\ DOMAIN Ordered(f) = AnalysisFields /\ Ordered(f).insns = an.insns
        /\ Ordered(f).seeds = an.seeds
        /\ Ordered(f).forder \in {an.forder, Append(an.forder, f)}
    BY DEF Ordered, Fields, AnalysisFields
  <2>2. /\ DOMAIN an1 = AnalysisFields /\ an1.insns \subseteq an.insns
        /\ an1.seeds = an.seeds /\ an1.forder = Ordered(f).forder
    BY <2>1 DEF Prepared, AnalysisFields
  <2>3. ASSUME NEW s \in {an.forder, Append(an.forder, f)}
        PROVE  IsSeq(s) /\ ToSet(s) \subseteq ToSet(an.forder) \cup {f}
    BY Appending
  <2> QED BY <2>1, <2>2, <2>3
<1>2. Places(r, f)
  <2> HIDE DEF an1
  <2> QED BY <1>1, Onto DEF Finishing, Places, Fields
<1>3. FinishPrepared(f, w) = IF w.result = "retype" THEN more ELSE CompleteFunction(r, f, view)
  BY DEF FinishPrepared
<1> HIDE DEF an1, r
<1>4. Places(more, f) /\ Settled(more, f)
  <2>1. IsSeq(front) /\ f \in Finishers(ToSet(front))
    BY Short DEF Finishers, Task
  <2>2. IsSeq(r.tasks) /\ Has(r.tasks, Rest)
    BY <1>2 DEF Places, Has
  <2> DEFINE tasks == front \o r.tasks
  <2> HIDE DEF front
  <2>3. Has(tasks, Rest) /\ Has(tasks, front)
    BY <2>1, <2>2, Onto DEF Has
  <2>4. DOMAIN more = DOMAIN r /\ more.an = r.an /\ more.graph = r.graph /\ more.tasks = tasks
    BY <1>2 DEF Places
  <2> HIDE DEF more, tasks
  <2> QED BY <1>2, <2>1, <2>3, <2>4 DEF Places, Settled, Has, Finishers
<1>5. Places(CompleteFunction(r, f, view), f) /\ Settled(CompleteFunction(r, f, view), f)
  <2> DEFINE x == WithExtent(r, f, view)
             padded == [x EXCEPT !.ptr = FunctionCompleted(img, x.an, x.ptr, f)]
  <2>1. CompleteFunction(r, f, view) = AnalyzeCalls(padded, f)
    BY Zenon DEF CompleteFunction
  <2>2. Places(x, f) /\ Settled(x, f)
    BY <1>2, ExtentSettles
  <2>3. Places(padded, f) /\ Settled(padded, f)
    <3> HIDE DEF x
    <3>1. DOMAIN padded = DOMAIN x /\ padded.an = x.an /\ padded.graph = x.graph /\ padded.tasks = x.tasks
      BY <2>2 DEF Places
    <3> HIDE DEF padded
    <3> QED BY <2>2, <3>1 DEF Places, Settled
  <2> HIDE DEF padded
  <2> QED BY <2>1, <2>3, CallsSettle
<1> HIDE DEF more
<1> QED BY <1>3, <1>4, <1>5

(* A function that is finished is held from then on.                        *)
LEMMA FinishMinds ==
    ASSUME Walkable, Keeps, Owes, IsSeq(an.forder), FinishFunction
    PROVE  Minds
<1>0. PICK f : f = Head(walk.tasks).a
  OBVIOUS
<1>1. /\ walk.on /\ walk.at = None /\ walk.tasks # <<>> /\ UNCHANGED <<img, main>>
      /\ DOMAIN walk = WalkFields /\ Fields /\ Head(walk.tasks).kind = "finish"
      /\ graph'.compat = graph.compat
  BY DEF Walkable, FinishFunction, AtTask, Keeps, KnownGrows
<1>2. IsSeq(Rest) /\ Has(Rest, Rest)
  <2>1. IsSeq(Rest)
    BY <1>1, HeadAndTail DEF Walkable, Rest
  <2> QED BY <2>1, Onto
<1>3. \/ /\ walk' = Remaining(Rest) /\ UNCHANGED <<an, graph>>
         /\ f \in DOMAIN walk.delayed \cup DOMAIN graph.completed
      \/ \E w : LET r == FinishPrepared(f, w)
                IN  /\ an' = r.an /\ graph' = r.graph
                    /\ walk' = [walk EXCEPT !.tasks = r.tasks, !.blocks = r.blocks,
                                            !.retyping = r.retyping, !.failed = @ \ {f}]
  <2> DEFINE unprepared == [Preparation(f, an, ptr, BlocksSeen(f)) EXCEPT !.result = "failed"]
             prepared == IF f \in walk.failed THEN unprepared
                         ELSE PrepareFunctionCode(img, Ordered(f), graph, ptr, f, BlocksSeen(f))
  <2>1. \/ /\ walk' = Remaining(Rest) /\ UNCHANGED <<an, graph>>
           /\ f \in DOMAIN walk.delayed \cup DOMAIN graph.completed
        \/ \E r \in {FinishPrepared(f, prepared)} :
              /\ an' = r.an /\ graph' = r.graph
              /\ walk' = [walk EXCEPT !.tasks = r.tasks, !.blocks = r.blocks,
                                      !.retyping = r.retyping, !.failed = @ \ {f}]
    BY <1>0 DEF FinishFunction
  <2> HIDE DEF prepared
  <2> QED BY <2>1
<1>4. CASE /\ walk' = Remaining(Rest) /\ UNCHANGED <<an, graph>>
           /\ f \in DOMAIN walk.delayed \cup DOMAIN graph.completed
  <2>1. /\ walk'.tasks = Rest /\ walk'.delayed = walk.delayed /\ walk'.caller = walk.caller
    BY <1>1, <1>4 DEF Remaining, WalkFields
  <2>2. KeepsRest
    BY <1>1, <1>2, <2>1 DEF KeepsRest
  <2>3. \A a : Awaits(a) => Awaits(a)'
    <3>1. \A a : Head(walk.tasks) # Task("opcode", a)
      BY <1>1 DEF Task
    <3> QED BY <1>1, <2>2, <3>1, RestIsKept
  <2>4. \A t : Held(t) => Held(t)'
    BY <1>0, <1>1, <1>4, <2>1, <2>2, RestIsKept, LargeStays DEF Held, Due
  <2>5. Holds
    BY <1>4, <2>4 DEF Holds, SameSeeds
  <2> QED BY <1>4, <2>1, <2>3, <2>5 DEF Minds
<1>5. ASSUME NEW r, Places(r, f), Settled(r, f), an' = r.an, graph' = r.graph,
             walk' = [walk EXCEPT !.tasks = r.tasks, !.blocks = r.blocks,
                                  !.retyping = r.retyping, !.failed = @ \ {f}]
      PROVE  Minds
  <2>1. walk'.tasks = r.tasks /\ walk'.delayed = walk.delayed /\ walk'.caller = walk.caller
    BY <1>1, <1>5 DEF WalkFields
  <2>2. KeepsRest
    BY <1>1, <1>5, <2>1 DEF KeepsRest, Places
  <2>3. \A a : Awaits(a) => Awaits(a)'
    <3>1. \A a : Head(walk.tasks) # Task("opcode", a)
      BY <1>1 DEF Task
    <3> QED BY <1>1, <2>2, <3>1, RestIsKept
  <2>4. Held(f)'
    BY <1>5, <2>1 DEF Settled, TooLarge, Held, Due
  <2>5. \A t : Held(t) => Held(t)' \/ t = f
    BY <1>0, <1>1, <1>5, <2>1, <2>2, RestIsKept, LargeStays DEF Held, Due, Places
  <2>6. Holds
    BY <1>5, <2>4, <2>5 DEF Holds, SameSeeds, Places
  <2> QED BY <1>5, <2>1, <2>3, <2>6 DEF Minds, Places
<1>6. \A w : Places(FinishPrepared(f, w), f) /\ Settled(FinishPrepared(f, w), f)
  BY <1>1, <1>2, FinishSettles
<1> QED BY <1>3, <1>4, <1>5, <1>6

----------------------------------------------------------------------------
(* The step of a walk over an instruction *)

(* The analysis r.an with the instruction at a, before its edges are taken. *)
Reads(r, a) ==
    /\ DOMAIN r.an = AnalysisFields
    /\ r.an.forder = an.forder /\ r.an.insns = an.insns \cup {a}
    /\ r.an.seeds \in {an.seeds, AddSeed(an.seeds, r.target, "pointer")}

(* Recording an instruction seeds the pointer it reads at most.             *)
LEMMA RecordReads ==
    ASSUME Fields, NEW a
    PROVE  Reads(Record(a), a)
<1> DEFINE op == img.at[a]
           mem(x) == IF op.mem = None THEN x ELSE PushXref(x, op.mem, a)
           imms(x) == IF graph.compat
                      THEN FoldLeft(LAMBDA y, t : IF t \in img.mapped THEN PushXref(y, t, a) ELSE y,
                                    x, op.imms)
                      ELSE x
           an1 == [Noted(a) EXCEPT !.drefs = imms(mem(@)), !.insns = @ \cup {a},
                                   !.order = IF Contains(@, a) THEN @ ELSE Append(@, a)]
           o == ObserveInstruction(img, an1, MarkCode(ptr, a, NextOf(img, a)), a, TRUE)
<1>1. /\ DOMAIN an1 = AnalysisFields /\ an1.insns = an.insns \cup {a}
      /\ an1.seeds = an.seeds /\ an1.forder = an.forder
  <2> HIDE DEF mem, imms
  <2> QED BY NotedMinds DEF AnalysisFields
<1>2. Record(a) \in {Followed_(an1, o.p, None), Followed_(an1, ptr, None),
                     FollowObservedPointer(img, an1, o.p, o.target, graph.known)}
  BY Zenon DEF Record
<1>3. \A q : Followed_(an1, q, None).an = an1
  BY DEF Followed_
<1>4. LET r == FollowObservedPointer(img, an1, o.p, o.target, graph.known)
      IN  /\ DOMAIN r.an = AnalysisFields
          /\ r.an.forder = an1.forder /\ r.an.insns = an1.insns
          /\ r.an.seeds \in {an1.seeds, AddSeed(an1.seeds, r.target, "pointer")}
  <2> HIDE DEF an1, o
  <2> QED BY <1>1, FollowSeeds
<1> HIDE DEF an1, o
<1> QED BY <1>1, <1>2, <1>3, <1>4 DEF Reads

(* The edges of the instruction are taken, and it calls what it calls.      *)
Steps(r) ==
    /\ walk'.caller = walk.caller
    /\ Has(walk'.tasks, walk.tasks)
    /\ DOMAIN walk.delayed \subseteq DOMAIN walk'.delayed
    /\ graph'.delayed = graph.delayed /\ DOMAIN graph'.completed = DOMAIN graph.completed
    /\ an'.seeds = r.an.seeds /\ an'.forder = r.an.forder /\ an'.insns = r.an.insns
    /\ Called(walk.at)

(* The pointer that was read was finished once, or is active, when the      *)
(* instruction is not suspended.                                            *)
LEMMA StepsMind ==
    ASSUME Walkable, Keeps, Owes, OrderIsHeld, main.pc # "pass",
           NEW r, Reads(r, walk.at), ~IsSuspended(r), Steps(r)
    PROVE  Minds
<1>1. UNCHANGED img /\ graph'.compat = graph.compat /\ img.exec \subseteq Addr /\ IsSeq(an.forder)
  BY DEF Owes, Keeps, KnownGrows, Walkable, Fields, OrderIsHeld
<1>2. ASSUME NEW a, Awaits(a)
      PROVE  Awaits(a)' \/ Called(a)
  <2>1. ~IsUndecodable(a)'
    BY <1>1, <1>2, Zenon DEF Awaits, IsUndecodable
  <2>2. Task("opcode", a) \in ToSet(walk.tasks) => Awaits(a)'
    BY <1>2, <2>1 DEF Awaits, Steps, Has
  <2>3. a = walk.at => Called(a)
    BY DEF Steps
  <2> QED BY <1>2, <2>2, <2>3 DEF Awaits
<1>3. \A t : Held(t) => Held(t)'
  BY LargeStays DEF Held, Due, Finishers, Steps, Has
<1>4. Cut' \/ (r.target \in img.exec => Held(r.target)')
  <2> SUFFICES ASSUME r.target \in img.exec, ~Cut'
               PROVE  Held(r.target)'
    OBVIOUS
  <2>1. ~Cut
    BY DEF Cut, Keeps, Gains
  <2>2. CASE Contains(an.forder, r.target)
    <3>1. r.target \in ToSet(an.forder)
      <4>1. DOMAIN an.forder = 1..Len(an.forder)
        BY <1>1, SeqOver DEF IsSeq
      <4> QED BY <2>2, <4>1 DEF Contains, ToSet
    <3>2. Held(r.target)
      BY <2>1, <3>1 DEF OrderIsHeld
    <3> QED BY <1>3, <3>2
  <2>3. CASE IsActive(walk.tasks, r.target)
    <3>1. r.target \in Finishers(ToSet(walk.tasks))
      BY <2>3 DEF IsActive, Finishers, ToSet, Task
    <3>2. Held(r.target)
      BY <3>1 DEF Held, Due
    <3> QED BY <1>3, <3>2
  <2>4. r.target # None
    BY <1>1, ImageAssumption DEF Addr
  <2> QED BY <2>2, <2>3, <2>4 DEF IsSuspended
<1>5. Cut' \/ Holds
  <2>1. an'.seeds \in {an.seeds, AddSeed(an.seeds, r.target, "pointer")}
    BY DEF Steps, Reads
  <2>2. Cut' \/ SeedsHeld
    BY <1>4, <2>1 DEF SeedsHeld
  <2> QED BY <1>3, <2>2, SeedsHeldAreHeld DEF Holds, Steps, Reads
<1> QED BY <1>1, <1>2, <1>5 DEF Minds, Steps, Reads

(* A walk that goes on has the caller that it had. *)
LEMMA GoesOnFor ==
    ASSUME Walkable
    PROVE  \A at, tasks : GoOn(at, tasks).caller = walk.caller
BY DEF Walkable, GoOn, Counted, WalkFields

(* New paths leave the tasks that there were. *)
LEMMA QueueHas ==
    ASSUME Walkable
    PROVE  \A targets : Has(Queue(targets, walk.tasks), walk.tasks)
BY PushedAreSequences, Onto DEF Walkable, Queue

(* What waits for a branch is added to what waits. *)
LEMMA DelayAdds ==
    ASSUME NEW targets
    PROVE  DOMAIN walk.delayed \subseteq DOMAIN DelayForBranches(walk.delayed, walk.tasks, targets)
<1>1. ASSUME NEW f, NEW set
      PROVE  DOMAIN Add(walk.delayed, f, set) = DOMAIN walk.delayed \cup {f}
  BY DomainOfInsert DEF Add
<1>2. ASSUME NEW set
      PROVE  DOMAIN walk.delayed \subseteq DOMAIN Add(walk.delayed, Innermost(walk.tasks), set)
  BY <1>1
<1>3. DelayForBranches(walk.delayed, walk.tasks, targets) = walk.delayed
      \/ \E set : DelayForBranches(walk.delayed, walk.tasks, targets)
                     = Add(walk.delayed, Innermost(walk.tasks), set)
  BY Zenon DEF DelayForBranches
<1> QED BY <1>2, <1>3

(* What the instruction adds to the analysis besides its seed. *)
Annotates(r) ==
    \/ an' = r.an
    \/ \E x, n, d : an' = [r.an EXCEPT !.xrefs = x, !.noretCalls = n, !.diags = d]

(* An instruction that is no direct call and goes on with these tasks.      *)
LEMMA StepsOn ==
    ASSUME Walkable, NEW r, Reads(r, walk.at), Annotates(r), img.at[walk.at].flow # "call",
           graph'.delayed = graph.delayed, DOMAIN graph'.completed = DOMAIN graph.completed,
           NEW at, NEW tasks, Has(tasks, walk.tasks),
           \/ walk' = GoOn(at, tasks)
           \/ \E waits : /\ walk' = [GoOn(at, tasks) EXCEPT !.delayed = waits]
                         /\ DOMAIN walk.delayed \subseteq DOMAIN waits
    PROVE  Steps(r)
<1>1. an'.seeds = r.an.seeds /\ an'.forder = r.an.forder /\ an'.insns = r.an.insns
  BY DEF Reads, Annotates, AnalysisFields
<1>2. /\ walk'.caller = walk.caller /\ walk'.tasks = tasks
      /\ DOMAIN walk.delayed \subseteq DOMAIN walk'.delayed
  <2> DEFINE w == GoOn(at, tasks)
  <2>1. DOMAIN w = WalkFields /\ w.tasks = tasks /\ w.caller = walk.caller /\ w.delayed = walk.delayed
    BY GoingOn, GoesOnFor
  <2>2. walk' = w \/ \E waits : /\ walk' = [w EXCEPT !.delayed = waits]
                                /\ DOMAIN walk.delayed \subseteq DOMAIN waits
    OBVIOUS
  <2> HIDE DEF w
  <2> QED BY <2>1, <2>2 DEF WalkFields
<1>3. Called(walk.at)
  BY DEF Called, CallsExecutable
<1> QED BY <1>1, <1>2, <1>3 DEF Steps

(* A call returns its target. *)
LEMMA CallSteps ==
    ASSUME Walkable, NEW r, Reads(r, walk.at), WalkCall(r)
    PROVE  Steps(r)
<1> DEFINE a == walk.at
           t == CallTarget(a)
           resume == IF EndsFlow(a) THEN <<>> ELSE <<Task("call", a)>>
           down == Descend(t, resume \o walk.tasks)
           calls == IF IsProcedural(a) THEN walk.calls \cup {t} ELSE walk.calls
           isNew == Loose /\ IsProcedural(a) /\ IsExecutable(img, t) /\ IsFirstKnown(t)
           known == IF isNew THEN walk.known \cup {t} ELSE walk.known
           to == IF EndsFlow(a) THEN None ELSE NextOf(img, a)
<1>1. walk' = [(IF Descends(a) THEN GoOn(None, down) ELSE GoOn(to, walk.tasks))
               EXCEPT !.calls = IF IsProcedural(a) THEN @ \cup {t} ELSE @, !.known = known]
  BY DEF WalkCall
<1>2. graph'.delayed = graph.delayed /\ graph'.completed = graph.completed
  <2> DEFINE fork == Edges(IF EndsFlow(a) THEN <<>> ELSE <<Edge(NextOf(img, a), "fallthrough")>>)
             fns == IF Loose /\ Descends(a) THEN fork.importFns \cup {t} ELSE fork.importFns
  <2>1. graph' = [fork EXCEPT !.importFns = fns]
    BY DEF WalkCall
  <2> HIDE DEF fns
  <2> QED BY <2>1, EdgesCapture DEF Walkable
<1>3. /\ walk'.calls = calls /\ walk'.delayed = walk.delayed /\ walk'.caller = walk.caller
      /\ walk'.tasks = IF Descends(a) THEN down ELSE walk.tasks
  <2> HIDE DEF t, down, known, to
  <2>1. PICK w \in {GoOn(None, down), GoOn(to, walk.tasks)} :
           /\ walk' = [w EXCEPT !.calls = IF IsProcedural(a) THEN @ \cup {t} ELSE @, !.known = known]
           /\ w = IF Descends(a) THEN GoOn(None, down) ELSE GoOn(to, walk.tasks)
    BY <1>1
  <2>2. /\ DOMAIN w = WalkFields /\ w.calls = walk.calls /\ w.delayed = walk.delayed
        /\ w.tasks = IF Descends(a) THEN down ELSE walk.tasks
        /\ w.caller = walk.caller
    BY <2>1, GoingOn, GoesOnFor
  <2> QED BY <2>1, <2>2 DEF WalkFields
<1>4. Has(walk'.tasks, walk.tasks)
  <2>1. IsSeq(walk.tasks) /\ IsSeq(resume)
    BY Short DEF Walkable
  <2> HIDE DEF resume
  <2>2. Has(resume \o walk.tasks, walk.tasks) /\ Has(walk.tasks, walk.tasks)
    BY <2>1, Onto
  <2>3. Has(down, resume \o walk.tasks)
    BY <2>2, DescendHas DEF Has
  <2> HIDE DEF down
  <2> QED BY <1>3, <2>2, <2>3 DEF Has
<1>5. an'.seeds = r.an.seeds /\ an'.forder = r.an.forder /\ an'.insns = r.an.insns
  <2>1. \E x, c : an' = [r.an EXCEPT !.xrefs = x,
                                     !.noretCalls = IF EndsFlow(a) THEN @ \cup {a} ELSE @,
                                     !.diags = IF c THEN @ \cup {<<a, "unresolved call">>} ELSE @]
    BY Zenon DEF WalkCall
  <2> QED BY <2>1 DEF Reads, AnalysisFields
<1>6. Called(a)
  <2> SUFFICES ASSUME CallsExecutable(a)
               PROVE  t \in calls /\ t = img.at[a].direct
    BY <1>3 DEF Called
  <2>1. /\ t = img.at[a].direct /\ t # None /\ t # NextOf(img, a)
    BY DirectTarget, ImageAssumption DEF Walkable, Fields, Addr
  <2> QED BY <2>1 DEF IsProcedural
<1> HIDE DEF down, calls
<1> QED BY <1>2, <1>3, <1>4, <1>5, <1>6 DEF Steps

(* An indirect jump changes extents, it takes none away. *)
LEMMA IndirectSteps ==
    ASSUME Walkable, NEW r, Reads(r, walk.at), WalkIndirect(r)
    PROVE  Steps(r)
<1> DEFINE a == walk.at
<1>1. PICK arms, s : TakeArms(r, arms, s)
  BY DEF WalkIndirect
<1> DEFINE ts == arms.targets
           pointer == ts # <<>> /\ IsPointerJump(img, img.at[a])
           v == IF pointer THEN <<>> ELSE [i \in DOMAIN ts |-> Edge(ts[i], "table")]
           slots == IF graph.compat /\ ts # <<>> /\ ~pointer
                    THEN TableSlots(img, img.at[a], ts) ELSE <<>>
           t == graph.tables \o arms.locs \o slots
           c == [f \in DOMAIN graph.completed |-> s.completed[f]]
           w == GoOn(None, Queue(ts, walk.tasks))
           waits == IF graph.compat THEN DelayForBranches(w.delayed, walk.tasks, ToSet(ts))
                    ELSE w.delayed
<1>2. graph' = [graph EXCEPT !.succ = Insert(s.succ, a, v), !.completed = c, !.tables = t]
  BY <1>1 DEF TakeArms
<1>3. graph'.delayed = graph.delayed /\ DOMAIN graph'.completed = DOMAIN graph.completed
  <2>1. DOMAIN c = DOMAIN graph.completed
    OBVIOUS
  <2> HIDE DEF v, t, c
  <2> QED BY <1>2, <2>1 DEF Walkable, Fields, GraphFields
<1>4. walk' = [w EXCEPT !.delayed = waits]
  BY <1>1 DEF TakeArms
<1>5. DOMAIN walk.delayed \subseteq DOMAIN waits
  <2>1. w.delayed = walk.delayed
    BY GoingOn
  <2> HIDE DEF w
  <2> QED BY <2>1, DelayAdds
<1>6. Annotates(r)
  <2> DEFINE x == FoldLeft(LAMBDA y, u : PushXref(y, u, a), s.xrefs, arms.targets)
             d == r.an.diags \cup arms.diags \cup s.diags
                  \cup (IF arms.targets = <<>> THEN {<<a, "unresolved jump">>} ELSE {})
  <2>1. an' = [r.an EXCEPT !.xrefs = x, !.diags = d]
    BY <1>1 DEF TakeArms
  <2> HIDE DEF x, d
  <2>2. an' = [r.an EXCEPT !.xrefs = x, !.noretCalls = r.an.noretCalls, !.diags = d]
    BY <2>1 DEF Reads, AnalysisFields
  <2> QED BY <2>2 DEF Annotates
<1>7. Has(Queue(ts, walk.tasks), walk.tasks) /\ img.at[a].flow # "call"
  BY QueueHas DEF WalkIndirect
<1> HIDE DEF waits
<1> QED BY <1>3, <1>4, <1>5, <1>6, <1>7, StepsOn

(* The seven kinds of flow. *)
LEMMA FlowSteps ==
    ASSUME Walkable, NEW r, Reads(r, walk.at), WalkFlow(r)
    PROVE  Steps(r)
<1> DEFINE op == img.at[walk.at]
           next == NextOf(img, walk.at)
<1>1. ASSUME an' = r.an \/ \E x : an' = [r.an EXCEPT !.xrefs = x]
      PROVE  Annotates(r)
  <2>1. ASSUME NEW x, an' = [r.an EXCEPT !.xrefs = x]
        PROVE  Annotates(r)
    <3>1. an' = [r.an EXCEPT !.xrefs = x, !.noretCalls = r.an.noretCalls, !.diags = r.an.diags]
      BY <2>1 DEF Reads, AnalysisFields
    <3> QED BY <3>1 DEF Annotates
  <2> QED BY <1>1, <2>1 DEF Annotates
<1>2. ASSUME NEW list, graph' = Edges(list)
      PROVE  graph'.delayed = graph.delayed /\ graph'.completed = graph.completed
  BY <1>2, EdgesCapture DEF Walkable
<1>3. Has(walk.tasks, walk.tasks)
  BY Onto DEF Walkable
<1>4. CASE WalkNext(r) \/ WalkThunk(r) \/ WalkReturn(r)
  <2>1. /\ (\E list : graph' = Edges(list)) /\ (\E at : walk' = GoOn(at, walk.tasks))
        /\ an' = r.an /\ op.flow # "call"
    BY <1>4 DEF WalkNext, WalkThunk, WalkReturn
  <2> QED BY <1>1, <1>2, <1>3, <2>1, StepsOn
<1>5. CASE WalkCall(r)
  BY <1>5, CallSteps
<1>6. CASE WalkConditional(r)
  <2> DEFINE waits == IF graph.compat /\ op.direct # None
                      THEN DelayForBranches(walk.delayed, walk.tasks, {op.direct, next})
                      ELSE walk.delayed
             targets == IF op.direct = None THEN <<next>> ELSE <<next, op.direct>>
             list == IF op.direct = None THEN <<Edge(next, "fallthrough")>>
                     ELSE <<Edge(next, "fallthrough"), Edge(op.direct, "branch")>>
             xrefs == IF op.direct = None THEN r.an.xrefs
                      ELSE PushXref(r.an.xrefs, op.direct, walk.at)
  <2>1. /\ graph' = Edges(list) /\ walk' = [GoOn(None, Queue(targets, walk.tasks)) EXCEPT !.delayed = waits]
        /\ an' = [r.an EXCEPT !.xrefs = xrefs] /\ op.flow # "call"
    BY <1>6 DEF WalkConditional
  <2>2. DOMAIN walk.delayed \subseteq DOMAIN waits
    BY DelayAdds
  <2> HIDE DEF waits, list, xrefs, op, targets
  <2> QED BY <1>1, <1>2, <2>1, <2>2, QueueHas, StepsOn DEF op
<1>7. CASE WalkJump(r)
  <2> DEFINE t == op.direct
             w == GoOn(None, Queue(<<t>>, walk.tasks))
             waits == IF graph.compat THEN DelayForBranches(w.delayed, walk.tasks, {t}) ELSE w.delayed
  <2>1. /\ \E list : graph' = Edges(list)
        /\ an' = r.an \/ \E x : an' = [r.an EXCEPT !.xrefs = x]
        /\ op.flow # "call"
    BY <1>7 DEF WalkJump
  <2>2. walk' = GoOn(None, walk.tasks) \/ walk' = [w EXCEPT !.delayed = waits]
    BY <1>7 DEF WalkJump
  <2>3. DOMAIN walk.delayed \subseteq DOMAIN waits
    <3>1. w.delayed = walk.delayed
      BY GoingOn
    <3> HIDE DEF w
    <3> QED BY <3>1, DelayAdds
  <2> HIDE DEF waits, t
  <2>4. CASE walk' = GoOn(None, walk.tasks)
    BY <1>1, <1>2, <1>3, <2>1, <2>4, StepsOn
  <2>5. CASE walk' = [w EXCEPT !.delayed = waits]
    BY <1>1, <1>2, <2>1, <2>3, <2>5, QueueHas, StepsOn
  <2> QED BY <2>2, <2>4, <2>5
<1>8. CASE WalkIndirect(r)
  BY <1>8, IndirectSteps
<1> QED BY <1>4, <1>5, <1>6, <1>7, <1>8 DEF WalkFlow

(* An instruction waits for the pointer it reads, or goes on.               *)
LEMMA InstructionMinds ==
    ASSUME Walkable, Keeps, Owes, OrderIsHeld, main.pc # "pass", WalkInstruction
    PROVE  Minds
<1>1. PICK r : Reads(r, walk.at) /\ (SuspendOpcode(r) \/ (~IsSuspended(r) /\ WalkFlow(r)))
  <2>1. Reads(Record(walk.at), walk.at)
    BY RecordReads DEF Walkable
  <2>2. \E r \in {Record(walk.at)} : SuspendOpcode(r) \/ (~IsSuspended(r) /\ WalkFlow(r))
    BY DEF WalkInstruction
  <2> QED BY <2>1, <2>2
<1>2. /\ UNCHANGED img /\ graph'.compat = graph.compat /\ IsSeq(an.forder) /\ IsSeq(walk.tasks)
      /\ DOMAIN walk = WalkFields /\ walk.at # None /\ ~IsUndecodable(walk.at)
  BY DEF Walkable, Owes, Keeps, KnownGrows, OrderIsHeld, WalkInstruction, Passes, Walking
<1>3. CASE SuspendOpcode(r)
  <2> DEFINE opcode == <<Task("opcode", walk.at)>>
             later == opcode \o walk.tasks
             tasks == Descend(r.target, later)
             calls == walk.calls \cup {r.target}
  <2>1. graph' = graph /\ an' = r.an
    BY <1>3 DEF SuspendOpcode
  <2>2. walk'.tasks = tasks /\ walk'.delayed = walk.delayed /\ walk'.caller = walk.caller
    <3>1. walk' = [Counted EXCEPT !.calls = @ \cup {r.target}, !.at = None,
                      !.tasks = Descend(r.target, <<Task("opcode", walk.at)>> \o @)]
      BY <1>3 DEF SuspendOpcode
    <3>2. /\ DOMAIN Counted = WalkFields /\ Counted.calls = walk.calls
          /\ Counted.tasks = walk.tasks /\ Counted.delayed = walk.delayed
          /\ Counted.caller = walk.caller
      BY <1>2 DEF Counted, WalkFields
    <3>3. walk' = [Counted EXCEPT !.calls = calls, !.at = None, !.tasks = tasks]
      BY <3>1, <3>2
    <3> HIDE DEF calls, tasks
    <3> QED BY <3>2, <3>3 DEF WalkFields
  <2>3. /\ Has(tasks, walk.tasks) /\ r.target \in Finishers(ToSet(tasks))
        /\ Task("opcode", walk.at) \in ToSet(tasks)
    <3>1. IsSeq(opcode) /\ ToSet(opcode) = {Task("opcode", walk.at)}
      BY Short
    <3> HIDE DEF opcode
    <3>2. Has(later, walk.tasks) /\ Has(later, opcode)
      BY <1>2, <3>1, Onto
    <3> HIDE DEF later
    <3>3. Has(tasks, later) /\ r.target \in Finishers(ToSet(tasks))
      BY <3>2, DescendHas DEF Has
    <3> QED BY <3>1, <3>2, <3>3 DEF Has
  <2> HIDE DEF tasks
  <2>4. \A a : IsUndecodable(a)' <=> IsUndecodable(a)
    BY <1>2 DEF IsUndecodable
  <2>5. \A a : a = walk.at => Awaits(a)'
    BY <1>2, <2>2, <2>3, <2>4 DEF Awaits
  <2>6. \A a : Awaits(a) => Awaits(a)'
    BY <1>2, <2>2, <2>3, <2>4 DEF Awaits, Has
  <2>7. Holds
    <3>1. \A t : Held(t) => Held(t)'
      BY <2>1, <2>2, <2>3, LargeStays DEF Held, Due, Finishers, Has
    <3>2. SeedsHeld
      <4>1. an'.seeds \in {an.seeds, AddSeed(an.seeds, r.target, "pointer")}
        BY <1>1, <2>1 DEF Reads
      <4>2. Held(r.target)'
        BY <2>2, <2>3 DEF Held, Due
      <4> QED BY <4>1, <4>2 DEF SeedsHeld
    <3> QED BY <1>1, <2>1, <3>1, <3>2, SeedsHeldAreHeld DEF Holds, Reads
  <2> QED BY <1>1, <1>2, <2>1, <2>2, <2>5, <2>6, <2>7 DEF Minds, Reads
<1>4. CASE ~IsSuspended(r) /\ WalkFlow(r)
  BY <1>1, <1>4, FlowSteps, StepsMind
<1> QED BY <1>1, <1>3, <1>4

(* Every step of a walk but its end. *)
LEMMA WalkMinds ==
    ASSUME Walkable, Keeps, Owes, OrderIsHeld, main.pc # "pass", WalkStep, ~EndWalk, ~AbandonWalk
    PROVE  Minds
<1>1. IsSeq(an.forder)
  BY DEF OrderIsHeld
<1> QED BY <1>1, PathMinds, FoundMinds, FollowMinds, FinalizeMinds, ReleaseMinds, PathEndMinds,
           FinishMinds, InstructionMinds DEF WalkStep

----------------------------------------------------------------------------
(* A walk keeps the invariant *)

(* What was passed over, and what the import-call wave called, stays so     *)
(* within a pass.                                                           *)
Marks == main.skipped \subseteq main'.skipped /\ main.waved \subseteq main'.waved

(* So does what is noted, and a pattern that is seeded as before.           *)
Remembers ==
    /\ Cut => Cut'
    /\ \A a : CallsExecutable(a)' <=> CallsExecutable(a)
    /\ \A t : "call" \in KindsAt(an.seeds, t) => "call" \in KindsAt(an'.seeds, t)
    /\ \A t \in DOMAIN an'.seeds : SameSeeds(t) /\ Shelved(t) => Shelved(t)'
    /\ \A t \in DOMAIN an'.seeds : SameSeeds(t) /\ PassedOver(t) => PassedOver(t)'

(* So does every step that keeps what is known. *)
LEMMA StepsRemember ==
    ASSUME Keeps, Marks
    PROVE  Remembers
<1>1. Cut => Cut'
  BY DEF Keeps, Gains, Cut
<1>2. \A a : CallsExecutable(a)' <=> CallsExecutable(a)
  BY DEF Keeps, KeepsImage, CallsExecutable, NextOf
<1>3. \A t : "call" \in KindsAt(an.seeds, t) => "call" \in KindsAt(an'.seeds, t)
  BY DEF Keeps, Gains, MoreSeeds
<1>4. ASSUME NEW t \in DOMAIN an'.seeds, SameSeeds(t)
      PROVE  (Shelved(t) => Shelved(t)') /\ (PassedOver(t) => PassedOver(t)')
  BY <1>4 DEF SameSeeds, Marks, Shelved, PassedOver, OnlyKinds
<1> QED BY <1>1, <1>2, <1>3, <1>4 DEF Remembers

(* Between its first step and its last. *)
LEMMA WalkKeepsCalls ==
    ASSUME Inv, QInv, CInv, WalkStep, ~EndWalk, ~AbandonWalk
    PROVE  CInv'
<1>1. Keeps /\ Owes /\ walk.on /\ Walkable
  <2>1. Walkable
    BY DEF Inv, QInv, Shapes, Walkable
  <2> QED BY <2>1, WalkKeeps, WalkOwes DEF Inv
<1>2. UNCHANGED <<img, main>> /\ main.pc \in {"top", "plt", "wave"}
  BY <1>1 DEF Owes, QInv, Shapes
<1>3. Minds /\ Remembers
  <2>1. Marks
    BY <1>2 DEF Marks
  <2>2. main.pc # "pass" /\ OrderIsHeld
    BY <1>2 DEF CInv
  <2> QED BY <1>1, <2>1, <2>2, WalkMinds, StepsRemember
<1>4. SeedsAreTaken'
  <2> SUFFICES ASSUME ~main.told, ~Cut', NEW t \in DOMAIN an'.seeds \cap img.exec, ~Held(t)'
               PROVE  Placed(t) \/ Shelved(t)' \/ PassedOver(t)'
    BY <1>2 DEF SeedsAreTaken, Served, Placed
  <2>1. SameSeeds(t) /\ ~Held(t)
    BY <1>3 DEF Minds, Holds
  <2>2. Placed(t) \/ Shelved(t) \/ PassedOver(t)
    BY <1>2, <1>3, <2>1 DEF CInv, SeedsAreTaken, Served, SameSeeds, Remembers
  <2> QED BY <1>3, <2>1, <2>2 DEF Remembers, SameSeeds
<1>5. OrderIsHeld'
  BY <1>2, <1>3 DEF CInv, OrderIsHeld, Minds, Holds, Remembers
<1>6. CallsAreNoted'
  <2> SUFFICES ASSUME ~Cut', NEW a \in an'.insns, CallsExecutable(a)
               PROVE  \/ img.at[a].direct \in walk'.calls
                      \/ "call" \in KindsAt(an'.seeds, img.at[a].direct)
                      \/ Awaits(a)'
    BY <1>2, <1>3 DEF CallsAreNoted, Remembers
  <2>1. a \in an.insns \/ Awaits(a)' \/ img.at[a].direct \in walk'.calls
    BY <1>3 DEF Minds, Called
  <2>2. ASSUME a \in an.insns
        PROVE  \/ img.at[a].direct \in walk.calls
               \/ "call" \in KindsAt(an.seeds, img.at[a].direct)
               \/ Awaits(a)
    BY <1>3, <2>2 DEF CInv, CallsAreNoted, Remembers
  <2>3. Awaits(a) => Awaits(a)' \/ img.at[a].direct \in walk'.calls
    BY <1>3 DEF Minds, Called
  <2>4. walk.calls \subseteq walk'.calls
    BY <1>1 DEF Owes
  <2> QED BY <1>3, <2>1, <2>2, <2>3, <2>4 DEF Remembers
<1>7. Callers'
  <2>1. walk'.caller = walk.caller /\ walk.on
    BY <1>1, <1>3 DEF Minds
  <2> QED BY <1>2, <1>3, <2>1 DEF CInv, Callers, Remembers
<1>8. CallGraphIsClosed'
  BY <1>2 DEF CallGraphIsClosed, Done
<1> QED BY <1>4, <1>5, <1>6, <1>7, <1>8 DEF CInv

----------------------------------------------------------------------------
(* A walk ends *)

(* What the queue and the seeds are given of the callees. *)
LEMMA PromoteSeeds ==
    ASSUME Fields, IsSeq(main.pending), NEW caller, NEW calls, NEW t \in img.exec
    PROVE  LET r == Promote(caller, calls)
           IN  /\ t \notin calls /\ t \in DOMAIN r.seeds =>
                     t \in DOMAIN an.seeds /\ r.seeds[t] = an.seeds[t]
               /\ t \in calls => r.seeds[t] = KindsAt(an.seeds, t) \cup {"call"}
                                 /\ t \in DOMAIN r.seeds
               /\ t \in calls /\ (caller = "plt" \/ Requeues(caller, t)) => t \in ToSet(r.pending)
<1> DEFINE targets == IF caller = "plt" THEN calls ELSE {u \in calls : IsExecutable(img, u)}
           queued == {u \in targets : Requeues(caller, u)}
           pending == IF caller = "plt" THEN main.pending \o Ascending(targets)
                      ELSE Ascending(queued) \o main.pending
           seeds == AddSeeds(an.seeds, targets, "call")
<1>1. Promote(caller, calls) = Promotion(seeds, pending)
  BY Zenon DEF Promote
<1>2. t \in Addr /\ (t \in targets <=> t \in calls)
  BY DEF Fields, IsExecutable
<1>3. (IF caller = "plt" THEN targets ELSE queued) \cap Addr \subseteq ToSet(pending)
  <2>1. /\ IsSeq(Ascending(targets)) /\ ToSet(Ascending(targets)) = targets \cap Addr
        /\ IsSeq(Ascending(queued)) /\ ToSet(Ascending(queued)) = queued \cap Addr
    BY AscendingHasAll
  <2> HIDE DEF targets, queued
  <2> QED BY <2>1, Concatenation
<1>4. t \in calls /\ (caller = "plt" \/ Requeues(caller, t)) => t \in ToSet(pending)
  <2> HIDE DEF targets, pending
  <2> QED BY <1>2, <1>3
<1>5. /\ t \notin targets /\ t \in DOMAIN seeds => t \in DOMAIN an.seeds /\ seeds[t] = an.seeds[t]
      /\ t \in targets => seeds[t] = KindsAt(an.seeds, t) \cup {"call"} /\ t \in DOMAIN seeds
  <2> HIDE DEF targets
  <2> QED BY DEF AddSeeds, KindsAt
<1> HIDE DEF pending, seeds, targets
<1> QED BY <1>1, <1>2, <1>4, <1>5 DEF Promotion

(* A walk that was given up is noted, and nothing more is claimed.          *)
LEMMA AbandonKeepsCalls ==
    ASSUME Inv, QInv, CInv, AbandonWalk
    PROVE  CInv'
<1> DEFINE x == Diagnose(Noted(walk.at), walk.start, "abandoned")
           r == Promote(walk.caller, walk.calls)
           at == IF walk.caller = "plt" THEN After(walk.start) ELSE main.at
<1>1. /\ Fields /\ UNCHANGED img /\ walk.on /\ walk' = NoWalk
      /\ an' = [x EXCEPT !.seeds = r.seeds]
      /\ main' = [main EXCEPT !.pending = r.pending, !.known = walk.known,
                              !.waved = Waved, !.at = at]
  BY DEF Inv, AbandonWalk, Passes, Walking
<1>2. DOMAIN x = AnalysisFields /\ x.forder = an.forder /\ <<walk.start, "abandoned">> \in x.diags
  BY <1>1, NotedMinds DEF Diagnose, AnalysisFields
<1> HIDE DEF x, r, at
<1>3. an'.forder = an.forder /\ Cut'
  <2>1. an'.forder = an.forder /\ an'.diags = x.diags
    BY <1>1, <1>2 DEF AnalysisFields
  <2>2. \E d \in an'.diags : d[2] = "abandoned"
    <3>1. PICK u : u = walk.start
      OBVIOUS
    <3>2. <<u, "abandoned">> \in an'.diags /\ <<u, "abandoned">>[2] = "abandoned"
      BY <1>2, <2>1, <3>1
    <3> QED BY <3>2
  <2> QED BY <2>1, <2>2 DEF Cut
<1>4. main'.pc = main.pc /\ main'.todo = main.todo /\ main.pc \in {"top", "plt", "wave"}
  BY <1>1 DEF Fields, MainFields, QInv, Shapes
<1>5. Callers'
  <2>1. ~walk'.on
    BY <1>1 DEF NoWalk
  <2> QED BY <2>1 DEF Callers
<1> QED BY <1>3, <1>4, <1>5
       DEF CInv, SeedsAreTaken, OrderIsHeld, CallsAreNoted, CallGraphIsClosed, Done

(* A walk that ends returns its callees, and what waits in it waits for     *)
(* good.                                                                    *)
LEMMA EndWalkKeepsCalls ==
    ASSUME Inv, QInv, CInv, EndWalk
    PROVE  CInv'
<1> DEFINE r == Promote(walk.caller, walk.calls)
           at == IF walk.caller = "plt" THEN After(walk.start) ELSE main.at
<1>1. /\ Fields /\ UNCHANGED img /\ walk.on /\ walk' = NoWalk
      /\ walk.at = None /\ walk.tasks = <<>>
      /\ an' = [an EXCEPT !.seeds = r.seeds]
      /\ main' = [main EXCEPT !.pending = r.pending, !.known = walk.known,
                              !.waved = Waved, !.at = at]
      /\ graph' = [graph EXCEPT !.delayed = @ \cup DOMAIN walk.delayed]
  BY DEF Inv, EndWalk, ReturnCalls
<1>2. /\ main.pc \in {"top", "plt", "wave"} /\ IsSeq(main.pending)
      /\ walk.caller \in {"main", "import", "plt"}
  BY <1>1 DEF QInv, Shapes, CInv, Callers
<1>3. Keeps /\ Remembers
  <2>1. Keeps
    BY WalkKeeps DEF WalkStep, Inv
  <2>2. main'.skipped = main.skipped /\ main'.waved = Waved
    <3> HIDE DEF r, at
    <3> QED BY <1>1 DEF Fields, MainFields
  <2> QED BY <2>1, <2>2, StepsRemember DEF Marks, Waved
<1>4. /\ IsSeq(r.pending) /\ ToSet(main.pending) \subseteq ToSet(r.pending)
  BY <1>1, <1>2, PromoteQueues
<1>5. ASSUME NEW t \in img.exec
      PROVE  /\ t \notin walk.calls /\ t \in DOMAIN r.seeds =>
                   t \in DOMAIN an.seeds /\ r.seeds[t] = an.seeds[t]
             /\ t \in walk.calls => r.seeds[t] = KindsAt(an.seeds, t) \cup {"call"}
                                    /\ t \in DOMAIN r.seeds
             /\ t \in walk.calls /\ (walk.caller = "plt" \/ Requeues(walk.caller, t)) =>
                   t \in ToSet(r.pending)
  BY <1>1, <1>2, PromoteSeeds
<1> HIDE DEF r, at
<1>6. /\ an'.seeds = r.seeds /\ an'.forder = an.forder /\ an'.insns = an.insns /\ an'.diags = an.diags
      /\ main'.pc = main.pc /\ main'.todo = main.todo /\ main'.pending = r.pending
      /\ main'.starts = main.starts /\ main'.told = main.told
      /\ main'.skipped = main.skipped /\ main'.waved = Waved
      /\ graph'.completed = graph.completed
      /\ graph'.delayed = graph.delayed \cup DOMAIN walk.delayed
  BY <1>1 DEF Fields, MainFields, AnalysisFields, GraphFields
<1>7. \A t : Held(t) => Held(t)'
  <2>1. Due(walk) = DOMAIN walk.delayed
    BY <1>1, Short DEF Due, Finishers
  <2> QED BY <1>3, <1>6, <2>1, LargeStays DEF Held
<1>8. OrderIsHeld'
  BY <1>1, <1>6, <1>7 DEF CInv, OrderIsHeld, Cut
<1>9. CallsAreNoted'
  <2> SUFFICES ASSUME ~Cut, NEW a \in an.insns, CallsExecutable(a)
               PROVE  "call" \in KindsAt(r.seeds, img.at[a].direct)
    BY <1>1, <1>3, <1>6 DEF CallsAreNoted, Remembers, Cut
  <2>1. ~Awaits(a)
    BY <1>1, Short DEF Awaits
  <2>2. CASE img.at[a].direct \in walk.calls
    BY <1>5, <2>2 DEF CallsExecutable, KindsAt
  <2>3. CASE "call" \in KindsAt(an.seeds, img.at[a].direct)
    BY <1>3, <1>6, <2>3 DEF Remembers
  <2> QED BY <2>1, <2>2, <2>3 DEF CInv, CallsAreNoted
<1>10. SeedsAreTaken'
  <2> SUFFICES ASSUME ~main.told, ~Cut, NEW t \in DOMAIN r.seeds \cap img.exec
               PROVE  \/ Held(t)'
                      \/ t \in main.starts \cup ToSet(r.pending)
                      \/ Shelved(t)'
                      \/ PassedOver(t)'
    BY <1>1, <1>6 DEF SeedsAreTaken, Served, Placed, Cut
  <2>1. ASSUME t \in DOMAIN an.seeds
        PROVE  \/ Held(t)
               \/ t \in main.starts \cup ToSet(main.pending)
               \/ Shelved(t)
               \/ PassedOver(t)
    BY <1>2, <2>1 DEF CInv, SeedsAreTaken, Served, Placed
  <2>2. CASE t \notin walk.calls
    <3>1. SameSeeds(t)
      BY <1>5, <1>6, <2>2 DEF SameSeeds
    <3> QED BY <1>3, <1>4, <1>6, <1>7, <2>1, <3>1 DEF Remembers, SameSeeds
  <2>3. CASE t \in walk.calls
    <3>1. r.seeds[t] = KindsAt(an.seeds, t) \cup {"call"}
      BY <1>5, <2>3
    <3>2. CASE walk.caller = "plt" \/ Requeues(walk.caller, t)
      BY <1>5, <2>3, <3>2
    <3>3. CASE walk.caller # "plt" /\ ~Requeues(walk.caller, t)
      <4>1. t \in DOMAIN an.seeds /\ r.seeds[t] = an.seeds[t] \cup {"call"}
        BY <3>1, <3>3 DEF Requeues, KindsAt
      <4>2. PassedOver(t) => PassedOver(t)'
        BY <1>6, <4>1 DEF PassedOver, OnlyKinds, Waved
      <4>3. CASE Shelved(t) /\ t \notin main.starts
        <5>1. walk.caller = "import"
          BY <1>2, <3>3, <4>1, <4>3 DEF Requeues, OnlyKinds, Shelved, HeuristicKinds
        <5>2. t \in main'.waved
          BY <1>6, <2>3, <5>1 DEF Waved
        <5> QED BY <1>6, <4>1, <4>3, <5>2 DEF PassedOver, OnlyKinds, Shelved
      <4> QED BY <1>4, <1>7, <2>1, <4>1, <4>2, <4>3
    <3> QED BY <3>2, <3>3
  <2> QED BY <2>2, <2>3
<1>11. Callers'
  <2>1. ~walk'.on
    BY <1>1 DEF NoWalk
  <2> QED BY <2>1 DEF Callers
<1>12. CallGraphIsClosed'
  BY <1>2, <1>6 DEF CallGraphIsClosed, Done
<1> QED BY <1>8, <1>9, <1>10, <1>11, <1>12 DEF CInv

----------------------------------------------------------------------------
(* The loop keeps the invariant *)

(* What a step of the loop makes of a seed: it is served, or it is the seed *)
(* it was and has not lost its place.                                       *)
Feeds ==
    \/ main'.told \/ Cut'
    \/ \A t \in DOMAIN an'.seeds \cap img.exec :
          Served(t)' \/ (SameSeeds(t) /\ (Placed(t) => Placed(t)'))

(* A step of the loop inside a pass: nothing is walked before it.           *)
LEMMA TurnKeepsCalls ==
    ASSUME Inv, QInv, CInv, StaysInPass, Keeps, ~walk.on, main.told => main'.told,
           an'.forder = an.forder, Marks, Feeds, Callers'
    PROVE  CInv'
<1>1. /\ walk = NoWalk /\ Due(NoWalk) = {} /\ NoWalk.calls = {}
      /\ NoWalk.tasks = <<>> /\ NoWalk.at = None
  BY Idle DEF NoWalk
<1>2. Remembers
  BY StepsRemember
<1>3. /\ graph'.completed = graph.completed /\ graph'.delayed = graph.delayed
      /\ img'.exec = img.exec /\ img'.at = img.at /\ an'.insns = an.insns
      /\ main.pc # "pass" /\ main'.pc \notin {"pass", "done"}
  BY DEF StaysInPass, Inv, Fields, GraphFields, KeepsImage, Annotated, GoesOn, PassSteps
<1>4. \A t : Held(t) => Held(t)'
  BY <1>1, <1>3, LargeStays DEF Held
<1>5. SeedsAreTaken'
  <2> SUFFICES ASSUME ~main'.told, ~Cut', NEW t \in DOMAIN an'.seeds \cap img.exec
               PROVE  Served(t)'
    BY <1>3 DEF SeedsAreTaken
  <2>1. CASE SameSeeds(t) /\ (Placed(t) => Placed(t)')
    <3>1. Served(t)
      BY <1>2, <1>3, <2>1 DEF CInv, SeedsAreTaken, SameSeeds, Remembers
    <3> QED BY <1>2, <1>4, <2>1, <3>1 DEF Served, Remembers
  <2> QED BY <2>1 DEF Feeds
<1>6. OrderIsHeld'
  BY <1>2, <1>3, <1>4 DEF CInv, OrderIsHeld, Remembers
<1>7. CallsAreNoted'
  <2> SUFFICES ASSUME ~Cut', NEW a \in an.insns, CallsExecutable(a)
               PROVE  "call" \in KindsAt(an'.seeds, img.at[a].direct)
    BY <1>2, <1>3 DEF CallsAreNoted, Remembers
  <2>1. ~Awaits(a)
    BY <1>1, Short DEF Awaits
  <2> QED BY <1>1, <1>2, <2>1 DEF CInv, CallsAreNoted, Remembers
<1>8. CallGraphIsClosed'
  BY <1>3 DEF CallGraphIsClosed, Done
<1> QED BY <1>5, <1>6, <1>7, <1>8 DEF CInv

(* A step that walks nothing, and queues what it seeds.                     *)
LEMMA FillsKeepsCalls ==
    ASSUME Inv, QInv, CInv, StaysInPass, Keeps, ~walk.on, walk' = walk,
           main'.told = main.told, main'.starts = main.starts,
           ToSet(main.pending) \subseteq ToSet(main'.pending),
           an'.forder = an.forder, main'.skipped = main.skipped, main'.waved = main.waved,
           \A t \in DOMAIN an'.seeds \cap img.exec : SameSeeds(t) \/ t \in ToSet(main'.pending)
    PROVE  CInv'
<1>1. Feeds
  BY DEF Feeds, Served, Placed
<1>2. Callers' /\ Marks
  BY DEF Callers, Marks
<1> QED BY <1>1, <1>2, TurnKeepsCalls

(* The seeds are as they were. *)
LEMMA SeedsStay ==
    ASSUME an'.seeds = an.seeds
    PROVE  \A t \in DOMAIN an'.seeds : SameSeeds(t)
BY DEF SameSeeds

(* One seed, or a set of them, is added.                                    *)
LEMMA SeedsAdded ==
    ASSUME NEW kind
    PROVE  /\ \A a : an'.seeds = AddSeed(an.seeds, a, kind) =>
                 \A t \in DOMAIN an'.seeds : SameSeeds(t) \/ t = a
           /\ \A set : an'.seeds = AddSeeds(an.seeds, set, kind) =>
                 \A t \in DOMAIN an'.seeds : SameSeeds(t) \/ t \in set
<1>1. ASSUME NEW a, an'.seeds = AddSeed(an.seeds, a, kind), NEW t \in DOMAIN an'.seeds, t # a
      PROVE  SameSeeds(t)
  BY <1>1 DEF AddSeed, Insert, SameSeeds
<1>2. ASSUME NEW set, an'.seeds = AddSeeds(an.seeds, set, kind), NEW t \in DOMAIN an'.seeds, t \notin set
      PROVE  SameSeeds(t)
  BY <1>2 DEF AddSeeds, KindsAt, SameSeeds
<1> QED BY <1>1, <1>2

(* The stubs, the top of the loop and the ends of the waves and the queue.  *)
LEMMA LoopKeepsCalls ==
    ASSUME Inv, QInv, CInv, StaysInPass, Keeps, EndPlt \/ LoopTop \/ EndWave \/ EmptyQueue
    PROVE  CInv'
<1>1. /\ ~walk.on /\ walk' = walk /\ UNCHANGED <<img, an>>
      /\ main' \in {Goto("top"), Goto("next"), Goto("pop"), Goto("views"), Goto("cookies")}
  BY DEF EndPlt, LoopTop, EndWave, EmptyQueue, At, Inv, Control
<1>2. /\ main'.pending = main.pending /\ main'.starts = main.starts
      /\ main'.told = main.told /\ main'.skipped = main.skipped /\ main'.waved = main.waved
  BY <1>1 DEF Inv, Fields, Goto, MainFields
<1> QED BY <1>1, <1>2, SeedsStay, FillsKeepsCalls

(* Pointers and emulation add at most one seed, which is queued.            *)
LEMMA NextFills ==
    ASSUME Inv, BeginNext \/ EndBatch \/ TryCandidate
    PROVE  /\ an'.forder = an.forder
           /\ \/ /\ an'.seeds = an.seeds
                 /\ main' \in {main, Goto("next"), Goto("candidate"), NotFound}
              \/ \E a, kind : an'.seeds = AddSeed(an.seeds, a, kind) /\ main' = Found(a)
<1> DEFINE Like(x) == DOMAIN x = AnalysisFields /\ x.forder = an.forder /\ x.seeds = an.seeds
           Leaves == main' \in {main, Goto("next"), Goto("candidate"), NotFound}
           Finds == \E a, kind : an'.seeds = AddSeed(an.seeds, a, kind) /\ main' = Found(a)
<1>1. Like(an) /\ \A x, a, what : Like(x) => Like(Diagnose(x, a, what))
  BY DEF Inv, Fields, Diagnose, AnalysisFields
<1>2. ASSUME NEW x, Like(x), NEW a, NEW kind, an' = [x EXCEPT !.seeds = AddSeed(@, a, kind)]
      PROVE  an'.forder = an.forder /\ an'.seeds = AddSeed(an.seeds, a, kind)
  BY <1>2 DEF AnalysisFields
<1>3. ASSUME NEW p, NEW a, TakeEmulated(p, a)
      PROVE  an'.forder = an.forder /\ Finds
  BY <1>1, <1>2, <1>3 DEF TakeEmulated
<1>4. CASE BeginNext \/ EndBatch
  <2>1. \/ \E p, a : TakeEmulated(p, a)
        \/ Leaves /\ \/ an' = an
                     \/ \E a, what : an' = Diagnose(an, a, what)
                     \/ \E a, b, what, more : an' = Diagnose(Diagnose(an, a, what), b, more)
    BY <1>4 DEF BeginNext, EndBatch
  <2> HIDE DEF Like, Leaves, Finds
  <2>2. (\E p, a : TakeEmulated(p, a)) \/ (Leaves /\ Like(an'))
    BY <1>1, <2>1
  <2> QED BY <1>3, <2>2 DEF Like, Leaves, Finds
<1>5. CASE TryCandidate
  <2>1. PICK t, kind, a : /\ Like(t.an)
                          /\ \/ an' = t.an /\ main' = main
                             \/ an' = Diagnose(t.an, a, "candidates") /\ main' = NotFound
                             \/ \E p, v : Judge(t.an, p, kind, a, v)
    <3> DEFINE s == NextSource(img, ptr)
               t == Take(s)
               kind == t.cand[1]
               a == t.cand[2]
               p == IF kind = "pointer" THEN AddCandidate(img, t.an, t.p, a, "emulated") ELSE t.p
               tried == [p EXCEPT !.tried = @ \cup {<<kind, a>>}]
               v == VerdictOn(t.an, tried, kind, a)
    <3>1. ASSUME NEW q, NEW slot, NEW target
          PROVE  Like(TakeSlot(q, slot, target).an)
      <4>1. TakeSlot(q, slot, target).an \in {an, [an EXCEPT !.drefs = PushXref(@, target, slot)]}
        BY DEF TakeSlot, Taken
      <4>2. \A drefs : Like([an EXCEPT !.drefs = drefs])
        BY <1>1 DEF AnalysisFields
      <4> HIDE DEF Like
      <4> QED BY <1>1, <4>1, <4>2
    <3>2. \A q, c : Taken(q, an, c).an = an
      BY DEF Taken
    <3> HIDE DEF Like
    <3>3. Like(t.an)
      BY <1>1, <3>1, <3>2 DEF Take
    <3>4. \/ an' = t.an /\ main' = main
          \/ an' = Diagnose(t.an, a, "candidates") /\ main' = NotFound
          \/ \E w \in {v} : Judge(t.an, tried, kind, a, w)
      BY <1>5 DEF TryCandidate, Again
    <3> HIDE DEF t, kind, a, tried, v
    <3> QED BY <3>3, <3>4
  <2>2. \/ Leaves /\ (an' = t.an \/ \E what : an' = Diagnose(t.an, a, what))
        \/ an' = [t.an EXCEPT !.seeds = AddSeed(@, a, kind)] /\ main' = Found(a)
    BY <2>1 DEF Judge, Again
  <2>3. CASE Leaves /\ (an' = t.an \/ \E what : an' = Diagnose(t.an, a, what))
    <3>1. Like(an')
      <4> HIDE DEF Like
      <4> QED BY <1>1, <2>1, <2>3
    <3> QED BY <2>3, <3>1
  <2>4. CASE an' = [t.an EXCEPT !.seeds = AddSeed(@, a, kind)] /\ main' = Found(a)
    <3>1. an'.forder = an.forder /\ an'.seeds = AddSeed(an.seeds, a, kind)
      BY <1>2, <2>1, <2>4
    <3> QED BY <2>4, <3>1
  <2> QED BY <2>2, <2>3, <2>4
<1> QED BY <1>4, <1>5

(* So they keep the invariant. *)
LEMMA NextKeepsCalls ==
    ASSUME Inv, QInv, CInv, StaysInPass, Keeps, BeginNext \/ EndBatch \/ TryCandidate
    PROVE  CInv'
<1>1. /\ ~walk.on /\ walk' = walk /\ UNCHANGED img /\ main.pc \in {"next", "candidate"}
      /\ IsSeq(main.pending) /\ DOMAIN main = MainFields
  BY DEF BeginNext, EndBatch, TryCandidate, At, QInv, Shapes, Inv, Fields
<1>2. an'.forder = an.forder
  BY NextFills
<1>3. CASE an'.seeds = an.seeds /\ main' \in {main, Goto("next"), Goto("candidate"), NotFound}
  <2>1. /\ main'.pending = main.pending /\ main'.starts = main.starts /\ main'.told = main.told
        /\ main'.skipped = main.skipped /\ main'.waved = main.waved
    BY <1>1, <1>3 DEF NotFound, Goto, MainFields
  <2> QED BY <1>1, <1>2, <1>3, <2>1, SeedsStay, FillsKeepsCalls
<1>4. ASSUME NEW a, NEW kind, an'.seeds = AddSeed(an.seeds, a, kind), main' = Found(a)
      PROVE  CInv'
  <2>1. ToSet(Append(main.pending, a)) = ToSet(main.pending) \cup {a}
        /\ ToSet(<<a>> \o main.pending) = {a} \cup ToSet(main.pending)
    BY <1>1, Appending, Short, Concatenation
  <2>2. /\ main'.pending \in {Append(main.pending, a), <<a>> \o main.pending}
        /\ main'.starts = main.starts /\ main'.told = main.told
        /\ main'.skipped = main.skipped /\ main'.waved = main.waved
    BY <1>1, <1>4 DEF Found, MainFields
  <2> QED BY <1>1, <1>2, <1>4, <2>1, <2>2, SeedsAdded, FillsKeepsCalls
<1> QED BY <1>3, <1>4, NextFills

(* The next start is passed over, beyond the budget, or walked.             *)
LEMMA PopKeepsCalls ==
    ASSUME Inv, QInv, CInv, StaysInPass, Keeps, PopStart
    PROVE  CInv'
<1> DEFINE a == Head(main.pending)
           tail == Tail(main.pending)
           popped == [main EXCEPT !.pc = "top", !.pending = Tail(@),
                                  !.skipped = IF IsWalkedPattern(a) THEN @ \cup {a} ELSE @]
<1>1. /\ ~walk.on /\ UNCHANGED <<img, graph>> /\ main.pending # <<>> /\ Fields
      /\ IsSeq(main.pending) /\ walk = NoWalk
  BY Idle DEF PopStart, At, QInv, Shapes, Inv
<1>2. ToSet(main.pending) = {a} \cup ToSet(tail)
  BY <1>1, HeadAndTail
<1>3. /\ DOMAIN popped = MainFields /\ popped.pc = "top" /\ popped.pending = tail
      /\ popped.starts = main.starts /\ popped.told = main.told /\ popped.waved = main.waved
      /\ popped.skipped = IF IsWalkedPattern(a) THEN main.skipped \cup {a} ELSE main.skipped
  BY <1>1 DEF Fields, MainFields
<1>4. an'.forder = an.forder /\ an'.seeds = an.seeds
  <2>1. an' = an \/ an' = Diagnose(an, a, "function budget")
    BY DEF PopStart
  <2> QED BY <1>1, <2>1 DEF Diagnose, Fields, AnalysisFields
<1>5. /\ main'.skipped = popped.skipped /\ main'.waved = popped.waved
      /\ \/ /\ main'.told /\ walk' = walk
         \/ /\ SkipsStart(a) /\ main' = popped /\ walk' = walk
         \/ /\ walk' = Walk(a, None, "main") /\ main'.told = main.told
            /\ main'.starts = main.starts \cup {a} /\ main'.pending = tail
  <2> DEFINE starts == main.starts \cup {a}
             isolated == IF ShouldIsolate(img, an.seeds, a, a \in an.insns)
                         THEN main.isolated \cup {a} ELSE main.isolated
  <2>1. \/ SkipsStart(a) /\ main' = popped /\ walk' = walk
        \/ main' = [popped EXCEPT !.told = TRUE] /\ walk' = walk
        \/ walk' = Walk(a, None, "main")
           /\ main' = [popped EXCEPT !.starts = starts, !.isolated = isolated]
    <3>1. popped.isolated = main.isolated /\ popped.starts = main.starts
      BY <1>1 DEF Fields, MainFields
    <3>2. \/ SkipsStart(a) /\ main' = popped /\ walk' = walk
          \/ main' = [popped EXCEPT !.told = TRUE] /\ walk' = walk
          \/ /\ walk' = Walk(a, None, "main")
             /\ main' = [popped EXCEPT !.starts = @ \cup {a},
                             !.isolated = IF ShouldIsolate(img, an.seeds, a, a \in an.insns)
                                          THEN @ \cup {a} ELSE @]
      BY DEF PopStart
    <3> HIDE DEF popped, a
    <3> QED BY <1>3, <3>1, <3>2
  <2> HIDE DEF popped, isolated
  <2> QED BY <1>3, <2>1 DEF MainFields
<1> HIDE DEF popped, a, tail
<1>6. main.told => main'.told
  BY <1>3, <1>5
<1>7. Marks
  BY <1>3, <1>5 DEF Marks
<1>8. Callers'
  <2>1. Walk(a, None, "main").caller = "main"
    BY DEF Walk, NoWalk
  <2> QED BY <1>1, <1>5, <2>1 DEF Callers
<1>9. Feeds
  <2> SUFFICES ASSUME ~main'.told, NEW t \in DOMAIN an'.seeds \cap img.exec
               PROVE  Served(t)' \/ (SameSeeds(t) /\ (Placed(t) => Placed(t)'))
    BY DEF Feeds
  <2>1. SameSeeds(t)
    BY <1>4, SeedsStay
  <2>2. CASE t # a
    BY <1>2, <1>3, <1>5, <2>1, <2>2 DEF Placed
  <2>3. CASE t = a /\ SkipsStart(a) /\ main' = popped
    BY <1>1, <1>3, <1>4, <2>3
       DEF SkipsStart, IsWalkedPattern, OnlyKinds, IsExecutable, Served, Held, Placed, Shelved
  <2>4. CASE t = a /\ main'.starts = main.starts \cup {a}
    BY <2>4 DEF Served, Placed
  <2> QED BY <1>5, <2>2, <2>3, <2>4
<1> QED BY <1>1, <1>4, <1>6, <1>7, <1>8, <1>9, TurnKeepsCalls

(* Stubs and fragments are walked as loose code. *)
LEMMA LooseKeepsCalls ==
    ASSUME Inv, QInv, CInv, StaysInPass, Keeps, WalkPlt \/ WalkFragment
    PROVE  CInv'
<1>1. ~walk.on /\ Fields /\ UNCHANGED <<img, an, graph>>
  BY DEF WalkPlt, WalkFragment, At, Inv
<1>2. /\ main'.pending = main.pending /\ main'.starts = main.starts /\ main'.told = main.told
      /\ main'.skipped = main.skipped /\ main'.waved = main.waved
  <2>1. \/ main' = main
        \/ \E todo, at : main' = [main EXCEPT !.todo = todo, !.at = at]
        \/ \E at : main' = [main EXCEPT !.at = at]
        \/ \E todo : main' = [main EXCEPT !.todo = todo]
    BY Zenon DEF WalkPlt, WalkFragment
  <2> QED BY <1>1, <2>1 DEF Fields, MainFields
<1>3. Marks
  BY <1>2 DEF Marks
<1>4. Feeds
  <2>1. \A t \in DOMAIN an'.seeds : SameSeeds(t)
    BY <1>1, SeedsStay
  <2> QED BY <1>2, <2>1 DEF Feeds, Placed
<1>5. Callers'
  <2>1. \A a, known, caller : Walk(a, known, caller).caller = caller
    BY DEF Walk, NoWalk
  <2>2. \/ walk' = walk
        \/ \E a, known : \E caller \in {"import", "plt"} : walk' = Walk(a, known, caller)
    BY DEF WalkPlt, WalkFragment
  <2> QED BY <1>1, <2>1, <2>2 DEF Callers
<1> QED BY <1>1, <1>2, <1>3, <1>4, <1>5, TurnKeepsCalls

(* FLIRT starts, and the fragments of import calls. *)
LEMMA EarlyKeepsCalls ==
    ASSUME Inv, QInv, CInv, StaysInPass, Keeps, EndEarly
    PROVE  CInv'
<1>1. /\ ~walk.on /\ walk' = walk /\ UNCHANGED <<img, graph>> /\ Fields /\ IsSeq(main.pending)
  BY DEF EndEarly, At, Inv, QInv, Shapes
<1>2. \/ \E fs, set : /\ an' = [an EXCEPT !.functions = fs, !.seeds = AddSeeds(@, set, "local")]
                      /\ main' = [main EXCEPT !.pc = "top", !.pending = Ascending(set) \o @]
      \/ /\ \E fs : an' = [an EXCEPT !.functions = fs]
         /\ main' = [BeginWave(main.starts, "pop") EXCEPT !.early = TRUE]
  BY Zenon DEF EndEarly
<1>3. ASSUME NEW fs, NEW set,
             an' = [an EXCEPT !.functions = fs, !.seeds = AddSeeds(@, set, "local")],
             main' = [main EXCEPT !.pc = "top", !.pending = Ascending(set) \o @]
      PROVE  CInv'
  <2>1. ToSet(Ascending(set) \o main.pending) = (set \cap Addr) \cup ToSet(main.pending)
    BY <1>1, AscendingHasAll, Concatenation
  <2>2. /\ main'.pending = Ascending(set) \o main.pending
        /\ main'.starts = main.starts /\ main'.told = main.told
        /\ main'.skipped = main.skipped /\ main'.waved = main.waved
    BY <1>1, <1>3 DEF Fields, MainFields
  <2>3. an'.forder = an.forder /\ an'.seeds = AddSeeds(an.seeds, set, "local")
    BY <1>1, <1>3 DEF Fields, AnalysisFields
  <2>4. \A t \in DOMAIN an'.seeds \cap img.exec : SameSeeds(t) \/ t \in ToSet(main'.pending)
    BY <1>1, <2>1, <2>2, <2>3, SeedsAdded DEF Fields
  <2> QED BY <1>1, <2>1, <2>2, <2>3, <2>4, FillsKeepsCalls
<1>4. ASSUME NEW fs, an' = [an EXCEPT !.functions = fs],
             main' = [BeginWave(main.starts, "pop") EXCEPT !.early = TRUE]
      PROVE  CInv'
  <2> DEFINE m == BeginWave(main.starts, "pop")
  <2>1. /\ DOMAIN m = MainFields /\ m.pending = main.pending
        /\ m.starts = main.starts /\ m.told = main.told
        /\ m.skipped = main.skipped /\ m.waved = main.waved
    BY <1>1 DEF BeginWave, Fields, MainFields
  <2> HIDE DEF m
  <2>2. /\ main'.pending = main.pending /\ main'.starts = main.starts /\ main'.told = main.told
        /\ main'.skipped = main.skipped /\ main'.waved = main.waved
    BY <1>4, <2>1 DEF m, MainFields
  <2>3. an'.forder = an.forder /\ an'.seeds = an.seeds
    BY <1>1, <1>4 DEF Fields, AnalysisFields
  <2> QED BY <1>1, <2>2, <2>3, SeedsStay, FillsKeepsCalls
<1> QED BY <1>2, <1>3, <1>4

(* The Go wave begins with an empty queue; a known main.main is no mere     *)
(* pattern any more, and is passed over if it was one.                      *)
LEMMA GoKeepsCalls ==
    ASSUME Inv, QInv, CInv, StaysInPass, Keeps, GoWave
    PROVE  CInv'
<1>1. /\ ~walk.on /\ walk' = walk /\ UNCHANGED <<img, graph>> /\ Fields
      /\ main.pc = "pop" /\ main.pending = <<>> /\ walk = NoWalk
  BY Idle DEF GoWave, At, Inv
<1> DEFINE go == img.gomain
<1>2. \/ an'.seeds = an.seeds
      \/ an'.seeds = AddSeed(an.seeds, go, "gomain")
         /\ (go \notin DOMAIN an.seeds => main'.pending = <<go>>)
  <2> DEFINE found == /\ img.gomain # None /\ img.entry \in DOMAIN graph.succ
                      /\ ~BuildFunctionView(img, an, graph, img.entry, FALSE).oversized
                      /\ IsExecutable(img, img.gomain)
             isNew == img.gomain \notin DOMAIN an.seeds
             pending == IF found /\ isNew THEN <<img.gomain>> ELSE <<>>
             queued == [main EXCEPT !.late = TRUE, !.pending = pending]
             seeds == IF found THEN AddSeed(an.seeds, img.gomain, "gomain") ELSE an.seeds
  <2>1. /\ an' = [an EXCEPT !.seeds = seeds]
        /\ main' = IF graph.compat THEN [queued EXCEPT !.pc = "cookies"]
                   ELSE [queued EXCEPT !.pc = "wave", !.todo = FragmentStarts, !.known = None,
                                       !.then = "cookies"]
    BY DEF GoWave
  <2>2. found /\ isNew => pending = <<go>>
    OBVIOUS
  <2> HIDE DEF pending
  <2>3. DOMAIN queued = MainFields /\ queued.pending = pending
    BY <1>1 DEF Fields, MainFields
  <2> HIDE DEF queued
  <2>4. main'.pending = pending
    BY <2>1, <2>3 DEF MainFields
  <2>5. seeds = an.seeds \/ (found /\ seeds = AddSeed(an.seeds, go, "gomain"))
    OBVIOUS
  <2> HIDE DEF seeds, found
  <2>6. an'.seeds = seeds
    BY <1>1, <2>1 DEF Fields, AnalysisFields
  <2> QED BY <2>2, <2>4, <2>5, <2>6
<1>3. /\ an'.forder = an.forder /\ main'.starts = main.starts /\ main'.told = main.told
      /\ main'.skipped = main.skipped /\ main'.waved = main.waved
  <2>1. \E seeds : an' = [an EXCEPT !.seeds = seeds]
    BY Zenon DEF GoWave
  <2>2. \E pending : main' = IF graph.compat
                             THEN [main EXCEPT !.late = TRUE, !.pending = pending, !.pc = "cookies"]
                             ELSE [main EXCEPT !.late = TRUE, !.pending = pending, !.pc = "wave",
                                               !.todo = FragmentStarts, !.known = None,
                                               !.then = "cookies"]
    BY Zenon DEF GoWave
  <2> QED BY <1>1, <2>1, <2>2 DEF Fields, AnalysisFields, MainFields
<1> HIDE DEF go
<1>4. Marks
  BY <1>3 DEF Marks
<1>5. Callers'
  BY <1>1 DEF Callers
<1>6. Feeds
  <2> SUFFICES ASSUME ~main'.told, ~Cut', NEW t \in DOMAIN an'.seeds \cap img.exec
               PROVE  Served(t)' \/ (SameSeeds(t) /\ (Placed(t) => Placed(t)'))
    BY DEF Feeds
  <2>1. Placed(t) => Placed(t)'
    BY <1>1, <1>3, Short DEF Placed
  <2>2. CASE SameSeeds(t)
    BY <2>1, <2>2
  <2>3. CASE t = go /\ t \notin DOMAIN an.seeds /\ main'.pending = <<go>>
    BY <2>3, Short DEF Served, Placed
  <2>4. CASE t = go /\ t \in DOMAIN an.seeds /\ an'.seeds = AddSeed(an.seeds, go, "gomain")
    <3>1. an'.seeds[t] = an.seeds[t] \cup {"gomain"}
      BY <2>4 DEF AddSeed, Insert, KindsAt
    <3>2. Served(t)
      <4>1. Remembers
        BY <1>4, StepsRemember
      <4> QED BY <1>1, <1>3, <2>4, <4>1 DEF CInv, SeedsAreTaken, Remembers
    <3>3. Held(t) => Held(t)'
      BY <1>1, LargeStays DEF Held
    <3>4. Shelved(t) \/ PassedOver(t) => PassedOver(t)'
      BY <1>3, <3>1 DEF Shelved, PassedOver, OnlyKinds
    <3> QED BY <2>1, <3>2, <3>3, <3>4 DEF Served
  <2>5. SameSeeds(t) \/ t = go
    BY <1>2, SeedsStay, SeedsAdded
  <2>6. an'.seeds = an.seeds => SameSeeds(t)
    BY SeedsStay
  <2> QED BY <1>2, <2>2, <2>3, <2>4, <2>5, <2>6
<1> QED BY <1>1, <1>4, <1>3, <1>5, <1>6, TurnKeepsCalls

(* The elements of a sequence, last first. *)
LEMMA ReversedHasAll ==
    ASSUME NEW s, IsSeq(s)
    PROVE  ToSet(Reverse(s)) = ToSet(s)
<1>1. DOMAIN s = 1..Len(s) /\ Len(s) \in Nat
  BY SeqOver DEF IsSeq
<1>2. Reverse(s) = [i \in 1..Len(s) |-> s[(Len(s) - i) + 1]]
  BY DEF Reverse
<1>3. \A i \in 1..Len(s) : (Len(s) - i) + 1 \in 1..Len(s) /\ (Len(s) - ((Len(s) - i) + 1)) + 1 = i
  BY <1>1
<1>4. \A i \in 1..Len(s) : Reverse(s)[(Len(s) - i) + 1] = s[i]
  BY <1>2, <1>3
<1>5. DOMAIN Reverse(s) = 1..Len(s)
  BY <1>2
<1>6. ASSUME NEW i \in 1..Len(s)
      PROVE  s[i] \in ToSet(Reverse(s)) /\ Reverse(s)[i] \in ToSet(s)
  <2>1. s[i] = Reverse(s)[(Len(s) - i) + 1] /\ (Len(s) - i) + 1 \in DOMAIN Reverse(s)
    BY <1>3, <1>4, <1>5
  <2>2. Reverse(s)[i] = s[(Len(s) - i) + 1] /\ (Len(s) - i) + 1 \in DOMAIN s
    BY <1>1, <1>2, <1>3
  <2> QED BY <2>1, <2>2 DEF ToSet
<1> QED BY <1>1, <1>5, <1>6 DEF ToSet

(* Cookie starts are queued; stubs become imports. *)
LEMMA CookieKeepsCalls ==
    ASSUME Inv, QInv, CInv, StaysInPass, Keeps, CookieWave
    PROVE  CInv'
<1>1. /\ ~walk.on /\ walk' = walk /\ Fields /\ IsSeq(main.pending)
  BY DEF CookieWave, At, Inv, QInv, Shapes
<1>2. \E set : /\ an' = [an EXCEPT !.seeds = AddSeeds(@, set, "cookie")]
               /\ main' = [main EXCEPT !.pc = "top", !.pending = Reverse(Ascending(set)) \o @]
  BY Zenon DEF CookieWave
<1>3. PICK set : /\ an' = [an EXCEPT !.seeds = AddSeeds(@, set, "cookie")]
                 /\ main' = [main EXCEPT !.pc = "top", !.pending = Reverse(Ascending(set)) \o @]
  BY <1>2
<1>4. ToSet(Reverse(Ascending(set)) \o main.pending) = (set \cap Addr) \cup ToSet(main.pending)
  BY <1>1, AscendingHasAll, Reversing, ReversedHasAll, Concatenation
<1>5. /\ main'.pending = Reverse(Ascending(set)) \o main.pending
      /\ main'.starts = main.starts /\ main'.told = main.told
      /\ main'.skipped = main.skipped /\ main'.waved = main.waved
  BY <1>1, <1>3 DEF Fields, MainFields
<1>6. an'.forder = an.forder /\ an'.seeds = AddSeeds(an.seeds, set, "cookie")
  BY <1>1, <1>3 DEF Fields, AnalysisFields
<1>7. \A t \in DOMAIN an'.seeds \cap img.exec : SameSeeds(t) \/ t \in ToSet(main'.pending)
  BY <1>1, <1>4, <1>5, <1>6, SeedsAdded DEF Fields
<1> QED BY <1>1, <1>4, <1>5, <1>6, <1>7, FillsKeepsCalls

(* Every collected seed is in the first queue: its priority, its order      *)
(* among the roots and its address give it a place of its own.              *)
LEMMA InitialQueueHasAll ==
    ASSUME NEW image, NEW seeds, NEW compat
    PROVE  DOMAIN seeds \cap Addr \subseteq ToSet(InitialQueue(image, seeds, compat))
<1> DEFINE key(a) == <<SeedPriority(seeds[a], compat), RootOrder(image, seeds, a, compat), a>>
           before(a, b) == \E i \in 1..3 : /\ key(a)[i] < key(b)[i]
                                           /\ \A j \in 1..i - 1 : key(a)[j] = key(b)[j]
           in == DOMAIN seeds \cap Addr
           upTo(a) == {b \in in : b = a \/ before(b, a)}
           place(a) == Cardinality({b \in in : b = a \/ before(b, a)})
           queue == InitialQueue(image, seeds, compat)
           n == Cardinality(in)
<1>1. queue = [i \in 1..n |-> CHOOSE a \in in : place(a) = i]
  BY Zenon DEF InitialQueue
<1>2. IsFiniteSet(in) /\ n \in Nat /\ in \subseteq Int
  <2>1. IsFiniteSet(Addr) /\ Addr \subseteq Int
    BY FS_Interval, ImageAssumption DEF Addr
  <2> QED BY <2>1, FS_Subset, FS_CardinalityType
<1>3. \E first, second :
         /\ \A a \in in : first[a] \in Int /\ second[a] \in Int
         /\ \A a, b \in in : before(a, b) <=> \/ first[a] < first[b]
                                              \/ first[a] = first[b] /\ second[a] < second[b]
                                              \/ first[a] = first[b] /\ second[a] = second[b] /\ a < b
  <2> DEFINE first == [a \in in |-> SeedPriority(seeds[a], compat)]
             second == [a \in in |-> RootOrder(image, seeds, a, compat)]
  <2>1. ASSUME NEW kinds
        PROVE  SeedPriority(kinds, compat) \in Int
    BY DEF SeedPriority
  <2>2. ASSUME NEW a
        PROVE  RootOrder(image, seeds, a, compat) \in Int
    BY DEF RootOrder
  <2>3. \A a \in in : key(a) = <<first[a], second[a], a>>
    OBVIOUS
  <2>4. \A a \in in : first[a] \in Int /\ second[a] \in Int
    BY <2>1, <2>2
  <2> HIDE DEF first, second, key, in
  <2>5. ASSUME NEW a \in in, NEW b \in in
        PROVE  before(a, b) <=> \/ first[a] < first[b]
                                \/ first[a] = first[b] /\ second[a] < second[b]
                                \/ first[a] = first[b] /\ second[a] = second[b] /\ a < b
    <3>1. /\ key(a)[1] = first[a] /\ key(a)[2] = second[a] /\ key(a)[3] = a
          /\ key(b)[1] = first[b] /\ key(b)[2] = second[b] /\ key(b)[3] = b
      BY <2>3
    <3>2. before(a, b) <=> \/ key(a)[1] < key(b)[1]
                           \/ key(a)[1] = key(b)[1] /\ key(a)[2] < key(b)[2]
                           \/ key(a)[1] = key(b)[1] /\ key(a)[2] = key(b)[2] /\ key(a)[3] < key(b)[3]
      OBVIOUS
    <3> QED BY <3>1, <3>2
  <2> HIDE DEF before
  <2> QED BY <2>4, <2>5
<1>4. PICK first, second :
         /\ \A a \in in : first[a] \in Int /\ second[a] \in Int
         /\ \A a, b \in in : before(a, b) <=> \/ first[a] < first[b]
                                              \/ first[a] = first[b] /\ second[a] < second[b]
                                              \/ first[a] = first[b] /\ second[a] = second[b] /\ a < b
  BY <1>3
<1> HIDE DEF in, key, before, n, queue
<1>5. ASSUME NEW a \in in, NEW b \in in
      PROVE  /\ a # b => before(a, b) \/ before(b, a)
             /\ ~(before(a, b) /\ before(b, a))
             /\ \A c \in in : before(c, a) /\ before(a, b) => before(c, b)
  BY <1>2, <1>4
<1>6. ASSUME NEW a \in in
      PROVE  place(a) \in 1..n /\ IsFiniteSet(upTo(a))
  <2>1. upTo(a) \in SUBSET in /\ a \in upTo(a)
    OBVIOUS
  <2>2. /\ IsFiniteSet(upTo(a)) /\ Cardinality(upTo(a)) <= n /\ Cardinality(upTo(a)) \in Nat
    BY <1>2, <2>1, FS_Subset, FS_CardinalityType DEF n
  <2>3. Cardinality(upTo(a)) # 0
    BY <2>1, <2>2, FS_EmptySet
  <2> QED BY <1>2, <2>2, <2>3
<1>7. ASSUME NEW a \in in, NEW b \in in, before(a, b)
      PROVE  place(a) # place(b)
  <2>1. upTo(a) \in SUBSET upTo(b) /\ b \in upTo(b) /\ b \notin upTo(a)
    BY <1>5, <1>7
  <2>2. Cardinality(upTo(a)) # Cardinality(upTo(b))
    BY <1>6, <2>1, FS_Subset
  <2> QED BY <2>2
<1>8. \A a, b \in in : place(a) = place(b) => a = b
  BY <1>5, <1>7
<1>9. \A i \in 1..n : \E a \in in : place(a) = i
  <2> DEFINE rank == [a \in in |-> place(a)]
  <2>1. rank \in [in -> 1..n] /\ \A a, b \in in : rank[a] = rank[b] => a = b
    BY <1>6, <1>8
  <2>2. \A i \in 1..n : \E a \in in : rank[a] = i
    <3>1. n = Cardinality(in) /\ IsFiniteSet(in)
      BY <1>2 DEF n
    <3> HIDE DEF rank
    <3> QED BY <2>1, <3>1, PlacesAreFilled
  <2> QED BY <2>2
<1>10. DOMAIN queue = 1..n /\ \A i \in 1..n : queue[i] \in in /\ place(queue[i]) = i
  BY <1>1, <1>9
<1>11. in \subseteq ToSet(queue)
  <2> SUFFICES ASSUME NEW a \in in
               PROVE  a \in ToSet(queue)
    OBVIOUS
  <2>1. place(a) \in 1..n /\ queue[place(a)] = a
    BY <1>6, <1>8, <1>10
  <2> QED BY <1>10, <2>1 DEF ToSet
<1> QED BY <1>11 DEF in, queue

(* A pass begins with every seed in the queue. *)
LEMMA StartKeepsCalls ==
    ASSUME Inv, QInv, CInv, StartPass
    PROVE  CInv'
<1> DEFINE compat == IsCompatible(img)
           base == BaseSeeds(img)
           seeds == IF compat THEN KeptSeeds(base) ELSE base
           pending == InitialQueue(img, seeds, compat)
           at == IF img.plt = <<>> THEN 0 ELSE img.plt[1][1]
<1>1. /\ ~walk.on /\ walk' = walk /\ Fields /\ UNCHANGED img
  BY DEF StartPass, At, Inv
<1>2. /\ an' = EmptyAnalysis(seeds)
      /\ main' = [main EXCEPT !.pc = IF compat /\ img.format = "elf" THEN "plt" ELSE "top",
                              !.pending = pending,
                              !.starts = {}, !.isolated = {}, !.late = FALSE, !.told = FALSE,
                              !.early = ~compat, !.known = {}, !.todo = img.plt,
                              !.skipped = {}, !.waved = {}, !.at = at]
  BY Zenon DEF StartPass
<1>3. DOMAIN seeds \cap Addr \subseteq ToSet(pending)
  <2> HIDE DEF seeds, compat
  <2> QED BY InitialQueueHasAll
<1> HIDE DEF pending, compat, at, seeds
<1>4. main'.pc \in {"plt", "top"} /\ main'.pending = pending
  BY <1>1, <1>2 DEF Fields, MainFields
<1>5. an'.seeds = seeds /\ an'.insns = {} /\ an'.forder = <<>>
  BY <1>2 DEF EmptyAnalysis
<1>6. SeedsAreTaken'
  BY <1>1, <1>3, <1>4, <1>5 DEF Fields, SeedsAreTaken, Served, Placed
<1>7. OrderIsHeld'
  BY <1>5, Short DEF OrderIsHeld
<1>8. Callers'
  <2>1. ~walk'.on
    BY <1>1
  <2> QED BY <1>4, <2>1 DEF Callers
<1> QED BY <1>4, <1>5, <1>6, <1>7, <1>8 DEF CInv, CallsAreNoted, CallGraphIsClosed, Done

(* The queue is empty: what is called was walked or waits for good, or is a *)
(* pattern that was passed over.                                            *)
LEMMA EndSweepKeepsCalls ==
    ASSUME Inv, QInv, CInv, EndSweep
    PROVE  CInv'
<1>1. /\ main.pc = "views" /\ ~walk.on /\ UNCHANGED <<img, graph, walk>> /\ Fields
      /\ main.pending = <<>> /\ walk = NoWalk /\ Due(NoWalk) = {} /\ NoWalk.calls = {}
      /\ NoWalk.tasks = <<>> /\ NoWalk.at = None
  BY Idle DEF EndSweep, At, Inv, QInv, EndsEmpty, NoWalk
<1>2. /\ main'.pc \in {"done", "pass"} /\ main'.starts = main.starts /\ main'.told = main.told
      /\ main'.pending = <<>> /\ main'.skipped = main.skipped /\ main'.waved = main.waved
  <2>1. \/ main' = Goto("done")
        \/ \E pass, next : main' = [main EXCEPT !.pc = "pass", !.pass = pass, !.noreturn = next]
    BY Zenon DEF EndSweep
  <2> QED BY <1>1, <2>1 DEF Fields, Goto, MainFields
<1>3. QInv'
  BY EndSweepKeepsQueue
<1>4. Keeps /\ Remembers
  <2>1. Keeps
    BY EndSweepInv
  <2>2. Marks
    BY <1>2 DEF Marks
  <2> QED BY <2>1, <2>2, StepsRemember
<1>5. an'.seeds = an.seeds /\ an'.insns = an.insns /\ an'.forder = an.forder
  <2> DEFINE fs(functions) == WithCaptured(functions)
             ds(views) == an.diags \cup {<<f, "oversized">> : f \in Swept \ DOMAIN views}
             swept(views, functions) == [an EXCEPT !.functions = fs(functions), !.diags = ds(views)]
             Ends(x, next) ==
               \/ an' = [x EXCEPT !.noreturn = PublishedSet(next), !.callees = Callees(x.functions)]
               \/ an' = x
  <2>1. \E views \in {ViewsOf(Swept)} : \E functions \in {WithFragments(views)} :
           \E next \in {IF graph.compat THEN graph.known
                        ELSE Propagate(img, [an EXCEPT !.functions = functions])} :
              Ends(swept(views, functions), next)
    BY DEF EndSweep
  <2>2. PICK views, functions, next : Ends(swept(views, functions), next)
    <3> HIDE DEF swept, Ends
    <3> QED BY <2>1
  <2> DEFINE x == swept(views, functions)
  <2>3. /\ DOMAIN x = AnalysisFields /\ x.seeds = an.seeds /\ x.insns = an.insns
        /\ x.forder = an.forder
    <3> HIDE DEF fs, ds
    <3> QED BY <1>1 DEF Fields, AnalysisFields
  <2> HIDE DEF x
  <2> QED BY <2>2, <2>3 DEF x, AnalysisFields
<1>6. \A t : /\ Held(t) <=> t \in graph.delayed \cup DOMAIN graph.completed \/ TooLarge(t)
             /\ Held(t) => Held(t)'
  BY <1>1, <1>4, LargeStays DEF Held
<1>7. SeedsAreTaken'
  <2> SUFFICES ASSUME ~main.told, ~Cut, NEW t \in DOMAIN an.seeds \cap img.exec
               PROVE  Served(t)'
    BY <1>1, <1>2, <1>4, <1>5 DEF SeedsAreTaken, Remembers
  <2>1. Served(t) /\ SameSeeds(t)
    BY <1>1, <1>5, SeedsStay DEF CInv, SeedsAreTaken
  <2> QED BY <1>1, <1>2, <1>4, <1>5, <1>6, <2>1 DEF Served, Placed, Remembers
<1>8. OrderIsHeld'
  BY <1>1, <1>4, <1>5, <1>6 DEF CInv, OrderIsHeld, Remembers
<1>9. \A a \in an.insns : CallsExecutable(a) /\ ~Cut => "call" \in KindsAt(an.seeds, img.at[a].direct)
  <2>1. \A a : ~Awaits(a)
    BY <1>1, Short DEF Awaits
  <2> QED BY <1>1, <2>1 DEF CInv, CallsAreNoted
<1>10. CallsAreNoted'
  BY <1>1, <1>4, <1>5, <1>9 DEF CallsAreNoted, Remembers
<1>11. Callers'
  <2>1. ~walk'.on
    BY <1>1
  <2> QED BY <2>1 DEF Callers
<1>12. CallGraphIsClosed'
  <2> SUFFICES ASSUME Done', ~Limited', NEW a \in an.insns, CallsExecutable(a),
                      NEW t, t = img.at[a].direct,
                      t \notin DOMAIN an'.functions \cup graph.delayed, ~TooLarge(t)'
               PROVE  PassedOver(t)'
    BY <1>1, <1>4, <1>5 DEF CallGraphIsClosed, Remembers
  <2>1. ~main.told
    BY <1>2, <1>3 DEF QInv, ToldIsNoted, Limited
  <2>2. ~Cut
    BY <1>4 DEF Limited, Cut, Remembers
  <2>3. t \in img.exec /\ t \in DOMAIN an.seeds /\ "call" \in an.seeds[t]
    BY <1>9, <2>2 DEF CallsExecutable, KindsAt
  <2>4. Served(t)
    BY <1>1, <2>1, <2>2, <2>3 DEF CInv, SeedsAreTaken
  <2>5. t \notin main.starts /\ t \notin DOMAIN graph.completed
    BY <1>1, <1>2, <1>3, <2>3 DEF QInv, NothingIsLost
  <2>6. PassedOver(t)
    BY <1>1, <1>4, <1>6, <2>3, <2>4, <2>5, LargeStays, Short DEF Served, Placed, Shelved, SignatureKinds
  <2> QED BY <1>4, <1>5, <2>3, <2>6, SeedsStay DEF Remembers
<1> QED BY <1>7, <1>8, <1>10, <1>11, <1>12 DEF CInv

----------------------------------------------------------------------------
(* The invariant *)

(* Nothing is seeded or walked before the first pass. *)
LEMMA InitCalls ==
    ASSUME Init
    PROVE  CInv
<1>1. main.pc = "pass" /\ walk = NoWalk /\ an.insns = {} /\ an.forder = <<>>
  BY DEF Init, EmptyAnalysis
<1>2. ~walk.on
  BY <1>1 DEF NoWalk
<1> QED BY <1>1, <1>2, Short
       DEF CInv, SeedsAreTaken, OrderIsHeld, CallsAreNoted, Callers, CallGraphIsClosed, Done

(* Every step keeps it. *)
LEMMA NextCalls ==
    ASSUME Inv, QInv, CInv, [Next]_vars
    PROVE  CInv'
<1>1. CASE WalkStep
  BY <1>1, WalkKeepsCalls, EndWalkKeepsCalls, AbandonKeepsCalls
<1>2. CASE StartPass
  BY <1>2, StartKeepsCalls
<1>3. CASE EndSweep
  BY <1>3, EndSweepKeepsCalls
<1>4. CASE SweepStep /\ ~StartPass /\ ~EndSweep
  <2>1. StaysInPass /\ Keeps
    BY <1>4, SweepStays
  <2> QED BY <1>4, <2>1, LoopKeepsCalls, NextKeepsCalls, PopKeepsCalls, LooseKeepsCalls,
             EarlyKeepsCalls, GoKeepsCalls, CookieKeepsCalls DEF SweepStep
<1>5. CASE UNCHANGED vars
  <2>1. UNCHANGED <<img, an, graph, walk, main>>
    BY <1>5 DEF vars
  <2>2. SeedsAreTaken' /\ OrderIsHeld'
    BY <2>1 DEF CInv, SeedsAreTaken, Served, Placed, Shelved, OrderIsHeld, Cut, Held, TooLarge, Due,
                PassedOver, OnlyKinds
  <2>3. CallsAreNoted' /\ Callers'
    BY <2>1 DEF CInv, CallsAreNoted, Callers, Cut, CallsExecutable, Awaits, IsUndecodable, NextOf
  <2>4. CallGraphIsClosed'
    BY <2>1 DEF CInv, CallGraphIsClosed, Done, Limited, TooLarge, CallsExecutable, PassedOver,
                OnlyKinds, NextOf
  <2> QED BY <2>2, <2>3, <2>4 DEF CInv
<1> QED BY <1>1, <1>2, <1>3, <1>4, <1>5 DEF Next, SweepStep, Finished

(* For every image and every bound: when recovery is done and no limit was  *)
(* hit, the executable target of every walked direct call is a function of  *)
(* the result, waits for good, is noted as too large, or is a mere pattern  *)
(* that a wave passed over (recover_functions, discover_flow).              *)
THEOREM CallGraph == Spec => []CallGraphIsClosed
<1>1. Init => QInv
  BY InitQueue
<1>2. Init => CInv
  BY InitCalls
<1>3. Inv /\ QInv /\ [Next]_vars => QInv'
  BY NextQueue
<1>4. Inv /\ QInv /\ CInv /\ [Next]_vars => CInv'
  BY NextCalls
<1>5. CInv => CallGraphIsClosed
  BY DEF CInv
<1> QED BY <1>1, <1>2, <1>3, <1>4, <1>5, Invariance, PTL DEF Spec

----------------------------------------------------------------------------
(* Lists of typed locations *)

Pairs == Int \X Int
IsLocated(locs) == locs \in Seq(Pairs) /\ IsIntervalList(locs)

(* A set of places that has all places before each of its own.              *)
LEMMA PrefixIs ==
    ASSUME NEW n \in Nat, NEW P, P \subseteq 1..n, \A i \in P : \A j \in 1..i - 1 : j \in P
    PROVE  Cardinality(P) \in 0..n /\ P = 1..Cardinality(P)
<1> DEFINE out == (1..n + 1) \ P
           k == Min(out)
<1>1. n + 1 \in out /\ out \subseteq Nat
  OBVIOUS
<1>2. k \in out /\ \A y \in out : k <= y
  <2> HIDE DEF out
  <2> QED BY <1>1, MinIsIn
<1> HIDE DEF k
<1>3. k - 1 \in 0..n /\ P = 1..k - 1
  <2>1. k \in 1..n + 1 /\ k \notin P
    BY <1>2
  <2>2. \A i \in 1..k - 1 : i \in P
    BY <1>2, <2>1
  <2>3. \A i \in P : i < k
    BY <2>1
  <2>4. P \subseteq 1..k - 1
    BY <2>1, <2>3
  <2>5. 1..k - 1 \subseteq P
    BY <2>2
  <2>6. P = 1..k - 1
    BY <2>4, <2>5, Zenon
  <2>7. k - 1 \in 0..n
    BY <2>1
  <2> QED BY <2>6, <2>7
<1>4. Cardinality(1..k - 1) = k - 1
  BY <1>3, FS_Interval
<1> QED BY <1>3, <1>4

(* How many intervals end before, or start by, an address: the first ones.  *)
LEMMA PartitionPoints ==
    ASSUME NEW locs, IsLocated(locs), NEW a \in Int
    PROVE  /\ EndingBefore(locs, a) \in 0..Len(locs) /\ EndingBy(locs, a) \in 0..Len(locs)
           /\ StartingBefore(locs, a) \in 0..Len(locs) /\ StartingBy(locs, a) \in 0..Len(locs)
           /\ \A i \in DOMAIN locs : /\ locs[i][2] < a <=> i <= EndingBefore(locs, a)
                                     /\ locs[i][2] <= a <=> i <= EndingBy(locs, a)
                                     /\ locs[i][1] < a <=> i <= StartingBefore(locs, a)
                                     /\ locs[i][1] <= a <=> i <= StartingBy(locs, a)
<1>1. /\ DOMAIN locs = 1..Len(locs) /\ Len(locs) \in Nat
      /\ \A i \in DOMAIN locs : /\ locs[i][1] \in Int /\ locs[i][2] \in Int
                                /\ locs[i][1] < locs[i][2]
                                /\ \A j \in 1..i - 1 : j \in DOMAIN locs /\ locs[j][2] < locs[i][1]
  BY DEF IsLocated, IsIntervalList, Pairs
<1>2. \A i \in DOMAIN locs : \A j \in 1..i - 1 : locs[j][1] < locs[i][1] /\ locs[j][2] < locs[i][2]
  BY <1>1
<1>3. ASSUME NEW P, P \subseteq DOMAIN locs, \A i \in P : \A j \in 1..i - 1 : j \in P
      PROVE  Cardinality(P) \in 0..Len(locs) /\ \A i \in DOMAIN locs : i \in P <=> i <= Cardinality(P)
  <2>1. Cardinality(P) \in 0..Len(locs) /\ P = 1..Cardinality(P)
    BY <1>1, <1>3, PrefixIs
  <2> QED BY <1>1, <2>1
<1> DEFINE A == {i \in DOMAIN locs : locs[i][2] < a}
           B == {i \in DOMAIN locs : locs[i][2] <= a}
           C == {i \in DOMAIN locs : locs[i][1] < a}
           D == {i \in DOMAIN locs : locs[i][1] <= a}
<1>4. \A S \in {A, B, C, D} : S \subseteq DOMAIN locs /\ \A i \in S : \A j \in 1..i - 1 : j \in S
  <2>1. \A i \in DOMAIN locs : \A j \in 1..i - 1 :
           /\ j \in DOMAIN locs
           /\ locs[i][2] < a => locs[j][2] < a
           /\ locs[i][2] <= a => locs[j][2] <= a
           /\ locs[i][1] < a => locs[j][1] < a
           /\ locs[i][1] <= a => locs[j][1] <= a
    <3> SUFFICES ASSUME NEW i \in DOMAIN locs, NEW j \in 1..i - 1
                 PROVE  /\ j \in DOMAIN locs
                        /\ locs[i][2] < a => locs[j][2] < a
                        /\ locs[i][2] <= a => locs[j][2] <= a
                        /\ locs[i][1] < a => locs[j][1] < a
                        /\ locs[i][1] <= a => locs[j][1] <= a
      OBVIOUS
    <3>1. /\ j \in DOMAIN locs /\ locs[j][1] \in Int /\ locs[j][2] \in Int
          /\ locs[i][1] \in Int /\ locs[i][2] \in Int
          /\ locs[j][1] < locs[i][1] /\ locs[j][2] < locs[i][2]
      BY <1>1, <1>2
    <3> QED BY <3>1
  <2> QED BY <2>1
<1>5. \A S \in {A, B, C, D} : /\ Cardinality(S) \in 0..Len(locs)
                              /\ \A i \in DOMAIN locs : i \in S <=> i <= Cardinality(S)
  <2> HIDE DEF A, B, C, D
  <2> QED BY <1>3, <1>4
<1> QED BY <1>5 DEF EndingBefore, EndingBy, StartingBefore, StartingBy

(* What a splice is.                                                        *)
IsSplice(s, locs, first, last, new) ==
    /\ s \in Seq(Pairs) /\ DOMAIN s = 1..first + Len(new) + (Len(locs) - last)
    /\ \A i \in DOMAIN s :
         s[i] = IF i <= first THEN locs[i]
                ELSE IF i <= first + Len(new) THEN new[i - first]
                ELSE locs[i - first - Len(new) + last]

LEMMA SpliceIs ==
    ASSUME NEW locs \in Seq(Pairs), NEW new \in Seq(Pairs),
           NEW first \in Nat, NEW last \in Nat, first <= last, last <= Len(locs)
    PROVE  IsSplice(Splice(locs, first, last, new), locs, first, last, new)
<1> DEFINE head == SubSeq(locs, 1, first)
           tail == SubSeq(locs, last + 1, Len(locs))
<1>1. /\ head \in Seq(Pairs) /\ Len(head) = first /\ \A i \in 1..first : head[i] = locs[i]
  BY SubSeqProperties
<1>2. /\ tail \in Seq(Pairs) /\ Len(tail) = Len(locs) - last
      /\ \A i \in 1..Len(locs) - last : tail[i] = locs[last + i]
  <2>1. SubSeq(locs, last + 1, Len(locs)) = [i \in 1..Len(locs) - last |-> locs[i + last]]
    BY DEF SubSeq
  <2> QED BY <2>1
<1> DEFINE mid == head \o new
<1>3. /\ mid \in Seq(Pairs) /\ Len(mid) = first + Len(new)
      /\ \A i \in 1..first + Len(new) : mid[i] = IF i <= first THEN locs[i] ELSE new[i - first]
  <2> HIDE DEF head
  <2>1. /\ head \o new \in Seq(Pairs) /\ Len(head \o new) = first + Len(new)
        /\ \A i \in 1..first + Len(new) :
              (head \o new)[i] = IF i <= first THEN head[i] ELSE new[i - first]
    BY <1>1, ConcatProperties
  <2> QED BY <1>1, <2>1
<1>4. Splice(locs, first, last, new) = mid \o tail
  BY DEF Splice
<1> HIDE DEF mid, tail
<1>5. /\ mid \o tail \in Seq(Pairs) /\ Len(mid \o tail) = Len(mid) + Len(tail)
      /\ \A i \in 1..Len(mid) + Len(tail) :
            (mid \o tail)[i] = IF i <= Len(mid) THEN mid[i] ELSE tail[i - Len(mid)]
  <2>1. mid \in Seq(Pairs) /\ tail \in Seq(Pairs)
    BY <1>2, <1>3
  <2> QED BY <2>1, ConcatProperties
<1> DEFINE s == mid \o tail
<1> HIDE DEF s
<1>8. /\ s \in Seq(Pairs) /\ Len(s) = Len(mid) + Len(tail)
      /\ \A i \in 1..Len(mid) + Len(tail) : s[i] = IF i <= Len(mid) THEN mid[i] ELSE tail[i - Len(mid)]
  BY <1>5 DEF s
<1>6. s \in Seq(Pairs) /\ DOMAIN s = 1..first + Len(new) + (Len(locs) - last)
  <2>1. DOMAIN s = 1..Len(s)
    BY <1>8
  <2>2. Len(s) = first + Len(new) + (Len(locs) - last)
    BY <1>2, <1>3, <1>8
  <2> QED BY <1>8, <2>1, <2>2
<1>7. ASSUME NEW i \in DOMAIN s
      PROVE  s[i] = IF i <= first THEN locs[i]
                    ELSE IF i <= first + Len(new) THEN new[i - first]
                    ELSE locs[i - first - Len(new) + last]
  <2>1. Len(mid) = first + Len(new) /\ Len(new) \in Nat /\ i \in 1..Len(mid) + Len(tail)
    BY <1>2, <1>3, <1>6
  <2>2. CASE i <= first + Len(new)
    BY <1>3, <1>8, <2>1, <2>2
  <2>3. CASE i > first + Len(new)
    <3> DEFINE m == i - (first + Len(new))
    <3>1. m \in 1..Len(locs) - last /\ last + m = i - first - Len(new) + last
      BY <1>2, <2>1, <2>3
    <3>2. s[i] = tail[m]
      BY <1>8, <2>1, <2>3
    <3>3. tail[m] = locs[last + m]
      <4> HIDE DEF m
      <4> QED BY <1>2, <3>1
    <3>4. ~(i <= first) /\ ~(i <= first + Len(new))
      BY <2>1, <2>3
    <3>5. s[i] = locs[i - first - Len(new) + last]
      <4> HIDE DEF m
      <4> QED BY <3>1, <3>2, <3>3
    <3> QED BY <3>4, <3>5
  <2> QED BY <2>1, <2>2, <2>3
<1>9. IsSplice(s, locs, first, last, new)
  BY <1>6, <1>7 DEF IsSplice
<1> QED BY <1>4, <1>9 DEF s

(* Intervals apart from those that stay may be put into the list.           *)
LEMMA SpliceKeeps ==
    ASSUME NEW locs, IsLocated(locs), NEW new, IsLocated(new),
           NEW first \in Nat, NEW last \in Nat, first <= last, last <= Len(locs),
           \A k \in DOMAIN new : /\ \A i \in 1..first : locs[i][2] < new[k][1]
                                 /\ \A j \in last + 1..Len(locs) : new[k][2] < locs[j][1]
    PROVE  IsLocated(Splice(locs, first, last, new))
<1> DEFINE s == Splice(locs, first, last, new)
           n == Len(new)
           place(i) == i - first - n + last
<1>1. locs \in Seq(Pairs) /\ new \in Seq(Pairs)
  BY DEF IsLocated
<1>2. /\ s \in Seq(Pairs) /\ DOMAIN s = 1..first + n + (Len(locs) - last)
      /\ \A i \in DOMAIN s :
           s[i] = IF i <= first THEN locs[i]
                  ELSE IF i <= first + n THEN new[i - first] ELSE locs[i - first - n + last]
  <2>1. IsSplice(s, locs, first, last, new)
    BY <1>1, SpliceIs
  <2> HIDE DEF s
  <2> QED BY <2>1 DEF IsSplice
<1> HIDE DEF s, n
<1>3. /\ n \in Nat /\ DOMAIN new = 1..n /\ Len(locs) \in Nat /\ DOMAIN locs = 1..Len(locs)
  BY <1>1 DEF n
<1>4. \A i \in DOMAIN locs : locs[i][1] < locs[i][2] /\ \A j \in 1..i - 1 : locs[j][2] < locs[i][1]
  BY DEF IsLocated, IsIntervalList
<1>5. \A i \in DOMAIN new : new[i][1] < new[i][2] /\ \A j \in 1..i - 1 : new[j][2] < new[i][1]
  BY DEF IsLocated, IsIntervalList
<1>6. /\ \A i \in 1..first : i \in DOMAIN locs /\ s[i] = locs[i]
      /\ \A i \in first + 1..first + n : i - first \in DOMAIN new /\ s[i] = new[i - first]
      /\ \A i \in first + n + 1..first + n + (Len(locs) - last) :
            place(i) \in DOMAIN locs /\ place(i) > last /\ s[i] = locs[place(i)]
  <2>1. ASSUME NEW i \in 1..first
        PROVE  i \in DOMAIN locs /\ s[i] = locs[i]
    <3>1. i \in DOMAIN locs /\ i \in DOMAIN s /\ i <= first
      BY <1>2, <1>3
    <3> QED BY <1>2, <3>1
  <2>2. ASSUME NEW i \in first + 1..first + n
        PROVE  i - first \in DOMAIN new /\ s[i] = new[i - first]
    <3>1. i - first \in DOMAIN new /\ i \in DOMAIN s /\ ~(i <= first) /\ i <= first + n
      BY <1>2, <1>3
    <3> QED BY <1>2, <3>1
  <2>3. ASSUME NEW i \in first + n + 1..first + n + (Len(locs) - last)
        PROVE  place(i) \in DOMAIN locs /\ place(i) > last /\ s[i] = locs[place(i)]
    <3>1. /\ place(i) \in DOMAIN locs /\ place(i) > last
          /\ i \in DOMAIN s /\ ~(i <= first) /\ ~(i <= first + n)
      BY <1>2, <1>3
    <3> QED BY <1>2, <3>1
  <2> QED BY <2>1, <2>2, <2>3
<1>7. ASSUME NEW i \in DOMAIN s
      PROVE  s[i][1] < s[i][2] /\ \A j \in 1..i - 1 : s[j][2] < s[i][1]
  <2>1. CASE i \in 1..first
    BY <1>4, <1>6, <2>1
  <2>2. CASE i \in first + 1..first + n
    <3>1. i - first \in DOMAIN new /\ s[i] = new[i - first]
      BY <1>6, <2>2
    <3>2. \A j \in 1..first : s[j][2] < s[i][1]
      BY <1>6, <3>1
    <3>3. ASSUME NEW j \in first + 1..i - 1
          PROVE  s[j][2] < s[i][1]
      <4>1. s[j] = new[j - first] /\ j - first \in 1..(i - first) - 1
        BY <1>3, <1>6, <2>2
      <4> QED BY <1>5, <3>1, <4>1
    <3>4. \A j \in 1..i - 1 : j \in 1..first \/ j \in first + 1..i - 1
      BY <1>3, <2>2
    <3> QED BY <1>5, <3>1, <3>2, <3>3, <3>4
  <2>3. CASE i \in first + n + 1..first + n + (Len(locs) - last)
    <3>1. place(i) \in last + 1..Len(locs) /\ s[i] = locs[place(i)] /\ place(i) \in DOMAIN locs
      BY <1>3, <1>6, <2>3
    <3>2. ASSUME NEW j \in 1..first
          PROVE  s[j][2] < s[i][1]
      <4>1. s[j] = locs[j] /\ j \in 1..place(i) - 1
        BY <1>3, <1>6, <3>1
      <4> QED BY <1>4, <3>1, <4>1
    <3>3. ASSUME NEW j \in first + 1..first + n
          PROVE  s[j][2] < s[i][1]
      <4>1. s[j] = new[j - first] /\ j - first \in DOMAIN new
        BY <1>6
      <4> QED BY <3>1, <4>1
    <3>4. ASSUME NEW j \in first + n + 1..i - 1
          PROVE  s[j][2] < s[i][1]
      <4>1. j \in first + n + 1..first + n + (Len(locs) - last)
        BY <1>3, <2>3
      <4>2. s[j] = locs[place(j)] /\ place(j) \in 1..place(i) - 1
        BY <1>3, <1>6, <2>3, <4>1
      <4> HIDE DEF place
      <4> QED BY <1>4, <3>1, <4>2
    <3>5. \A j \in 1..i - 1 : j \in 1..first \/ j \in first + 1..first + n \/ j \in first + n + 1..i - 1
      BY <1>3, <2>3
    <3> QED BY <1>4, <3>1, <3>2, <3>3, <3>4, <3>5
  <2>4. i \in 1..first \/ i \in first + 1..first + n
        \/ i \in first + n + 1..first + n + (Len(locs) - last)
    BY <1>2, <1>3
  <2> QED BY <2>1, <2>2, <2>3, <2>4
<1> QED BY <1>2, <1>7 DEF IsLocated, IsIntervalList, s

(* A list of one interval, or of two that are apart.                        *)
LEMMA ShortLists ==
    /\ IsLocated(<<>>)
    /\ \A a, b \in Int : a < b => IsLocated(<<<<a, b>>>>)
    /\ \A a, b, c, d \in Int : a < b /\ b < c /\ c < d => IsLocated(<<<<a, b>>, <<c, d>>>>)
<1>1. IsLocated(<<>>)
  BY DEF IsLocated, IsIntervalList
<1>2. \A a, b \in Int : a < b => IsLocated(<<<<a, b>>>>)
  BY DEF IsLocated, IsIntervalList, Pairs
<1>3. ASSUME NEW a \in Int, NEW b \in Int, NEW c \in Int, NEW d \in Int, a < b, b < c, c < d
      PROVE  IsLocated(<<<<a, b>>, <<c, d>>>>)
  <2> DEFINE s == <<<<a, b>>, <<c, d>>>>
  <2>1. s \in Seq(Pairs) /\ DOMAIN s = 1..2 /\ s[1] = <<a, b>> /\ s[2] = <<c, d>>
    BY DEF Pairs
  <2> HIDE DEF s
  <2>2. \A i \in 1..2 : s[i][1] < s[i][2] /\ \A j \in 1..i - 1 : s[j][2] < s[i][1]
    BY <1>3, <2>1
  <2> QED BY <2>1, <2>2 DEF IsLocated, IsIntervalList, s
<1> QED BY <1>1, <1>2, <1>3

(* The least and the greatest of two.                                       *)
LEMMA OfTwo ==
    ASSUME NEW a \in Int, NEW b \in Int
    PROVE  /\ Min({a, b}) = IF a <= b THEN a ELSE b
           /\ Max({a, b}) = IF a >= b THEN a ELSE b
<1>1. CASE a <= b
  BY <1>1 DEF Min, Max
<1>2. CASE b < a
  BY <1>2 DEF Min, Max
<1> QED BY <1>1, <1>2

(* insert_location keeps the intervals apart, and every one of them in      *)
(* order: what the new one touches becomes a part of it.                    *)
LEMMA InsertionKeeps ==
    ASSUME NEW locs, IsLocated(locs), NEW start \in Int, NEW size \in Nat \ {0}
    PROVE  IsLocated(InsertLocation(locs, start, size))
<1> DEFINE end == start + size
           first == EndingBefore(locs, start)
           last == StartingBy(locs, end)
           hit == {i \in DOMAIN locs : first < i /\ i <= last}
           low == IF hit # {} THEN Min({start, locs[first + 1][1]}) ELSE start
           high == IF hit # {} THEN Max({end, locs[last][2]}) ELSE end
<1>1. InsertLocation(locs, start, size) = Splice(locs, first, last, <<<<low, high>>>>)
  BY DEF InsertLocation
<1>2. /\ DOMAIN locs = 1..Len(locs) /\ Len(locs) \in Nat
      /\ \A i \in DOMAIN locs : /\ locs[i][1] \in Int /\ locs[i][2] \in Int
                                /\ locs[i][1] < locs[i][2]
                                /\ \A j \in 1..i - 1 : locs[j][2] < locs[i][1]
  BY DEF IsLocated, IsIntervalList, Pairs
<1>3. /\ end \in Int /\ start < end /\ first \in 0..Len(locs) /\ last \in 0..Len(locs)
      /\ \A i \in DOMAIN locs : locs[i][2] < start <=> i <= first
      /\ \A i \in DOMAIN locs : locs[i][1] <= end <=> i <= last
  <2>1. end \in Int /\ start < end
    OBVIOUS
  <2> HIDE DEF end
  <2> QED BY <2>1, PartitionPoints
<1>4. hit = first + 1..last
  BY <1>2, <1>3
<1> HIDE DEF end, first, last, hit
<1>5. first <= last
  <2>1. CASE first = 0
    BY <1>3, <2>1
  <2>2. CASE first > 0
    <3>1. first \in DOMAIN locs /\ locs[first][2] < start
      BY <1>2, <1>3, <2>2
    <3>2. locs[first][1] <= end
      BY <1>2, <1>3, <3>1
    <3> QED BY <1>3, <3>1, <3>2
  <2> QED BY <1>3, <2>1, <2>2
<1>6. /\ low \in Int /\ high \in Int /\ low <= start /\ end <= high
      /\ \A i \in 1..first : locs[i][2] < low
      /\ \A j \in last + 1..Len(locs) : high < locs[j][1]
  <2>1. \A i \in 1..first : i \in DOMAIN locs /\ locs[i][2] < start
    BY <1>2, <1>3
  <2>2. \A j \in last + 1..Len(locs) : j \in DOMAIN locs /\ end < locs[j][1]
    BY <1>2, <1>3
  <2>3. CASE hit = {}
    BY <1>3, <2>1, <2>2, <2>3
  <2>4. CASE hit # {}
    <3>1. first + 1 \in DOMAIN locs /\ last \in DOMAIN locs /\ first + 1 <= last
      BY <1>2, <1>3, <1>4, <2>4
    <3> DEFINE p == locs[first + 1][1]
               q == locs[last][2]
    <3>2. p \in Int /\ q \in Int
      BY <1>2, <3>1
    <3>3. low = Min({start, p}) /\ high = Max({end, q})
      BY <2>4
    <3>4. \A i \in 1..first : locs[i][2] < p
      BY <1>2, <1>3, <3>1
    <3>5. ASSUME NEW j \in last + 1..Len(locs)
          PROVE  q < locs[j][1]
      <4>1. j \in DOMAIN locs /\ last \in 1..j - 1
        BY <1>2, <1>3, <3>1
      <4> QED BY <1>2, <4>1
    <3> HIDE DEF p, q, low, high
    <3>6. /\ low = (IF start <= p THEN start ELSE p)
          /\ high = (IF end >= q THEN end ELSE q)
      BY <1>3, <3>2, <3>3, OfTwo
    <3> QED BY <1>3, <2>1, <2>2, <3>2, <3>4, <3>5, <3>6
  <2> QED BY <2>3, <2>4
<1> HIDE DEF low, high
<1>7. IsLocated(<<<<low, high>>>>)
  BY <1>3, <1>6, ShortLists
<1> DEFINE new == <<<<low, high>>>>
<1>8. DOMAIN new = {1} /\ new[1][1] = low /\ new[1][2] = high
  OBVIOUS
<1> HIDE DEF new
<1>9. IsLocated(Splice(locs, first, last, new))
  <2>1. IsLocated(new)
    BY <1>7 DEF new
  <2>2. \A k \in DOMAIN new : /\ \A i \in 1..first : locs[i][2] < new[k][1]
                             /\ \A j \in last + 1..Len(locs) : new[k][2] < locs[j][1]
    BY <1>6, <1>8
  <2>3. first \in Nat /\ last \in Nat /\ last <= Len(locs)
    BY <1>2, <1>3
  <2> QED BY <1>5, <2>1, <2>2, <2>3, SpliceKeeps
<1> QED BY <1>1, <1>9 DEF new

(* Cutting out code leaves what lies before and behind it.                  *)
LEMMA CuttingKeeps ==
    ASSUME NEW locs, IsLocated(locs), NEW start \in Int, NEW end \in Int, start < end
    PROVE  IsLocated(CutLocation(locs, start, end))
<1> DEFINE first == EndingBy(locs, start)
           last == StartingBefore(locs, end)
           left == IF locs[first + 1][1] < start THEN <<<<locs[first + 1][1], start>>>> ELSE <<>>
           right == IF end < locs[last][2] THEN <<<<end, locs[last][2]>>>> ELSE <<>>
<1>1. CutLocation(locs, start, end)
         = IF first >= last THEN locs ELSE Splice(locs, first, last, left \o right)
  BY DEF CutLocation
<1>2. /\ DOMAIN locs = 1..Len(locs) /\ Len(locs) \in Nat
      /\ \A i \in DOMAIN locs : /\ locs[i][1] \in Int /\ locs[i][2] \in Int
                                /\ locs[i][1] < locs[i][2]
                                /\ \A j \in 1..i - 1 : locs[j][2] < locs[i][1]
  BY DEF IsLocated, IsIntervalList, Pairs
<1>3. /\ first \in 0..Len(locs) /\ last \in 0..Len(locs)
      /\ \A i \in DOMAIN locs : locs[i][2] <= start <=> i <= first
      /\ \A i \in DOMAIN locs : locs[i][1] < end <=> i <= last
  BY PartitionPoints
<1> HIDE DEF first, last
<1>4. SUFFICES ASSUME first < last
               PROVE  IsLocated(Splice(locs, first, last, left \o right))
  BY <1>1, <1>3
<1> DEFINE p == locs[first + 1][1]
           q == locs[last][2]
<1>5. first + 1 \in DOMAIN locs /\ last \in DOMAIN locs /\ p \in Int /\ q \in Int
  BY <1>2, <1>3, <1>4
<1>6. /\ \A i \in 1..first : locs[i][2] < p /\ locs[i][2] <= start
      /\ \A j \in last + 1..Len(locs) : q < locs[j][1] /\ end <= locs[j][1]
      /\ p < end /\ start < q
  <2>1. ASSUME NEW i \in 1..first
        PROVE  locs[i][2] < p /\ locs[i][2] <= start
    <3>1. i \in DOMAIN locs /\ i \in 1..(first + 1) - 1 /\ i <= first
      BY <1>2, <1>3
    <3>2. locs[i][2] < p
      BY <1>2, <1>5, <3>1
    <3>3. locs[i][2] <= start
      BY <1>3, <3>1
    <3> QED BY <3>2, <3>3
  <2>2. ASSUME NEW j \in last + 1..Len(locs)
        PROVE  q < locs[j][1] /\ end <= locs[j][1]
    <3>1. j \in DOMAIN locs /\ last \in 1..j - 1 /\ ~(j <= last)
      BY <1>2, <1>3, <1>5
    <3>2. q < locs[j][1]
      BY <1>2, <3>1
    <3>3. ~(locs[j][1] < end) /\ locs[j][1] \in Int
      BY <1>2, <1>3, <3>1
    <3> QED BY <3>2, <3>3
  <2>3. p < end /\ start < q
    BY <1>2, <1>3, <1>4, <1>5
  <2> QED BY <2>1, <2>2, <2>3
<1> DEFINE new == left \o right
           Apart(k) == /\ \A i \in 1..first : locs[i][2] < new[k][1]
                       /\ \A j \in last + 1..Len(locs) : new[k][2] < locs[j][1]
<1> HIDE DEF p, q
<1>9. ASSUME NEW j \in last + 1..Len(locs)
      PROVE  start < locs[j][1] /\ locs[j][1] \in Int
  <2>1. end <= locs[j][1] /\ locs[j][1] \in Int
    <3>1. j \in DOMAIN locs
      BY <1>2, <1>3
    <3> QED BY <1>2, <1>6, <3>1
  <2> QED BY <2>1
<1>10. ASSUME NEW i \in 1..first
       PROVE  locs[i][2] < end /\ locs[i][2] \in Int
  <2>1. locs[i][2] <= start /\ locs[i][2] \in Int
    <3>1. i \in DOMAIN locs
      BY <1>2, <1>3
    <3> QED BY <1>2, <1>6, <3>1
  <2> QED BY <2>1
<1>7. IsLocated(new) /\ \A k \in DOMAIN new : Apart(k)
  <2>1. left = (IF p < start THEN <<<<p, start>>>> ELSE <<>>) /\ right = (IF end < q THEN <<<<end, q>>>> ELSE <<>>)
    BY DEF p, q
  <2> HIDE DEF left, right
  <2>2. CASE ~(p < start) /\ ~(end < q)
    <3>1. new = <<>>
      BY <2>1, <2>2
    <3> HIDE DEF new
    <3> QED BY <3>1, ShortLists
  <2>3. CASE p < start /\ ~(end < q)
    <3>1. new = <<<<p, start>>>>
      BY <2>1, <2>3
    <3> HIDE DEF new
    <3>2. DOMAIN new = {1} /\ new[1][1] = p /\ new[1][2] = start
      BY <3>1
    <3> QED BY <1>5, <1>6, <1>9, <2>3, <3>1, <3>2, ShortLists
  <2>4. CASE ~(p < start) /\ end < q
    <3>1. new = <<<<end, q>>>>
      BY <2>1, <2>4
    <3> HIDE DEF new
    <3>2. DOMAIN new = {1} /\ new[1][1] = end /\ new[1][2] = q
      BY <3>1
    <3> QED BY <1>5, <1>6, <1>10, <2>4, <3>1, <3>2, ShortLists
  <2>5. CASE p < start /\ end < q
    <3>0. ASSUME NEW a, NEW b
          PROVE  <<a>> \o <<b>> = <<a, b>>
      <4>1. <<a>> \in Seq({a, b}) /\ <<b>> \in Seq({a, b}) /\ <<a, b>> \in Seq({a, b})
        OBVIOUS
      <4>2. <<a>> \o <<b>> \in Seq({a, b})
        BY <4>1, ConcatProperties
      <4>3. Len(<<a>> \o <<b>>) = 2
        BY <4>1, ConcatProperties
      <4>4. (<<a>> \o <<b>>)[1] = a /\ (<<a>> \o <<b>>)[2] = b
        BY <4>1, ConcatProperties
      <4>5. Len(<<a, b>>) = 2 /\ \A i \in 1..2 : (<<a>> \o <<b>>)[i] = <<a, b>>[i]
        BY <4>4
      <4> QED BY <4>1, <4>2, <4>3, <4>5, SeqEqual
    <3>1. new = <<<<p, start>>, <<end, q>>>>
      BY <2>1, <2>5, <3>0, Zenon
    <3> HIDE DEF new
    <3>2. DOMAIN new = {1, 2} /\ new[1][1] = p /\ new[1][2] = start /\ new[2][1] = end /\ new[2][2] = q
      BY <3>1
    <3> QED BY <1>5, <1>6, <1>9, <1>10, <2>5, <3>1, <3>2, ShortLists
  <2> QED BY <2>2, <2>3, <2>4, <2>5
<1> HIDE DEF new
<1>8. IsLocated(Splice(locs, first, last, new))
  <2>1. first \in Nat /\ last \in Nat /\ first <= last /\ last <= Len(locs)
    BY <1>2, <1>3, <1>4
  <2>2. IsLocated(new)
    BY <1>7
  <2>3. \A k \in DOMAIN new : /\ \A i \in 1..first : locs[i][2] < new[k][1]
                             /\ \A j \in last + 1..Len(locs) : new[k][2] < locs[j][1]
    BY <1>7
  <2> QED BY <2>1, <2>2, <2>3, SpliceKeeps
<1> QED BY <1>8 DEF new

(* A finite set of integers has a greatest element.                         *)
LEMMA MaxIsIn ==
    ASSUME NEW S, IsFiniteSet(S), S \subseteq Int, S # {}
    PROVE  Max(S) \in S /\ \A y \in S : y <= Max(S)
<1> DEFINE n == Cardinality(S)
<1>1. /\ n \in Nat /\ \A a \in S : Place(S, a) \in 1..n
      /\ \A i \in 1..n : \E a \in S : Place(S, a) = i
  BY PlacesOf
<1>2. n \in 1..n
  <2>1. PICK a \in S : TRUE
    OBVIOUS
  <2> HIDE DEF n
  <2> QED BY <1>1, <2>1
<1>3. PICK a \in S : Place(S, a) = n
  BY <1>1, <1>2
<1>4. {b \in S : b <= a} = S
  <2>1. {b \in S : b <= a} \in SUBSET S /\ Cardinality({b \in S : b <= a}) = Cardinality(S)
    BY <1>3 DEF Place
  <2> DEFINE T == {b \in S : b <= a}
  <2> HIDE DEF T
  <2>2. T \in SUBSET S /\ Cardinality(T) = Cardinality(S)
    BY <2>1 DEF T
  <2>3. T = S
    BY <2>2, FS_Subset
  <2> QED BY <2>3 DEF T
<1>5. \A y \in S : y <= a
  BY <1>4
<1> QED BY <1>3, <1>5 DEF Max

----------------------------------------------------------------------------
(* The repetitions of recovery: folds over a sequence and runs of a bounded *)
(* number of steps.                                                         *)

(* A register jump that calling analysis met, with what the ones before it  *)
(* added.                                                                   *)
Resolve(an1, q, a) ==
    LET put(s) ==
          IF s.targets = None THEN q
          ELSE Switches(FoldLeft(LAMBDA x, t : PushXref(x, t, a), q.xrefs, s.targets),
                        Insert(q.succ, a, [i \in DOMAIN s.targets |-> Edge(s.targets[i], "table")]),
                        q.tables \o s.locs, q.arms \o s.targets)
    IN  put(SwitchTargets(img, [an1 EXCEPT !.xrefs = q.xrefs], a, graph.known))

RepeatedStep(kind, x, q, e) ==
    CASE kind = "mark" -> MarkData(q, e[1], e[2])
      [] kind = "observe" -> ObserveInstruction(img, an, q, e, CallingEnabled(img)).p
      [] kind = "resolve" -> Resolve(x, q, e)
      [] kind = "discover" -> DiscoverStep(img, x.an, x.noreturn, q, x.start)
      [] OTHER -> PrepareStep(img, x.an, graph, q)

IsFold(kind, x, base, seq, f) ==
    f = [s \in SUBSET DOMAIN seq |->
            IF s = {} THEN base ELSE RepeatedStep(kind, x, f[s \ {Max(s)}], seq[Max(s)])]

IsRun(kind, x, base, N, f) ==
    f = [n \in 0..N |-> IF n = 0 THEN base ELSE RepeatedStep(kind, x, f[n - 1], n)]

(* The last place of a set of places, and those before it.                  *)
LEMMA LastPlace ==
    ASSUME NEW k \in Nat, NEW s \in SUBSET (1..k + 1), s # {}
    PROVE  Max(s) \in s /\ s \ {Max(s)} \in SUBSET (1..k)
<1>1. IsFiniteSet(s) /\ s \subseteq Int
  <2>1. k + 1 \in Int /\ IsFiniteSet(1..k + 1)
    BY FS_Interval
  <2>2. IsFiniteSet(s)
    BY <2>1, FS_Subset
  <2>3. s \subseteq Int
    OBVIOUS
  <2> QED BY <2>2, <2>3
<1>2. Max(s) \in s /\ \A y \in s : y <= Max(s)
  BY <1>1, MaxIsIn
<1> DEFINE m == Max(s)
<1> HIDE DEF m
<1>3. m \in s /\ \A y \in s : y <= m
  BY <1>2 DEF m
<1>4. s \ {m} \in SUBSET (1..k)
  BY <1>3
<1> QED BY <1>3, <1>4 DEF m

(* A fold exists: on the sets of the first place, of the first two, ...     *)
LEMMA FoldsExist ==
    ASSUME NEW kind, NEW x, NEW base, NEW seq, NEW n \in Nat, DOMAIN seq = 1..n
    PROVE  \E f : IsFold(kind, x, base, seq, f)
<1> DEFINE B(f, s) == IF s = {} THEN base ELSE RepeatedStep(kind, x, f[s \ {Max(s)}], seq[Max(s)])
           Folds(k, f) == f = [s \in SUBSET (1..k) |-> B(f, s)]
           K == {k \in Nat : \E f : Folds(k, f)}
<1>1. 0 \in K
  <2> DEFINE f == [s \in SUBSET (1..0) |-> base]
  <2>1. \A s \in SUBSET (1..0) : s = {}
    OBVIOUS
  <2>2. f = [s \in SUBSET (1..0) |-> B(f, s)]
    BY <2>1
  <2> QED BY <2>2
<1>2. ASSUME NEW k \in 0..n - 1, k \in K
      PROVE  k + 1 \in K
  <2>1. PICK f : Folds(k, f)
    BY <1>2
  <2> DEFINE next == [s \in SUBSET (1..k + 1) |-> B(f, s)]
  <2>2. next = [s \in SUBSET (1..k + 1) |-> next[s]] /\ \A s \in SUBSET (1..k + 1) : next[s] = B(f, s)
    OBVIOUS
  <2>3. \A s \in SUBSET (1..k) : s \in SUBSET (1..k + 1) /\ f[s] = B(f, s)
    <3>1. f = [s \in SUBSET (1..k) |-> B(f, s)]
      BY <2>1
    <3> HIDE DEF B
    <3>2. \A s \in SUBSET (1..k) : f[s] = B(f, s)
      BY <3>1
    <3>3. 1..k \subseteq 1..k + 1
      OBVIOUS
    <3> QED BY <3>2, <3>3
  <2> HIDE DEF next
  <2>4. ASSUME NEW s \in SUBSET (1..k + 1)
        PROVE  B(next, s) = B(f, s)
    <3>1. CASE s = {}
      BY <3>1
    <3>2. CASE s # {}
      <4>1. s \ {Max(s)} \in SUBSET (1..k)
        BY <3>2, LastPlace
      <4>2. next[s \ {Max(s)}] = f[s \ {Max(s)}]
        <5> DEFINE t == s \ {Max(s)}
        <5> HIDE DEF t, B
        <5>1. t \in SUBSET (1..k)
          BY <4>1 DEF t
        <5>2. next[t] = f[t]
          BY <2>2, <2>3, <5>1
        <5> QED BY <5>2 DEF t
      <4> QED BY <4>2
    <3> QED BY <3>1, <3>2
  <2>5. Folds(k + 1, next)
    <3> HIDE DEF B
    <3>1. next = [s \in SUBSET (1..k + 1) |-> B(next, s)]
      BY <2>2, <2>4
    <3> QED BY <3>1
  <2> HIDE DEF Folds
  <2> QED BY <2>5
<1>3. n \in K
  <2> HIDE DEF K
  <2> QED BY <1>1, <1>2, UpTo
<1>4. PICK f : Folds(n, f)
  BY <1>3
<1> QED BY <1>4 DEF IsFold

(* A fold takes one element after the other.                                *)
LEMMA FoldSteps ==
    ASSUME NEW kind, NEW x, NEW base, NEW seq, NEW n \in Nat, DOMAIN seq = 1..n,
           NEW f, IsFold(kind, x, base, seq, f)
    PROVE  /\ f[1..0] = base
           /\ \A i \in 0..n - 1 : f[1..i + 1] = RepeatedStep(kind, x, f[1..i], seq[i + 1])
<1> DEFINE B(s) == IF s = {} THEN base ELSE RepeatedStep(kind, x, f[s \ {Max(s)}], seq[Max(s)])
<1>1. \A s \in SUBSET (1..n) : f[s] = B(s)
  <2>1. f = [s \in SUBSET (1..n) |-> B(s)]
    BY DEF IsFold
  <2> HIDE DEF B
  <2> QED BY <2>1
<1>2. f[1..0] = base
  <2>1. 1..0 = {}
    OBVIOUS
  <2>2. {} \in SUBSET (1..n)
    OBVIOUS
  <2>3. f[{}] = base
    BY <1>1, <2>2
  <2> QED BY <2>1, <2>3
<1>3. ASSUME NEW i \in 0..n - 1
      PROVE  f[1..i + 1] = RepeatedStep(kind, x, f[1..i], seq[i + 1])
  <2> DEFINE s == 1..i + 1
  <2>1. s \in SUBSET (1..n) /\ s # {} /\ i + 1 \in s /\ \A y \in s : y <= i + 1
    <3>1. \A y \in s : y \in 1..n /\ y <= i + 1
      OBVIOUS
    <3>2. i + 1 \in s
      OBVIOUS
    <3> HIDE DEF s
    <3> QED BY <3>1, <3>2
  <2>2. Max(s) = i + 1
    <3>1. Max(s) \in s /\ \A y \in s : y <= Max(s)
      <4>1. IsFiniteSet(s) /\ s \subseteq Int
        BY FS_Interval
      <4> HIDE DEF s
      <4> QED BY <2>1, <4>1, MaxIsIn
    <3> DEFINE m == Max(s)
    <3>2. m \in s /\ i + 1 <= m
      BY <2>1, <3>1
    <3> HIDE DEF m
    <3> QED BY <3>2 DEF m
  <2>3. s \ {i + 1} = 1..i
    OBVIOUS
  <2> HIDE DEF s
  <2>4. f[s] = RepeatedStep(kind, x, f[1..i], seq[i + 1])
    BY <1>1, <2>1, <2>2, <2>3
  <2> QED BY <2>4 DEF s
<1> QED BY <1>2, <1>3

(* A run exists, one step after the other.                                  *)
LEMMA RunsExist ==
    ASSUME NEW kind, NEW x, NEW base, NEW N \in Nat
    PROVE  \E f : IsRun(kind, x, base, N, f)
<1> DEFINE B(f, n) == IF n = 0 THEN base ELSE RepeatedStep(kind, x, f[n - 1], n)
           Runs(k, f) == f = [n \in 0..k |-> B(f, n)]
           K == {k \in Nat : \E f : Runs(k, f)}
<1>1. 0 \in K
  <2> DEFINE f == [n \in 0..0 |-> base]
  <2>1. f = [n \in 0..0 |-> B(f, n)]
    OBVIOUS
  <2> QED BY <2>1
<1>2. ASSUME NEW k \in 0..N - 1, k \in K
      PROVE  k + 1 \in K
  <2>1. PICK f : Runs(k, f)
    BY <1>2
  <2> DEFINE next == [n \in 0..k + 1 |-> B(f, n)]
  <2>2. next = [n \in 0..k + 1 |-> next[n]] /\ \A n \in 0..k + 1 : next[n] = B(f, n)
    OBVIOUS
  <2>3. \A n \in 0..k : n \in 0..k + 1 /\ f[n] = B(f, n)
    <3>1. f = [n \in 0..k |-> B(f, n)]
      BY <2>1
    <3> HIDE DEF B
    <3> QED BY <3>1
  <2> HIDE DEF next
  <2>4. ASSUME NEW n \in 0..k + 1
        PROVE  B(next, n) = B(f, n)
    <3>1. CASE n = 0
      BY <3>1
    <3>2. CASE n # 0
      <4>1. n - 1 \in 0..k
        BY <3>2
      <4>2. next[n - 1] = f[n - 1]
        <5> HIDE DEF B
        <5> QED BY <2>2, <2>3, <4>1
      <4> QED BY <4>2
    <3> QED BY <3>1, <3>2
  <2>5. Runs(k + 1, next)
    <3> HIDE DEF B
    <3>1. next = [n \in 0..k + 1 |-> B(next, n)]
      BY <2>2, <2>4
    <3> QED BY <3>1
  <2> HIDE DEF Runs
  <2> QED BY <2>5
<1>3. N \in K
  <2> HIDE DEF K
  <2> QED BY <1>1, <1>2, UpTo
<1> QED BY <1>3 DEF IsRun

----------------------------------------------------------------------------
(* The typed locations and how they change *)

DiscoveryFields ==
    {"cand", "ready", "tables", "late", "tried", "seen", "collected", "fns", "scanned", "active",
     "data", "barriers", "ptrs", "orphans", "full", "reloc"}

(* The locations are intervals, a pointer has bytes, and what is still to   *)
(* be typed are addresses.                                                  *)
ArePointers(ptrs) ==
    /\ IsFiniteSet(DOMAIN ptrs)
    /\ \A s \in DOMAIN ptrs : s \in Int /\ ptrs[s] \in Int /\ s < ptrs[s]

IsDiscovery(p) ==
    /\ DOMAIN p = DiscoveryFields
    /\ IsLocated(p.data) /\ IsLocated(p.barriers) /\ ArePointers(p.ptrs)
    /\ p.tables \in Seq(Addr) /\ p.late \in Seq(Addr) /\ p.reloc \in Nat \ {0}

(* What is assumed of an image, and of an instruction of it.                *)
IsLaidOut(i) ==
    /\ {"mapped", "text", "padding", "relocs", "dispatch"} \subseteq DOMAIN i
    /\ i.mapped \cup DOMAIN i.text \cup DOMAIN i.padding \subseteq Addr
    /\ i.text \in [DOMAIN i.text -> Nat]
    /\ i.padding \in [DOMAIN i.padding -> Nat]
    /\ i.relocs \in Seq(Addr)
    /\ \A b \in Addr : i.at[b] # None => i.at[b].size \in Nat /\ i.at[b].mem \in Nat \cup {None}
    /\ \A b \in DOMAIN i.dispatch : i.dispatch[b].table \in Nat

IsDecoded(i, a) == a \in Addr /\ i.at[a] # None

(* What is taken down besides the locations is free.                        *)
LEMMA NotesKeep ==
    ASSUME NEW p, IsDiscovery(p), NEW v, NEW w
    PROVE  /\ IsDiscovery([p EXCEPT !.cand = v]) /\ IsDiscovery([p EXCEPT !.full = v])
           /\ IsDiscovery([p EXCEPT !.ready = v]) /\ IsDiscovery([p EXCEPT !.tried = v])
           /\ IsDiscovery([p EXCEPT !.seen = v]) /\ IsDiscovery([p EXCEPT !.fns = v])
           /\ IsDiscovery([p EXCEPT !.scanned = v]) /\ IsDiscovery([p EXCEPT !.collected = v])
           /\ IsDiscovery([p EXCEPT !.orphans = v])
           /\ IsDiscovery([p EXCEPT !.cand = v, !.full = w])
           /\ IsDiscovery([p EXCEPT !.active = v, !.cand = w])
BY DEF IsDiscovery, DiscoveryFields

(* Candidates are taken down only.                                          *)
LEMMA CandidatesKeep ==
    ASSUME NEW p, IsDiscovery(p), NEW i, NEW x
    PROVE  /\ \A t, kind : IsDiscovery(AddCandidate(i, x, p, t, kind))
           /\ \A values : IsDiscovery(AddCandidates(i, x, p, values))
<1>1. ASSUME NEW t, NEW kind
      PROVE  IsDiscovery(AddCandidate(i, x, p, t, kind))
  <2>1. \/ AddCandidate(i, x, p, t, kind) = p
        \/ AddCandidate(i, x, p, t, kind) = [p EXCEPT !.full = TRUE]
        \/ AddCandidate(i, x, p, t, kind) = [p EXCEPT !.cand = p.cand \cup {<<kind, t>>}]
    BY DEF AddCandidate
  <2>2. IsDiscovery([p EXCEPT !.full = TRUE])
    BY NotesKeep
  <2> DEFINE v == p.cand \cup {<<kind, t>>}
  <2> HIDE DEF v
  <2>3. IsDiscovery([p EXCEPT !.cand = v])
    BY NotesKeep
  <2> QED BY <2>1, <2>2, <2>3 DEF v
<1>2. ASSUME NEW values
      PROVE  IsDiscovery(AddCandidates(i, x, p, values))
  <2>1. PICK v, w : AddCandidates(i, x, p, values) = [p EXCEPT !.cand = v, !.full = w]
    BY DEF AddCandidates
  <2>2. IsDiscovery([p EXCEPT !.cand = v, !.full = w])
    BY NotesKeep
  <2> QED BY <2>1, <2>2
<1> QED BY <1>1, <1>2

(* Code, pointers and other data replace each other.                        *)
LEMMA MarksKeep ==
    ASSUME NEW p, IsDiscovery(p), NEW start \in Int
    PROVE  /\ \A end \in Int : start < end => IsDiscovery(MarkCode(p, start, end))
           /\ \A size \in Nat \ {0} : IsDiscovery(MarkData(p, start, size))
           /\ \A size \in Nat \ {0} : IsDiscovery(MarkNoncode(p, start, size))
<1>1. ASSUME NEW end \in Int, start < end
      PROVE  IsDiscovery(MarkCode(p, start, end))
  <2> DEFINE stop == IF start \in DOMAIN p.ptrs THEN Max({end, p.ptrs[start]}) ELSE end
  <2>1. stop \in Int /\ start < stop
    <3>1. CASE start \in DOMAIN p.ptrs
      <4> DEFINE e == p.ptrs[start]
      <4>1. e \in Int
        BY <3>1 DEF IsDiscovery, ArePointers
      <4>2. stop = Max({end, e})
        BY <3>1
      <4> HIDE DEF e, stop
      <4>3. Max({end, e}) = IF end < e THEN e ELSE end
        BY <4>1, OfTwo
      <4> QED BY <1>1, <4>1, <4>2, <4>3
    <3> QED BY <1>1, <3>1
  <2> HIDE DEF stop
  <2>2. IsLocated(CutLocation(p.data, start, stop))
    BY <2>1, CuttingKeeps DEF IsDiscovery
  <2>3. ArePointers(Without(p.ptrs, start))
    <3>1. DOMAIN Without(p.ptrs, start) \subseteq DOMAIN p.ptrs
          /\ \A s \in DOMAIN Without(p.ptrs, start) : Without(p.ptrs, start)[s] = p.ptrs[s]
      BY DEF Without
    <3>2. IsFiniteSet(DOMAIN Without(p.ptrs, start))
      BY <3>1, FS_Subset DEF IsDiscovery, ArePointers
    <3> QED BY <3>1, <3>2 DEF IsDiscovery, ArePointers
  <2>4. MarkCode(p, start, end) = [p EXCEPT !.ptrs = Without(@, start), !.data = CutLocation(@, start, stop)]
    BY DEF MarkCode, stop
  <2> DEFINE d == CutLocation(p.data, start, stop)
             t == Without(p.ptrs, start)
  <2>5. MarkCode(p, start, end) = [p EXCEPT !.ptrs = t, !.data = d]
    BY <2>4 DEF IsDiscovery, DiscoveryFields
  <2>6. IsLocated(d) /\ ArePointers(t)
    BY <2>2, <2>3
  <2> HIDE DEF d, t
  <2> QED BY <2>5, <2>6 DEF IsDiscovery, DiscoveryFields
<1>2. ASSUME NEW size \in Nat \ {0}
      PROVE  IsDiscovery(MarkData(p, start, size)) /\ IsDiscovery(MarkNoncode(p, start, size))
  <2> DEFINE d == InsertLocation(p.data, start, size)
             b == InsertLocation(p.barriers, start, size)
             t == Insert(p.ptrs, start, start + size)
  <2>1. IsLocated(d) /\ IsLocated(b)
    BY InsertionKeeps DEF IsDiscovery
  <2>2. ArePointers(t)
    <3>1. DOMAIN t = DOMAIN p.ptrs \cup {start}
          /\ \A s \in DOMAIN t : t[s] = IF s = start THEN start + size ELSE p.ptrs[s]
      BY DEF Insert
    <3>2. IsFiniteSet(DOMAIN p.ptrs \cup {start})
      BY FS_AddElement DEF IsDiscovery, ArePointers
    <3>3. start + size \in Int /\ start < start + size
      OBVIOUS
    <3> HIDE DEF t
    <3> QED BY <3>1, <3>2, <3>3 DEF IsDiscovery, ArePointers
  <2>3. /\ MarkData(p, start, size) = [p EXCEPT !.orphans = p.orphans \ {start}, !.data = d, !.ptrs = t]
        /\ MarkNoncode(p, start, size) = [p EXCEPT !.data = d, !.barriers = b]
    BY DEF MarkData, MarkNoncode, IsDiscovery, DiscoveryFields
  <2> HIDE DEF d, b, t
  <2> QED BY <2>1, <2>2, <2>3 DEF IsDiscovery, DiscoveryFields
<1> QED BY <1>1, <1>2

(* A string has an address and bytes.                                       *)
LEMMA StringsHaveBytes ==
    ASSUME NEW i, IsLaidOut(i), NEW x, NEW p, NEW a, StringSize(i, x, p, a) # 0
    PROVE  a \in Int /\ StringSize(i, x, p, a) \in Nat \ {0}
<1>1. a \in DOMAIN i.text /\ StringSize(i, x, p, a) = i.text[a]
  BY DEF StringSize
<1>2. DOMAIN i.text \subseteq Addr /\ i.text \in [DOMAIN i.text -> Nat]
  BY DEF IsLaidOut
<1> QED BY <1>1, <1>2 DEF Addr

(* What an instruction reads is typed.                                      *)
LEMMA TypingKeeps ==
    ASSUME NEW i, IsLaidOut(i), NEW x, NEW p, IsDiscovery(p), NEW a, IsDecoded(i, a)
    PROVE  IsDiscovery(TypeSlot(i, x, p, i.at[a]).p)
<1> DEFINE op == i.at[a]
           slot == op.mem
           size == op.size
           text == StringSize(i, x, p, slot)
           r == TypeSlot(i, x, p, op)
<1>1. size \in Nat /\ i.mapped \subseteq Int /\ Width \in Nat \ {0}
  BY ImageAssumption DEF IsLaidOut, IsDecoded, Addr
<1>2. \/ r.p = p
      \/ /\ slot \in i.mapped /\ size # 0
         /\ \/ r.p = MarkData(p, slot, Width)
            \/ text # 0 /\ r.p = MarkNoncode(p, slot, text)
            \/ \E v : r.p = AddCandidate(i, x, MarkData(p, slot, size), v, "pointer")
            \/ r.p = MarkNoncode(p, slot, size)
  <2>1. \A q, t : Observed(q, t).p = q
    BY DEF Observed
  <2> DEFINE value == IF size = Width THEN ReadPointer(i, slot) ELSE None
  <2>2. r = IF Covered(i, x, slot) \/ InData(p.data, slot) \/ slot \in i.imports
               \/ size = 0 \/ slot \notin i.mapped
            THEN Observed(p, None)
            ELSE IF op.flow \in {"icall", "ijmp"} THEN Observed(MarkData(p, slot, Width), None)
            ELSE IF text # 0 THEN Observed(MarkNoncode(p, slot, text), None)
            ELSE IF value \in i.mapped
                 THEN Observed(AddCandidate(i, x, MarkData(p, slot, size), value, "pointer"), value)
            ELSE Observed(MarkNoncode(p, slot, size), None)
    BY DEF TypeSlot
  <2> HIDE DEF r, text, value, slot, size
  <2>3. CASE Covered(i, x, slot) \/ InData(p.data, slot) \/ slot \in i.imports
             \/ size = 0 \/ slot \notin i.mapped
    BY <2>1, <2>2, <2>3
  <2>4. CASE ~(Covered(i, x, slot) \/ InData(p.data, slot) \/ slot \in i.imports
               \/ size = 0 \/ slot \notin i.mapped)
    <3>1. CASE op.flow \in {"icall", "ijmp"}
      BY <2>1, <2>2, <2>4, <3>1
    <3>2. CASE op.flow \notin {"icall", "ijmp"} /\ text # 0
      BY <2>1, <2>2, <2>4, <3>2
    <3>3. CASE op.flow \notin {"icall", "ijmp"} /\ text = 0 /\ value \in i.mapped
      BY <2>1, <2>2, <2>4, <3>3
    <3>4. CASE op.flow \notin {"icall", "ijmp"} /\ text = 0 /\ value \notin i.mapped
      BY <2>1, <2>2, <2>4, <3>4
    <3> QED BY <3>1, <3>2, <3>3, <3>4
  <2> QED BY <2>3, <2>4
<1>3. ASSUME slot \in i.mapped, size # 0
      PROVE  IsDiscovery(r.p)
  <2>1. slot \in Int /\ size \in Nat \ {0}
    BY <1>1, <1>3
  <2>2. IsDiscovery(MarkData(p, slot, Width)) /\ IsDiscovery(MarkData(p, slot, size))
        /\ IsDiscovery(MarkNoncode(p, slot, size))
    BY <1>1, <2>1, MarksKeep
  <2>3. text # 0 => IsDiscovery(MarkNoncode(p, slot, text))
    <3>1. text # 0 => text \in Nat \ {0}
      BY StringsHaveBytes
    <3> HIDE DEF text
    <3> QED BY <2>1, <3>1, MarksKeep
  <2>4. \A v : IsDiscovery(AddCandidate(i, x, MarkData(p, slot, size), v, "pointer"))
    BY <2>2, CandidatesKeep
  <2> HIDE DEF r, text, slot, size
  <2>5. CASE \E v : r.p = AddCandidate(i, x, MarkData(p, slot, size), v, "pointer")
    <3>1. PICK v : r.p = AddCandidate(i, x, MarkData(p, slot, size), v, "pointer")
      BY <2>5
    <3>2. IsDiscovery(AddCandidate(i, x, MarkData(p, slot, size), v, "pointer"))
      BY <2>4
    <3> QED BY <3>1, <3>2
  <2> QED BY <1>2, <2>2, <2>3, <2>5
<1> HIDE DEF r, slot, size, text
<1>4. IsDiscovery(r.p)
  BY <1>2, <1>3
<1> QED BY <1>4 DEF r

(* observe_instruction, whatever the instruction reads.                     *)
LEMMA ObservingKeeps ==
    ASSUME NEW i, IsLaidOut(i), NEW x, NEW p, IsDiscovery(p), NEW a, IsDecoded(i, a), NEW flow
    PROVE  IsDiscovery(ObserveInstruction(i, x, p, a, flow).p)
<1> DEFINE op == i.at[a]
           marked == [p EXCEPT !.seen = @ \cup {a}]
           imms == AddCandidates(i, x, marked, op.imms)
           lea == IF op.lea /\ op.rip THEN AddCandidate(i, x, imms, op.mem, "emulated") ELSE imms
           r == ObserveInstruction(i, x, p, a, flow)
<1>1. IsDiscovery(imms)
  <2>1. IsDiscovery(marked)
    BY NotesKeep
  <2> HIDE DEF marked
  <2> QED BY <2>1, CandidatesKeep
<1>2. IsDiscovery(lea)
  BY <1>1, CandidatesKeep
<1>3. r.p \in {p, imms, lea} \/ r = TypeSlot(i, x, lea, op)
  BY DEF ObserveInstruction, Observed
<1> HIDE DEF imms, lea, r
<1>4. IsDiscovery(TypeSlot(i, x, lea, i.at[a]).p)
  BY <1>2, TypingKeeps
<1> QED BY <1>1, <1>2, <1>3, <1>4 DEF r

(* A pointer just typed is followed, or its string becomes data.            *)
LEMMA FollowingKeeps ==
    ASSUME NEW i, IsLaidOut(i), NEW x, NEW p, IsDiscovery(p), NEW t, NEW n
    PROVE  IsDiscovery(FollowObservedPointer(i, x, p, t, n).p)
<1> DEFINE taken == [p EXCEPT !.cand = @ \ {<<"pointer", t>>}]
           added == AddCandidate(i, x, taken, t, "emulated")
           tried == [added EXCEPT !.tried = @ \cup {<<"pointer", t>>}]
           text == StringSize(i, x, tried, t)
           r == FollowObservedPointer(i, x, p, t, n)
<1>1. r.p \in {p, taken, tried} \/ (text # 0 /\ r.p = MarkNoncode(tried, t, text))
  <2> HIDE DEF taken, tried, text
  <2>1. \A y, q, u : Followed_(y, q, u).p = q
    BY DEF Followed_
  <2> QED BY <2>1 DEF FollowObservedPointer, taken, added, tried, text
<1>2. IsDiscovery(tried)
  <2>1. IsDiscovery(taken)
    BY NotesKeep DEF IsDiscovery, DiscoveryFields
  <2> HIDE DEF taken
  <2>2. IsDiscovery(added)
    BY <2>1, CandidatesKeep
  <2> HIDE DEF added
  <2> QED BY <2>2 DEF IsDiscovery, DiscoveryFields
<1>3. IsDiscovery(taken)
  BY DEF IsDiscovery, DiscoveryFields
<1> HIDE DEF taken, tried
<1>4. text # 0 => t \in Int /\ text \in Nat \ {0}
  BY StringsHaveBytes
<1> HIDE DEF text
<1>5. text # 0 => IsDiscovery(MarkNoncode(tried, t, text))
  BY <1>2, <1>4, MarksKeep
<1> HIDE DEF r
<1>6. IsDiscovery(r.p)
  BY <1>1, <1>2, <1>3, <1>5
<1> QED BY <1>6 DEF r

(* The padding before a function becomes data.                              *)
LEMMA PaddingKeeps ==
    ASSUME NEW i, IsLaidOut(i), NEW x, NEW p, IsDiscovery(p), NEW f
    PROVE  IsDiscovery(FunctionCompleted(i, x, p, f))
<1> DEFINE done == [p EXCEPT !.fns = @ \cup {f}]
           n == IF f \in DOMAIN i.padding THEN i.padding[f] ELSE 0
           r == FunctionCompleted(i, x, p, f)
<1>1. r \in {p, done} \/ (n >= MinPadding /\ r = MarkNoncode(done, f - n, n))
  BY DEF FunctionCompleted
<1>2. IsDiscovery(done)
  BY DEF IsDiscovery, DiscoveryFields
<1>3. n >= MinPadding => f - n \in Int /\ n \in Nat \ {0}
  <2>1. i.padding \in [DOMAIN i.padding -> Nat] /\ DOMAIN i.padding \subseteq Int
    BY ImageAssumption DEF IsLaidOut, Addr
  <2>2. MinPadding \in Nat \ {0}
    BY PointersAssumption
  <2>3. CASE f \in DOMAIN i.padding
    <3>1. n \in Nat /\ f \in Int
      BY <2>1, <2>3
    <3> HIDE DEF n
    <3> QED BY <2>2, <3>1
  <2>4. CASE f \notin DOMAIN i.padding
    BY <2>2, <2>4
  <2> QED BY <2>3, <2>4
<1> HIDE DEF done, n
<1>4. n >= MinPadding => IsDiscovery(MarkNoncode(done, f - n, n))
  BY <1>2, <1>3, MarksKeep
<1> HIDE DEF r
<1>5. IsDiscovery(r)
  BY <1>1, <1>2, <1>4
<1> QED BY <1>5 DEF r

(* A scope table becomes data.                                              *)
LEMMA ScopeTableKeeps ==
    ASSUME NEW i, IsLaidOut(i), NEW x, NEW p, IsDiscovery(p), NEW a \in i.mapped
    PROVE  IsDiscovery(Seh3ScopeTable(i, x, p, a))
<1> DEFINE marked == MarkNoncode(p, a, 3 * Width)
           values == <<ReadPointer(i, a + Width), ReadPointer(i, a + 2 * Width)>>
           r == Seh3ScopeTable(i, x, p, a)
<1>1. r \in {p, AddCandidates(i, x, marked, values)}
  BY DEF Seh3ScopeTable
<1>2. a \in Int /\ 3 * Width \in Nat \ {0}
  BY ImageAssumption DEF IsLaidOut, Addr
<1>3. IsDiscovery(marked)
  BY <1>2, MarksKeep
<1> HIDE DEF marked, values
<1>4. IsDiscovery(AddCandidates(i, x, marked, values))
  BY <1>3, CandidatesKeep
<1> HIDE DEF r
<1>5. IsDiscovery(r)
  BY <1>1, <1>4
<1> QED BY <1>5 DEF r

(* The sources that the scan finds are addresses.                           *)
LEMMA ScanKeeps ==
    ASSUME NEW i, NEW x, NEW p, IsDiscovery(p), NEW b
    PROVE  IsDiscovery([WithScan(i, x, p) EXCEPT !.scanned = b])
<1>1. \A set : Ascending(set) \in Seq(Addr)
  <2> TAKE set
  <2>1. Ascending(set) \in Seq(set \cap Addr)
    BY AscendingHasAll DEF IsSeq
  <2> QED BY <2>1, SeqMonotonic
<1>2. WithScan(i, x, p) = p
      \/ \E s, t, v : WithScan(i, x, p) = [p EXCEPT !.tables = @ \o Ascending(s),
                                                    !.late = @ \o Ascending(t), !.full = v]
  BY DEF WithScan
<1>3. CASE WithScan(i, x, p) = p
  BY <1>3, NotesKeep
<1>4. ASSUME NEW s, NEW t, NEW v,
             WithScan(i, x, p) = [p EXCEPT !.tables = @ \o Ascending(s),
                                           !.late = @ \o Ascending(t), !.full = v]
      PROVE  IsDiscovery([WithScan(i, x, p) EXCEPT !.scanned = b])
  <2>1. p.tables \o Ascending(s) \in Seq(Addr) /\ p.late \o Ascending(t) \in Seq(Addr)
    BY <1>1, ConcatProperties DEF IsDiscovery
  <2> DEFINE u == p.tables \o Ascending(s)
             w == p.late \o Ascending(t)
  <2>2. WithScan(i, x, p) = [p EXCEPT !.tables = u, !.late = w, !.full = v]
    BY <1>4 DEF IsDiscovery, DiscoveryFields
  <2>3. u \in Seq(Addr) /\ w \in Seq(Addr)
    BY <2>1
  <2> HIDE DEF u, w
  <2> QED BY <2>2, <2>3 DEF IsDiscovery, DiscoveryFields
<1> QED BY <1>2, <1>3, <1>4

(* Nothing but data is marked: table locations, one after the other.        *)
AreTables(tables) == tables \in Seq(Nat \X (Nat \ {0}))

LEMMA TablesKeep ==
    ASSUME NEW p, IsDiscovery(p), NEW tables, AreTables(tables)
    PROVE  IsDiscovery(FoldLeft(LAMBDA q, loc : MarkData(q, loc[1], loc[2]), p, tables))
<1> DEFINE n == Len(tables)
           folded == FoldLeft(LAMBDA q, loc : MarkData(q, loc[1], loc[2]), p, tables)
<1>1. /\ n \in Nat /\ DOMAIN tables = 1..n
      /\ \A k \in 1..n : tables[k][1] \in Nat /\ tables[k][2] \in Nat \ {0}
  BY DEF AreTables
<1>2. PICK g : IsFold("mark", 0, p, tables, g)
  BY <1>1, FoldsExist
<1>3. \E f : IsFold("mark", 0, p, tables, f) /\ folded = f[DOMAIN tables]
  <2> DEFINE Is(f) == f = [s \in SUBSET DOMAIN tables |->
                              IF s = {} THEN p
                              ELSE MarkData(f[s \ {Max(s)}], tables[Max(s)][1], tables[Max(s)][2])]
             h == CHOOSE f : Is(f)
  <2>1. folded = h[DOMAIN tables]
    BY DEF FoldLeft, MapThenFoldSet
  <2>2. \A f : IsFold("mark", 0, p, tables, f) <=> Is(f)
    BY DEF IsFold, RepeatedStep
  <2> HIDE DEF folded, Is
  <2>3. Is(h)
    BY <1>2, <2>2
  <2> HIDE DEF h
  <2> QED BY <2>1, <2>2, <2>3
<1>4. PICK f : IsFold("mark", 0, p, tables, f) /\ folded = f[DOMAIN tables]
  BY <1>3
<1> HIDE DEF folded, n
<1>5. /\ f[1..0] = p
      /\ \A k \in 0..n - 1 : f[1..k + 1] = RepeatedStep("mark", 0, f[1..k], tables[k + 1])
  BY <1>1, <1>4, FoldSteps
<1> DEFINE K == {k \in Nat : IsDiscovery(f[1..k])}
<1>6. 0 \in K
  BY <1>5
<1>7. ASSUME NEW k \in 0..n - 1, k \in K
      PROVE  k + 1 \in K
  <2>1. f[1..k + 1] = MarkData(f[1..k], tables[k + 1][1], tables[k + 1][2])
    BY <1>5 DEF RepeatedStep
  <2>2. k + 1 \in 1..n /\ tables[k + 1][1] \in Int /\ tables[k + 1][2] \in Nat \ {0}
    BY <1>1
  <2>3. IsDiscovery(f[1..k + 1])
    BY <1>7, <2>1, <2>2, MarksKeep
  <2> QED BY <2>3
<1>8. n \in K
  <2> HIDE DEF K
  <2> QED BY <1>1, <1>6, <1>7, UpTo
<1>9. IsDiscovery(folded)
  BY <1>1, <1>4, <1>8
<1> QED BY <1>9 DEF folded

(* Collecting examines the instructions one after the other.                *)
LEMMA CollectionKeeps ==
    ASSUME IsLaidOut(img), \A a \in an.insns : IsDecoded(img, a), NEW p, IsDiscovery(p)
    PROVE  IsDiscovery(Collect(img, an, p))
<1> DEFINE base == [WithScan(img, an, p) EXCEPT !.scanned = TRUE]
           insns == Ascending(an.insns)
           n == Len(insns)
           observe(q, a) == ObserveInstruction(img, an, q, a, CallingEnabled(img)).p
           folded == FoldLeft(observe, base, insns)
<1>1. IsDiscovery(base)
  BY ScanKeeps
<1>2. n \in Nat /\ DOMAIN insns = 1..n /\ \A k \in 1..n : IsDecoded(img, insns[k])
  <2>1. IsSeq(insns) /\ ToSet(insns) \subseteq an.insns
    BY AscendingHasAll
  <2> HIDE DEF insns
  <2>2. DOMAIN insns = 1..n /\ n \in Nat /\ \A k \in 1..n : insns[k] \in an.insns
    BY <2>1, SeqOver DEF IsSeq, ToSet
  <2> QED BY <2>2
<1>3. Collect(img, an, p) = [folded EXCEPT !.collected = Cardinality(an.insns)]
  BY DEF Collect
<1> HIDE DEF base, insns
<1>4. PICK f : IsFold("observe", 0, base, insns, f) /\ folded = f[DOMAIN insns]
  <2> DEFINE Is(f) == f = [s \in SUBSET DOMAIN insns |->
                              IF s = {} THEN base
                              ELSE ObserveInstruction(img, an, f[s \ {Max(s)}], insns[Max(s)],
                                                      CallingEnabled(img)).p]
             h == CHOOSE f : Is(f)
  <2>1. folded = h[DOMAIN insns]
    BY DEF FoldLeft, MapThenFoldSet
  <2>2. \A f : IsFold("observe", 0, base, insns, f) <=> Is(f)
    BY DEF IsFold, RepeatedStep
  <2>3. PICK g : IsFold("observe", 0, base, insns, g)
    BY <1>2, FoldsExist
  <2> HIDE DEF folded, Is
  <2>4. Is(h)
    BY <2>2, <2>3
  <2> HIDE DEF h
  <2> QED BY <2>1, <2>2, <2>4
<1> HIDE DEF folded, n
<1>5. /\ f[1..0] = base
      /\ \A k \in 0..n - 1 : f[1..k + 1] = RepeatedStep("observe", 0, f[1..k], insns[k + 1])
  BY <1>2, <1>4, FoldSteps
<1> DEFINE K == {k \in Nat : IsDiscovery(f[1..k])}
<1>6. 0 \in K
  BY <1>1, <1>5
<1>7. ASSUME NEW k \in 0..n - 1, k \in K
      PROVE  k + 1 \in K
  <2>1. f[1..k + 1] = ObserveInstruction(img, an, f[1..k], insns[k + 1], CallingEnabled(img)).p
    BY <1>5 DEF RepeatedStep
  <2>2. k + 1 \in 1..n /\ IsDecoded(img, insns[k + 1])
    BY <1>2
  <2>3. IsDiscovery(f[1..k + 1])
    BY <1>7, <2>1, <2>2, ObservingKeeps
  <2> QED BY <2>3
<1>8. n \in K
  <2> HIDE DEF K
  <2> QED BY <1>2, <1>6, <1>7, UpTo
<1>9. IsDiscovery(folded)
  BY <1>2, <1>4, <1>8
<1> DEFINE c == Cardinality(an.insns)
<1> HIDE DEF c
<1>10. IsDiscovery([folded EXCEPT !.collected = c])
  BY <1>9, NotesKeep
<1> QED BY <1>3, <1>10 DEF c

----------------------------------------------------------------------------
(* Calling analysis *)

TraceFields ==
    {"todo", "at", "acc", "seen", "targets", "operands", "switches", "xrefs", "p", "diags", "over"}

AreOperands(i, operands) == IsSeq(operands) /\ \A o \in ToSet(operands) : IsDecoded(i, o[1])

(* The pointers that it leaves to follow are read by instructions.          *)
IsTrace(i, w) ==
    /\ DOMAIN w = TraceFields
    /\ IsDiscovery(w.p)
    /\ AreOperands(i, w.operands) /\ IsSeq(w.switches)

LEMMA OperandsKeep ==
    ASSUME NEW i, NEW w, IsTrace(i, w), NEW a, IsDecoded(i, a), NEW op
    PROVE  IsTrace(i, ObserveOperand(i, w, a, op))
<1> DEFINE operands == Append(w.operands, <<a, ReadPointer(i, op.mem)>>)
<1>1. AreOperands(i, operands)
  <2>1. IsSeq(operands) /\ ToSet(operands) = ToSet(w.operands) \cup {<<a, ReadPointer(i, op.mem)>>}
    BY Appending DEF IsTrace, AreOperands
  <2> HIDE DEF operands
  <2> QED BY <2>1 DEF IsTrace, AreOperands
<1>2. ObserveOperand(i, w, a, op) \in {w, [w EXCEPT !.operands = operands]}
  BY DEF ObserveOperand
<1> HIDE DEF operands
<1>3. IsTrace(i, [w EXCEPT !.operands = operands])
  BY <1>1 DEF IsTrace, TraceFields
<1> QED BY <1>2, <1>3

(* A call: its reference, scope table, callee and callbacks.                *)
LEMMA TracedCall ==
    ASSUME NEW i, IsLaidOut(i), NEW y, NEW n, NEW w, IsTrace(i, w), NEW s, NEW a, NEW op
    PROVE  IsTrace(i, DiscoverCall(i, y, n, w, s, a, op))
<1> DEFINE w1 == RestoreReference(w, a, op)
           w2 == TypeScopeTable(i, y, w1, a, op)
           w3 == AddCallee(i, y, w2, s, a)
           w4 == AddCallbacks(i, y, w3, a, op)
           r == DiscoverCall(i, y, n, w, s, a, op)
<1>1. IsTrace(i, w1)
  BY DEF RestoreReference, IsTrace, TraceFields
<1> HIDE DEF w1
<1>2. IsTrace(i, w2)
  <2> DEFINE p == Seh3ScopeTable(i, y, w1.p, op.args[1])
  <2>1. w2 = w1 \/ (op.args[1] \in i.mapped /\ \E d : w2 = [w1 EXCEPT !.p = p, !.diags = d])
    BY <1>1 DEF TypeScopeTable, IsTrace, TraceFields
  <2>2. op.args[1] \in i.mapped => IsDiscovery(p)
    BY <1>1, ScopeTableKeeps DEF IsTrace
  <2> HIDE DEF p, w2
  <2> QED BY <1>1, <2>1, <2>2 DEF IsTrace, TraceFields
<1> HIDE DEF w2
<1>3. IsTrace(i, w3)
  BY <1>2 DEF AddCallee, IsTrace, TraceFields
<1> HIDE DEF w3
<1>4. IsTrace(i, w4)
  <2>1. w4 = w3 \/ \E ts : w4 = [w3 EXCEPT !.targets = ts]
    BY DEF AddCallbacks
  <2> HIDE DEF w4
  <2> QED BY <1>3, <2>1 DEF IsTrace, TraceFields
<1>5. r \in {Stop(w), Stop(w4), [w4 EXCEPT !.at = NextOf(i, a), !.acc = ClobberCall(@)]}
  <2> HIDE DEF w4
  <2> QED BY Zenon DEF DiscoverCall, w1, w2, w3, w4
<1> HIDE DEF w4, r
<1>6. IsTrace(i, r)
  BY <1>4, <1>5 DEF Stop, IsTrace, TraceFields
<1> QED BY <1>6 DEF r

(* A jump, whatever is known of where it goes.                              *)
LEMMA TracedBranch ==
    ASSUME NEW i, NEW y, NEW w, IsTrace(i, w), NEW a, NEW op
    PROVE  IsTrace(i, DiscoverBranch(i, y, w, a, op))
<1> DEFINE now == [y EXCEPT !.xrefs = w.xrefs]
           known == Resolved(i, now, a)
           words == TableWords(i, op.mem)
           target == Operand(i, a, w.acc)
           noted == IF op.flow = "ijmp" /\ ~i.x86 /\ op.mem = None
                    THEN [w EXCEPT !.switches = Append(@, a)] ELSE w
           r == DiscoverBranch(i, y, w, a, op)
<1>1. r \in {[w EXCEPT !.at = NextOf(i, a)], Stop([w EXCEPT !.todo = @ \o Fork(known, w.acc)]),
             Budget(w, a), Stop([w EXCEPT !.todo = @ \o Fork(Distinct(words), w.acc)]),
             Stop(noted), [noted EXCEPT !.at = target]}
  <2> HIDE DEF now, known, words, target, noted
  <2> QED BY Zenon DEF DiscoverBranch, now, known, words, target, noted
<1> HIDE DEF now, known, words, target
<1>2. IsTrace(i, noted)
  <2>1. IsSeq(Append(w.switches, a))
    BY Appending DEF IsTrace
  <2> DEFINE switches == Append(w.switches, a)
  <2> HIDE DEF switches
  <2>2. IsTrace(i, [w EXCEPT !.switches = switches])
    BY <2>1 DEF IsTrace, TraceFields, switches
  <2> QED BY <2>2 DEF switches
<1> HIDE DEF noted, r
<1>3. IsTrace(i, r)
  BY <1>1, <1>2 DEF Stop, Budget, IsTrace, TraceFields
<1> QED BY <1>3 DEF r

LEMMA TracedInstruction ==
    ASSUME NEW i, IsLaidOut(i), NEW y, NEW n, NEW w, IsTrace(i, w), NEW s, NEW a, NEW op
    PROVE  IsTrace(i, DiscoverInstruction(i, y, n, w, s, a, op))
<1> DEFINE r == DiscoverInstruction(i, y, n, w, s, a, op)
<1>1. \/ r = DiscoverCall(i, y, n, w, s, a, op)
      \/ r = DiscoverBranch(i, y, w, a, op)
      \/ \E u, v : r \in {[w EXCEPT !.todo = u, !.at = v], Stop([w EXCEPT !.diags = u]), Stop(w),
                          [w EXCEPT !.at = u, !.acc = v]}
  BY DEF DiscoverInstruction
<1>2. IsTrace(i, DiscoverCall(i, y, n, w, s, a, op)) /\ IsTrace(i, DiscoverBranch(i, y, w, a, op))
  BY TracedCall, TracedBranch
<1> HIDE DEF r
<1>3. IsTrace(i, r)
  BY <1>1, <1>2 DEF Stop, IsTrace, TraceFields
<1> QED BY <1>3 DEF r

LEMMA TracedStep ==
    ASSUME NEW i, IsLaidOut(i), NEW y, NEW n, NEW w, IsTrace(i, w), NEW s
    PROVE  IsTrace(i, DiscoverStep(i, y, n, w, s))
<1> DEFINE a == w.at
           entered == [w EXCEPT !.seen = @ \cup {a}]
           op == i.at[a]
           observed == ObserveOperand(i, entered, a, op)
           r == DiscoverStep(i, y, n, w, s)
<1>1. \/ \E t, u, v : r \in {w, [w EXCEPT !.todo = t, !.at = u, !.acc = v], Stop(w), Budget(w, a),
                             Stop(entered), Stop([entered EXCEPT !.diags = t])}
      \/ IsDecoded(i, a) /\ r = DiscoverInstruction(i, y, n, observed, s, a, op)
  <2>1. a \in i.mapped /\ op # None => IsDecoded(i, a)
    BY DEF IsDecoded, IsLaidOut
  <2> HIDE DEF entered, observed
  <2> QED BY <2>1 DEF DiscoverStep, entered, observed
<1>2. IsTrace(i, entered)
  BY DEF IsTrace, TraceFields
<1> HIDE DEF entered, a, op
<1>3. IsDecoded(i, a) => IsTrace(i, observed)
  BY <1>2, OperandsKeep
<1> HIDE DEF observed
<1>4. IsDecoded(i, a) => IsTrace(i, DiscoverInstruction(i, y, n, observed, s, a, op))
  BY <1>3, TracedInstruction
<1> HIDE DEF r
<1>5. IsTrace(i, r)
  BY <1>1, <1>2, <1>4 DEF Stop, Budget, IsTrace, TraceFields
<1> QED BY <1>5 DEF r

LEMMA TracedFunction ==
    ASSUME IsLaidOut(img), NEW y, NEW p, IsDiscovery(p), NEW s, NEW n
    PROVE  IsTrace(img, Discover(img, y, p, s, n))
<1> DEFINE x == [an |-> y, noreturn |-> n, start |-> s]
           base == Discovery(s, y, p)
           d == Discover(img, y, p, s, n)
<1>1. Fuel \in Nat
  BY PointersAssumption DEF Fuel
<1>2. IsTrace(img, base)
  BY Short DEF Discovery, IsTrace, TraceFields, AreOperands
<1>3. PICK f : IsRun("discover", x, base, Fuel, f) /\ d = f[Fuel]
  <2> DEFINE Is(f) == f = [k \in 0..Fuel |->
                              IF k = 0 THEN Discovery(s, y, p)
                              ELSE DiscoverStep(img, y, n, f[k - 1], s)]
             h == CHOOSE f : Is(f)
  <2>1. d = h[Fuel]
    BY DEF Discover
  <2>2. \A f : IsRun("discover", x, base, Fuel, f) <=> Is(f)
    BY DEF IsRun, RepeatedStep
  <2>3. PICK g : IsRun("discover", x, base, Fuel, g)
    BY <1>1, RunsExist
  <2> HIDE DEF d, Is, x, base
  <2>4. Is(h)
    BY <2>2, <2>3
  <2> HIDE DEF h
  <2> QED BY <2>1, <2>2, <2>4
<1> HIDE DEF base, d
<1> DEFINE K == {k \in Nat : k <= Fuel => IsTrace(img, f[k])}
<1>4. \A k \in 0..Fuel : f[k] = IF k = 0 THEN base ELSE DiscoverStep(img, y, n, f[k - 1], s)
  BY <1>3 DEF IsRun, RepeatedStep
<1>5. 0 \in K
  BY <1>1, <1>2, <1>4
<1>6. ASSUME NEW k \in 0..Fuel - 1, k \in K
      PROVE  k + 1 \in K
  <2>1. f[k + 1] = DiscoverStep(img, y, n, f[k], s)
    BY <1>1, <1>4
  <2>2. IsTrace(img, f[k + 1])
    BY <1>1, <1>6, <2>1, TracedStep
  <2> QED BY <2>2
<1>7. Fuel \in K
  <2> HIDE DEF K
  <2> QED BY <1>1, <1>5, <1>6, UpTo
<1>8. IsTrace(img, d)
  BY <1>1, <1>3, <1>7
<1> QED BY <1>8 DEF d

----------------------------------------------------------------------------
(* The preparation of a function *)

PreparationFields ==
    {"todo", "done", "at", "block", "gone", "xrefs", "diags", "p", "seen", "result"}

IsPreparation(w) == DOMAIN w = PreparationFields /\ IsDiscovery(w.p)

(* A pointer in the way is one of those known, and becomes code.            *)
LEMMA MeetingKeeps ==
    ASSUME NEW i, NEW y, NEW w, IsPreparation(w), NEW z,
           PointerLocation(i, z, w.p, w.at) # None
    PROVE  IsPreparation(MeetPointer(i, y, w, PointerLocation(i, z, w.p, w.at)))
<1> DEFINE pointer == PointerLocation(i, z, w.p, w.at)
           below == {s \in DOMAIN w.p.ptrs : s <= w.at}
           r == MeetPointer(i, y, w, pointer)
<1>1. pointer = Max(below) /\ below # {}
  BY DEF PointerLocation
<1>2. pointer \in Int /\ w.p.ptrs[pointer] \in Int /\ pointer < w.p.ptrs[pointer]
  <2>1. IsFiniteSet(below) /\ below \subseteq Int
    BY FS_Subset DEF IsPreparation, IsDiscovery, ArePointers
  <2>2. below \subseteq DOMAIN w.p.ptrs
    OBVIOUS
  <2> HIDE DEF below, pointer
  <2>3. pointer \in below
    BY <1>1, <2>1, MaxIsIn
  <2> QED BY <2>2, <2>3 DEF IsPreparation, IsDiscovery, ArePointers
<1> HIDE DEF pointer
<1>3. IsDiscovery(MarkCode(w.p, pointer, w.p.ptrs[pointer]))
      /\ IsDiscovery(RemovePointerReference(w.p, pointer))
  BY <1>2, MarksKeep DEF IsPreparation, RemovePointerReference, IsDiscovery, DiscoveryFields
<1> DEFINE p == MarkCode(w.p, pointer, w.p.ptrs[pointer])
           q == RemovePointerReference(w.p, pointer)
<1>4. \/ \E u, v, d : r = [w EXCEPT !.at = None, !.p = q, !.gone = u, !.xrefs = v, !.diags = d]
      \/ r = [w EXCEPT !.result = "failed"]
      \/ r = [w EXCEPT !.result = "retype", !.p = p]
  <2> HIDE DEF p, q
  <2> QED BY DEF MeetPointer, p, q, IsPreparation, PreparationFields
<1> HIDE DEF p, q
<1>5. IsDiscovery(p) /\ IsDiscovery(q)
  BY <1>3 DEF p, q
<1> HIDE DEF r
<1>6. IsPreparation(r)
  BY <1>4, <1>5 DEF IsPreparation, PreparationFields
<1> QED BY <1>6 DEF r, pointer

LEMMA PreparingKeeps ==
    ASSUME NEW i, NEW y, NEW g, NEW w, IsPreparation(w)
    PROVE  IsPreparation(PrepareStep(i, y, g, w))
<1> DEFINE now == Prepared(y, w)
           loc == InstructionLocation(i, now, IF w.at = None THEN Last(w.todo) ELSE w.at)
           pointer == PointerLocation(i, now, w.p, w.at)
           enter(a) == [w EXCEPT !.todo = Front(@), !.done = @ \cup {a}, !.at = a, !.block = a,
                                 !.seen = IF loc # None THEN @ \cup {a} ELSE @]
           r == PrepareStep(i, y, g, w)
<1>1. \/ r \in {w, [w EXCEPT !.result = "ready"], [w EXCEPT !.todo = Front(@)], enter(Last(w.todo)),
               PassLocation(i, y, g, w, loc), [w EXCEPT !.at = None]}
      \/ pointer # None /\ r = MeetPointer(i, y, w, pointer)
  <2> HIDE DEF now, loc, pointer
  <2> QED BY DEF PrepareStep, now, loc, pointer
<1>2. \A a : IsPreparation(enter(a))
  BY DEF IsPreparation, PreparationFields
<1>3. IsPreparation(PassLocation(i, y, g, w, loc))
  <2> HIDE DEF loc
  <2> QED BY DEF PassLocation, IsPreparation, PreparationFields
<1>4. pointer # None => IsPreparation(MeetPointer(i, y, w, pointer))
  BY MeetingKeeps
<1> HIDE DEF enter, loc, pointer, r
<1>5. IsPreparation(r)
  BY <1>1, <1>2, <1>3, <1>4 DEF IsPreparation, PreparationFields
<1> QED BY <1>5 DEF r

LEMMA PreparedKeeps ==
    ASSUME NEW y, NEW p, IsDiscovery(p), NEW s, NEW seen
    PROVE  IsPreparation(PrepareFunctionCode(img, y, graph, p, s, seen))
<1> DEFINE x == [an |-> y]
           base == Preparation(s, y, p, seen)
           d == PrepareFunctionCode(img, y, graph, p, s, seen)
<1>1. PrepareFuel \in Nat
  BY ImageAssumption, ViewsAssumption DEF PrepareFuel
<1>2. IsPreparation(base)
  BY DEF Preparation, IsPreparation, PreparationFields
<1>3. PICK f : IsRun("prepare", x, base, PrepareFuel, f) /\ d = f[PrepareFuel]
  <2> DEFINE Is(f) == f = [k \in 0..PrepareFuel |->
                              IF k = 0 THEN Preparation(s, y, p, seen)
                              ELSE PrepareStep(img, y, graph, f[k - 1])]
             h == CHOOSE f : Is(f)
  <2>1. d = h[PrepareFuel]
    BY DEF PrepareFunctionCode
  <2>2. \A f : IsRun("prepare", x, base, PrepareFuel, f) <=> Is(f)
    BY DEF IsRun, RepeatedStep
  <2>3. PICK g : IsRun("prepare", x, base, PrepareFuel, g)
    BY <1>1, RunsExist
  <2> HIDE DEF d, Is, x, base
  <2>4. Is(h)
    BY <2>2, <2>3
  <2> HIDE DEF h
  <2> QED BY <2>1, <2>2, <2>4
<1> HIDE DEF base, d
<1> DEFINE K == {k \in Nat : k <= PrepareFuel => IsPreparation(f[k])}
<1>4. \A k \in 0..PrepareFuel : f[k] = IF k = 0 THEN base ELSE PrepareStep(img, y, graph, f[k - 1])
  BY <1>3 DEF IsRun, RepeatedStep
<1>5. 0 \in K
  BY <1>1, <1>2, <1>4
<1>6. ASSUME NEW k \in 0..PrepareFuel - 1, k \in K
      PROVE  k + 1 \in K
  <2>1. f[k + 1] = PrepareStep(img, y, graph, f[k])
    BY <1>1, <1>4
  <2>2. IsPreparation(f[k + 1])
    BY <1>1, <1>6, <2>1, PreparingKeeps
  <2> QED BY <2>2
<1>7. PrepareFuel \in K
  <2> HIDE DEF K
  <2> QED BY <1>1, <1>5, <1>6, UpTo
<1>8. IsPreparation(d)
  BY <1>1, <1>3, <1>7
<1> QED BY <1>8 DEF d

----------------------------------------------------------------------------
(* The locations of tables *)

LEMMA TablesTogether ==
    ASSUME NEW s, AreTables(s), NEW t, AreTables(t)
    PROVE  AreTables(s \o t)
BY ConcatProperties DEF AreTables

(* A switch types the first slot of its table at most.                      *)
LEMMA SwitchLocations ==
    ASSUME NEW i, IsLaidOut(i), NEW y, NEW branch, NEW known
    PROVE  AreTables(SwitchTargets(i, y, branch, known).locs)
<1> DEFINE d == i.dispatch[branch]
           slot == <<<<d.table, Width>>>>
           r == SwitchTargets(i, y, branch, known)
           g == GuardedTargets(i, y, d, Compare(i, y, branch), branch, known)
<1>1. \/ r = Unresolved
      \/ branch \in DOMAIN i.dispatch /\ (r = g \/ r.locs = slot)
  <2> HIDE DEF d, g
  <2> QED BY DEF SwitchTargets, Resolution, d, g
<1>2. g.locs \in {<<>>, slot}
  <2> HIDE DEF d
  <2> QED BY DEF GuardedTargets, Unresolved, Resolution
<1>3. branch \in DOMAIN i.dispatch => AreTables(slot)
  <2>1. branch \in DOMAIN i.dispatch => d.table \in Nat
    BY DEF IsLaidOut
  <2>2. Width \in Nat \ {0}
    BY ImageAssumption
  <2> HIDE DEF d
  <2> QED BY <2>1, <2>2 DEF AreTables
<1>4. AreTables(<<>>) /\ Unresolved.locs = <<>>
  BY DEF AreTables, Unresolved, Resolution
<1> HIDE DEF slot, g, r
<1>5. AreTables(r.locs)
  BY <1>1, <1>2, <1>3, <1>4
<1> QED BY <1>5 DEF r

(* Slots have the width of a pointer.                                       *)
LEMMA SlotLocations ==
    ASSUME NEW i, NEW op, op.mem \in Nat \cup {None}, NEW targets
    PROVE  AreTables(TableSlots(i, op, targets))
<1> DEFINE slot(k) == op.mem + (k - 1) * Width
           runs == {n \in 0..Top + 1 : \A k \in 1..n : ReadPointer(i, slot(k)) \in ToSet(targets)}
           m == Max(runs)
           slots == [k \in 1..m |-> <<slot(k), Width>>]
<1>1. TableSlots(i, op, targets) = IF op.mem = None THEN <<>> ELSE slots
  BY DEF TableSlots
<1>2. m \in Nat
  <2>1. IsFiniteSet(runs) /\ runs \subseteq Int /\ runs \subseteq Nat
    <3>1. Top + 1 \in Nat
      BY ImageAssumption
    <3>2. IsFiniteSet(0..Top + 1) /\ 0..Top + 1 \subseteq Nat
      BY <3>1, FS_Interval
    <3>3. runs \subseteq 0..Top + 1
      OBVIOUS
    <3> DEFINE all == 0..Top + 1
    <3>4. IsFiniteSet(all) /\ runs \subseteq all /\ all \subseteq Nat
      BY <3>2, <3>3
    <3> HIDE DEF runs, all
    <3>5. IsFiniteSet(runs)
      BY <3>4, FS_Subset
    <3> QED BY <3>4, <3>5
  <2>2. 0 \in runs
    BY ImageAssumption
  <2> HIDE DEF runs
  <2> QED BY <2>1, <2>2, MaxIsIn
<1> HIDE DEF m
<1>3. op.mem # None => AreTables(slots)
  <2> SUFFICES ASSUME op.mem # None
               PROVE  AreTables(slots)
    OBVIOUS
  <2>1. op.mem \in Nat /\ Width \in Nat \ {0}
    BY ImageAssumption
  <2>2. \A k \in 1..m : slot(k) \in Nat
    BY <1>2, <2>1
  <2> HIDE DEF slot
  <2>3. slots \in [1..m -> Nat \X (Nat \ {0})]
    BY <2>1, <2>2
  <2> HIDE DEF slots
  <2> QED BY <1>2, <2>3 DEF AreTables
<1>4. AreTables(<<>>)
  BY DEF AreTables
<1> HIDE DEF slots
<1> QED BY <1>1, <1>3, <1>4

LEMMA ArmLocations ==
    ASSUME IsLaidOut(img), NEW a, NEW y
    PROVE  AreTables(ArmsOf(a, y).locs)
<1> DEFINE op == img.at[a]
           none == [targets |-> None, xrefs |-> y.xrefs, diags |-> {}, locs |-> <<>>]
           of(s) == [none EXCEPT !.targets = s.targets, !.xrefs = s.xrefs, !.diags = s.diags]
           scanned == IF graph.compat
                      THEN of(JumpTableTargetsCompat(img, y, a, graph.known))
                      ELSE [none EXCEPT !.targets = JumpTableTargets(img, op)]
           s == SwitchTargets(img, y, a, IF graph.compat THEN graph.known ELSE None)
           arms == ArmsOf(a, y)
<1>1. arms \in {scanned, [none EXCEPT !.targets = s.targets, !.locs = s.locs]}
  <2> HIDE DEF scanned, s
  <2> QED BY Zenon DEF ArmsOf, scanned, s
<1>2. scanned.locs = <<>>
  <2>1. \A t : of(t).locs = <<>> /\ [none EXCEPT !.targets = t].locs = <<>>
    OBVIOUS
  <2> HIDE DEF of, none
  <2> QED BY <2>1
<1>3. AreTables(s.locs) /\ AreTables(<<>>)
  BY SwitchLocations DEF AreTables
<1> HIDE DEF scanned, s, arms
<1>4. AreTables(arms.locs)
  BY <1>1, <1>2, <1>3
<1> QED BY <1>4 DEF arms

(* Register jumps become switches one after the other.                      *)
LEMMA ResolvingKeeps ==
    ASSUME IsLaidOut(img), AreTables(graph.tables), NEW y, NEW xrefs, NEW branches, IsSeq(branches)
    PROVE  AreTables(ResolveSwitches(y, xrefs, branches).tables)
<1> DEFINE base == Switches(xrefs, graph.succ, graph.tables, <<>>)
           n == Len(branches)
           folded == ResolveSwitches(y, xrefs, branches)
<1>1. n \in Nat /\ DOMAIN branches = 1..n
  BY SeqOver DEF IsSeq
<1>2. AreTables(base.tables)
  BY DEF Switches
<1>3. PICK f : IsFold("resolve", y, base, branches, f) /\ folded = f[DOMAIN branches]
  <2> DEFINE put(q, a, s) ==
                IF s.targets = None THEN q
                ELSE Switches(FoldLeft(LAMBDA x, t : PushXref(x, t, a), q.xrefs, s.targets),
                              Insert(q.succ, a, [i \in DOMAIN s.targets |-> Edge(s.targets[i], "table")]),
                              q.tables \o s.locs, q.arms \o s.targets)
             one(q, a) == put(q, a, SwitchTargets(img, [y EXCEPT !.xrefs = q.xrefs], a, graph.known))
             Is(f) == f = [s \in SUBSET DOMAIN branches |->
                              IF s = {} THEN base ELSE one(f[s \ {Max(s)}], branches[Max(s)])]
             h == CHOOSE f : Is(f)
  <2>1. folded = h[DOMAIN branches]
    BY DEF ResolveSwitches, FoldLeft, MapThenFoldSet
  <2>2. \A q, a : one(q, a) = RepeatedStep("resolve", y, q, a)
    BY DEF RepeatedStep, Resolve
  <2> HIDE DEF folded, one, base
  <2>3. \A f : IsFold("resolve", y, base, branches, f) <=> Is(f)
    BY <2>2 DEF IsFold
  <2>4. PICK g : IsFold("resolve", y, base, branches, g)
    BY <1>1, FoldsExist
  <2> HIDE DEF Is
  <2>5. Is(h)
    BY <2>3, <2>4
  <2> HIDE DEF h
  <2> QED BY <2>1, <2>3, <2>5
<1> HIDE DEF base, folded, n
<1>5. /\ f[1..0] = base
      /\ \A k \in 0..n - 1 : f[1..k + 1] = RepeatedStep("resolve", y, f[1..k], branches[k + 1])
  BY <1>1, <1>3, FoldSteps
<1> DEFINE K == {k \in Nat : AreTables(f[1..k].tables)}
<1>6. 0 \in K
  BY <1>2, <1>5
<1>7. ASSUME NEW q, AreTables(q.tables), NEW a
      PROVE  AreTables(Resolve(y, q, a).tables)
  <2> DEFINE s == SwitchTargets(img, [y EXCEPT !.xrefs = q.xrefs], a, graph.known)
  <2>1. Resolve(y, q, a).tables \in {q.tables, q.tables \o s.locs}
    <3> HIDE DEF s
    <3> QED BY DEF Resolve, Switches, s
  <2>2. AreTables(s.locs)
    BY SwitchLocations
  <2> HIDE DEF s
  <2>3. AreTables(q.tables \o s.locs)
    BY <1>7, <2>2, TablesTogether
  <2> QED BY <1>7, <2>1, <2>3
<1>8. ASSUME NEW k \in 0..n - 1, k \in K
      PROVE  k + 1 \in K
  <2>1. f[1..k + 1] = Resolve(y, f[1..k], branches[k + 1])
    BY <1>5 DEF RepeatedStep
  <2>2. AreTables(f[1..k + 1].tables)
    BY <1>7, <1>8, <2>1
  <2> QED BY <2>2
<1>9. n \in K
  <2> HIDE DEF K
  <2> QED BY <1>1, <1>6, <1>8, UpTo
<1>10. AreTables(folded.tables)
  BY <1>1, <1>3, <1>9
<1> QED BY <1>10 DEF folded

----------------------------------------------------------------------------
(* The tasks that have addresses *)

(* An instruction that waits for a pointer lies in memory; the pointers to  *)
(* follow are read by instructions.                                         *)
IsStep(i, t) == /\ t.kind = "opcode" => t.a \in Addr
                /\ t.kind = "pointers" => AreOperands(i, t.operands)

AreSteps(i, tasks) == IsSeq(tasks) /\ \A t \in ToSet(tasks) : IsStep(i, t)

LEMMA StepsTogether ==
    ASSUME NEW i, NEW s, AreSteps(i, s), NEW t, AreSteps(i, t)
    PROVE  AreSteps(i, s \o t)
BY Concatenation DEF AreSteps

LEMMA SomeSteps ==
    ASSUME NEW i
    PROVE  /\ AreSteps(i, <<>>)
           /\ \A a : AreSteps(i, <<Path(a)>>)
           /\ \A targets : AreSteps(i, Paths(targets))
           /\ \A list : AreSteps(i, Batch("callback", list))
           /\ \A kind, a : kind \notin {"opcode", "pointers"} \/ (kind = "opcode" /\ a \in Addr)
                              => AreSteps(i, <<Task(kind, a)>>)
           /\ \A operands : AreOperands(i, operands) => AreSteps(i, <<Pointers(operands)>>)
<1>1. AreSteps(i, <<>>)
  BY Short DEF AreSteps
<1>2. ASSUME NEW t, IsStep(i, t)
      PROVE  AreSteps(i, <<t>>)
  BY <1>2, Short DEF AreSteps
<1>3. ASSUME NEW kind, NEW list, kind \notin {"opcode", "pointers"}
      PROVE  AreSteps(i, Batch(kind, list))
  <2>1. IsStep(i, [kind |-> kind, list |-> list])
    BY <1>3 DEF IsStep
  <2>2. AreSteps(i, <<[kind |-> kind, list |-> list]>>)
    BY <1>2, <2>1
  <2> QED BY <1>1, <2>2 DEF Batch
<1>4. ASSUME NEW kind, NEW a, kind \notin {"opcode", "pointers"} \/ (kind = "opcode" /\ a \in Addr)
      PROVE  AreSteps(i, <<Task(kind, a)>>)
  <2>1. IsStep(i, Task(kind, a))
    BY <1>4 DEF IsStep, Task
  <2> QED BY <1>2, <2>1
<1>5. ASSUME NEW a
      PROVE  AreSteps(i, <<Path(a)>>)
  <2>1. IsStep(i, Path(a))
    BY DEF IsStep, Path
  <2> QED BY <1>2, <2>1
<1>6. ASSUME NEW operands, AreOperands(i, operands)
      PROVE  AreSteps(i, <<Pointers(operands)>>)
  <2>1. IsStep(i, Pointers(operands))
    BY <1>6 DEF IsStep, Pointers
  <2> QED BY <1>2, <2>1
<1>7. /\ \A targets : AreSteps(i, Paths(targets))
      /\ \A list : AreSteps(i, Batch("callback", list))
  BY <1>3 DEF Paths
<1> QED BY <1>1, <1>4, <1>5, <1>6, <1>7

(* In front of other tasks. *)
LEMMA StepsOnto ==
    ASSUME NEW i, NEW rest, AreSteps(i, rest)
    PROVE  /\ \A a : AreSteps(i, <<Path(a)>> \o rest)
           /\ \A targets : AreSteps(i, Paths(targets) \o rest)
           /\ \A list : AreSteps(i, Batch("callback", list) \o rest)
           /\ \A kind, a : kind \notin {"opcode", "pointers"} \/ (kind = "opcode" /\ a \in Addr)
                              => AreSteps(i, <<Task(kind, a)>> \o rest)
           /\ \A operands : AreOperands(i, operands) => AreSteps(i, <<Pointers(operands)>> \o rest)
           /\ \A t : AreSteps(i, Descend(t, rest))
           /\ \A t, f : AreSteps(i, <<Path(t), Task("finish", f)>> \o rest)
<1>1. ASSUME NEW s, AreSteps(i, s)
      PROVE  AreSteps(i, s \o rest)
  BY <1>1, StepsTogether
<1>2. ASSUME NEW t, NEW f
      PROVE  AreSteps(i, <<Path(t), Task("finish", f)>>)
  BY Short DEF AreSteps, IsStep, Path, Task
<1> QED BY <1>1, <1>2, SomeSteps DEF Descend

(* Many tasks of one kind.                                                  *)
LEMMA ManySteps ==
    ASSUME NEW i, NEW kind, kind \notin {"opcode", "pointers"}, NEW s, IsSeq(s)
    PROVE  AreSteps(i, [j \in DOMAIN s |-> Task(kind, s[j])])
<1> DEFINE t == [j \in DOMAIN s |-> Task(kind, s[j])]
<1>1. DOMAIN s = 1..Len(s) /\ Len(s) \in Nat
  BY SeqOver DEF IsSeq
<1>2. t \in [1..Len(s) -> {Task(kind, a) : a \in ToSet(s)}]
  BY <1>1 DEF ToSet
<1>3. t \in Seq({Task(kind, a) : a \in ToSet(s)})
  BY <1>1, <1>2
<1>4. IsSeq(t) /\ ToSet(t) \subseteq {Task(kind, a) : a \in ToSet(s)}
  BY <1>3, SeqOver
<1> HIDE DEF t
<1>5. \A a : IsStep(i, Task(kind, a))
  BY DEF IsStep, Task
<1>6. AreSteps(i, t)
  BY <1>4, <1>5 DEF AreSteps
<1> QED BY <1>6 DEF t

----------------------------------------------------------------------------
(* The invariant of the typed locations *)

TInv ==
    /\ IsLaidOut(img)
    /\ IsDiscovery(ptr)
    /\ AreTables(graph.tables)
    /\ \A a \in an.insns : IsDecoded(img, a)
    /\ walk.resume /\ walk.at # None => walk.at \in Addr
    /\ AreSteps(img, walk.tasks)

(* The first task and the others.                                           *)
LEMMA FirstStep ==
    ASSUME TInv, walk.tasks # <<>>
    PROVE  AreSteps(img, Rest) /\ IsStep(img, Head(walk.tasks))
BY HeadAndTail DEF TInv, AreSteps, Rest

(* The tasks that neither look at pointers nor walk an instruction.         *)
LEMMA TasksKeepTyped ==
    ASSUME TInv, Walkable,
           TakePath \/ ResumeCall \/ CallbackTarget \/ FlirtLocal \/ FinalizeFunction \/ ReleaseDelayed
    PROVE  TInv'
<1>1. /\ walk.on /\ walk.at = None /\ walk.tasks # <<>> /\ UNCHANGED <<img, ptr>>
      /\ DOMAIN walk = WalkFields
  BY DEF Walkable, TakePath, ResumeCall, CallbackTarget, FlirtLocal, FinalizeFunction,
         ReleaseDelayed, AtTask
<1>2. AreSteps(img, Rest) /\ IsStep(img, Head(walk.tasks))
  BY <1>1, FirstStep
<1>3. graph'.tables = graph.tables
  <2>1. \/ graph' = graph
        \/ \E succ : graph' = [graph EXCEPT !.succ = succ]
        \/ \E known, seen : graph' = [graph EXCEPT !.known = known, !.recognized = seen]
    BY Zenon DEF TakePath, ResumeCall, CallbackTarget, FlirtLocal, FinalizeFunction, ReleaseDelayed
  <2> QED BY <2>1 DEF Walkable, Fields, GraphFields
<1>4. an'.insns = an.insns
  <2>1. \/ an' = an
        \/ \E u, v : an' = [an EXCEPT !.noretCalls = u, !.xrefs = v]
        \/ \E seeds : an' = [an EXCEPT !.seeds = seeds]
        \/ \E u, v : an' = [an EXCEPT !.flirtCounts = u, !.locationCounts = v]
        \/ \E counts : an' = [an EXCEPT !.analysisCounts = counts]
    BY DEF TakePath, ResumeCall, CallbackTarget, FlirtLocal, FinalizeFunction, ReleaseDelayed,
           Walkable, Fields, AnalysisFields
  <2> QED BY <2>1 DEF Walkable, Fields, AnalysisFields
<1>5. /\ AreSteps(img, walk'.tasks)
      /\ walk'.resume /\ walk'.at # None => walk'.at \in Addr
  <2>1. CASE TakePath
    <3>1. CASE AtTask("path")
      <4>1. Head(walk.tasks).kind = "path"
        BY <3>1 DEF AtTask
      <4>2. walk' = [walk EXCEPT !.tasks = Paths(Tail(Head(walk.tasks).list)) \o Rest,
                                 !.at = Head(Head(walk.tasks).list), !.resume = FALSE]
        BY <2>1, <4>1 DEF TakePath, AtTask
      <4>3. AreSteps(img, Paths(Tail(Head(walk.tasks).list)) \o Rest)
        BY <1>2, StepsOnto
      <4> QED BY <1>1, <4>2, <4>3 DEF WalkFields
    <3>2. CASE AtTask("opcode")
      <4>1. Head(walk.tasks).kind = "opcode" /\ Head(walk.tasks).a \in Addr
        BY <1>2, <3>2 DEF AtTask, IsStep
      <4>2. walk' = [walk EXCEPT !.tasks = Rest, !.at = Head(walk.tasks).a, !.resume = TRUE]
        BY <2>1, <4>1 DEF TakePath, AtTask
      <4> QED BY <1>1, <1>2, <4>1, <4>2 DEF WalkFields
    <3> QED BY <2>1, <3>1, <3>2 DEF TakePath
  <2>2. CASE ResumeCall
    <3>1. PICK a : walk' \in {[walk EXCEPT !.tasks = Rest], [walk EXCEPT !.tasks = <<Path(a)>> \o Rest]}
      BY <2>2 DEF ResumeCall, Remaining
    <3>2. AreSteps(img, <<Path(a)>> \o Rest)
      BY <1>2, StepsOnto
    <3> DEFINE ahead == <<Path(a)>> \o Rest
    <3>3. walk' \in {[walk EXCEPT !.tasks = Rest], [walk EXCEPT !.tasks = ahead]} /\ AreSteps(img, ahead)
      BY <3>1, <3>2
    <3> HIDE DEF ahead
    <3> QED BY <1>1, <1>2, <3>3 DEF WalkFields
  <2>3. CASE CallbackTarget
    <3> DEFINE t == Head(walk.tasks).list[1][1]
               later == Batch("callback", Tail(Head(walk.tasks).list)) \o Rest
    <3>1. \/ walk' = [walk EXCEPT !.tasks = later]
          \/ walk' = [walk EXCEPT !.calls = @ \cup {t}, !.tasks = Descend(t, later)]
      BY <2>3 DEF CallbackTarget, Remaining
    <3>2. AreSteps(img, later)
      BY <1>2, StepsOnto
    <3> HIDE DEF t, later
    <3>3. AreSteps(img, Descend(t, later))
      BY <3>2, StepsOnto
    <3> QED BY <1>1, <3>1, <3>2, <3>3 DEF WalkFields
  <2>4. CASE FlirtLocal
    <3> DEFINE f == Head(walk.tasks).a
    <3>1. \/ walk' = [walk EXCEPT !.tasks = Rest]
          \/ walk' = [walk EXCEPT !.calls = @ \cup {f}, !.tasks = Descend(f, Rest)]
      BY <2>4 DEF FlirtLocal, Remaining
    <3> HIDE DEF f
    <3>2. AreSteps(img, Descend(f, Rest))
      BY <1>2, StepsOnto
    <3> QED BY <1>1, <1>2, <3>1, <3>2 DEF WalkFields
  <2>5. CASE FinalizeFunction
    <3> DEFINE f == Head(walk.tasks).a
               locals == Ascending(FlirtLocals(f))
               release == IF f \in walk.released THEN <<>> ELSE <<Task("release", f)>>
               many == [j \in DOMAIN locals |-> Task("local", locals[j])]
               tasks == many \o release \o Rest
    <3>1. walk' = [walk EXCEPT !.released = @ \ {f}, !.tasks = tasks]
      BY <2>5 DEF FinalizeFunction
    <3>2. AreSteps(img, many) /\ AreSteps(img, release)
      BY AscendingHasAll, ManySteps, SomeSteps
    <3> HIDE DEF many, release
    <3>3. AreSteps(img, tasks)
      BY <1>2, <3>2, StepsTogether
    <3> HIDE DEF tasks
    <3> QED BY <1>1, <3>1, <3>3 DEF WalkFields
  <2>6. CASE ReleaseDelayed
    <3> DEFINE f == Head(walk.tasks).a
               waits == [g \in DOMAIN walk.delayed |-> walk.delayed[g] \ {f}]
               ready == {g \in DOMAIN waits : waits[g] = {}}
               order == Ascending(ready)
               many == [j \in DOMAIN order |-> Task("finish", order[j])]
               tasks == many \o Rest
               delayed == [g \in DOMAIN waits \ ready |-> waits[g]]
    <3>1. walk' = [walk EXCEPT !.delayed = delayed, !.released = @ \cup ready, !.tasks = tasks]
      BY <2>6 DEF ReleaseDelayed
    <3>2. AreSteps(img, many)
      BY AscendingHasAll, ManySteps
    <3> HIDE DEF many
    <3>3. AreSteps(img, tasks)
      BY <1>2, <3>2, StepsTogether
    <3> HIDE DEF tasks, ready, delayed
    <3> QED BY <1>1, <3>1, <3>3 DEF WalkFields
  <2> QED BY <2>1, <2>2, <2>3, <2>4, <2>5, <2>6
<1> QED BY <1>1, <1>3, <1>4, <1>5 DEF TInv

(* The record of a function that is being finished, with its pointers,      *)
(* tables and tasks.                                                        *)
Located(r) ==
    /\ DOMAIN r = {"an", "graph", "ptr", "tasks", "blocks", "retyping"}
    /\ DOMAIN r.graph = GraphFields
    /\ IsDiscovery(r.ptr)
    /\ AreTables(r.graph.tables)
    /\ AreSteps(img, r.tasks)

LEMMA ExtentLocates ==
    ASSUME NEW r, Located(r), NEW f, NEW view
    PROVE  Located(WithExtent(r, f, view))
<1> DEFINE noted == Diagnose(r.an, f, "extent not preserved")
           blocks == Installed(view.blocks, Deleted(r, f))
           gone == IF Deleted(r, f) = {} THEN {} ELSE {Min(Deleted(r, f))}
           an1 == [r.an EXCEPT !.functions = Insert(@, f, blocks),
                               !.diags = @ \cup {<<a, "deleted block">> : a \in gone}]
           completed == IF f \in DOMAIN r.graph.completed THEN r.graph.completed
                        ELSE Insert(r.graph.completed, f, blocks)
           graph1 == [r.graph EXCEPT !.completed = completed]
<1>1. WithExtent(r, f, view) = IF view.oversized THEN [r EXCEPT !.an = noted]
                               ELSE [r EXCEPT !.an = an1, !.graph = graph1]
  BY Zenon DEF WithExtent
<1>2. DOMAIN graph1 = GraphFields /\ graph1.tables = r.graph.tables
  <2> HIDE DEF completed
  <2> QED BY DEF Located, GraphFields
<1> HIDE DEF noted, an1, graph1
<1>3. Located([r EXCEPT !.an = noted])
  BY DEF Located
<1>4. Located([r EXCEPT !.an = an1, !.graph = graph1])
  BY <1>2 DEF Located
<1> QED BY <1>1, <1>3, <1>4, Zenon

(* Calling analysis types pointers, resolves switches and leaves pointers   *)
(* to follow.                                                               *)
LEMMA CallsLocate ==
    ASSUME IsLaidOut(img), AreTables(graph.tables), NEW r, Located(r), NEW f
    PROVE  Located(AnalyzeCalls(r, f))
<1> DEFINE d == Discover(img, r.an, r.ptr, f, graph.known)
           q == ResolveSwitches(r.an, d.xrefs, d.switches)
           last == IF q.arms = <<>> THEN <<Task("finalize", f)>>
                   ELSE Paths(q.arms) \o <<Task("finish", f)>>
           left == Batch("callback", d.targets) \o <<Pointers(d.operands)>> \o last
           an1 == [r.an EXCEPT !.xrefs = q.xrefs, !.diags = @ \cup d.diags]
           graph1 == [r.graph EXCEPT !.succ = q.succ, !.tables = q.tables,
                                     !.completed = IF q.arms = <<>> THEN @ ELSE Without(@, f)]
           found == [r EXCEPT !.an = an1, !.graph = graph1, !.ptr = d.p, !.tasks = left \o @]
           open == [r EXCEPT !.tasks = <<Task("finalize", f)>> \o @]
<1>1. AnalyzeCalls(r, f) = IF graph.compat /\ CallingEnabled(img) THEN found ELSE open
  BY Zenon DEF AnalyzeCalls
<1>2. IsDiscovery(r.ptr) /\ AreSteps(img, r.tasks)
  BY DEF Located
<1>3. IsTrace(img, d)
  BY <1>2, TracedFunction
<1> HIDE DEF d
<1>4. IsDiscovery(d.p) /\ AreOperands(img, d.operands) /\ IsSeq(d.switches)
  BY <1>3 DEF IsTrace
<1>5. AreTables(q.tables)
  BY <1>4, ResolvingKeeps
<1> HIDE DEF q
<1>6. AreSteps(img, left \o r.tasks)
  <2>1. \A kind : kind \notin {"opcode", "pointers"} => AreSteps(img, <<Task(kind, f)>>)
    BY SomeSteps
  <2>2. AreSteps(img, Paths(q.arms))
    BY SomeSteps
  <2>3. AreSteps(img, Paths(q.arms) \o <<Task("finish", f)>>)
    BY <2>1, <2>2, StepsTogether
  <2>4. AreSteps(img, last)
    BY <2>1, <2>3
  <2>5. AreSteps(img, Batch("callback", d.targets)) /\ AreSteps(img, <<Pointers(d.operands)>>)
    BY <1>4, SomeSteps
  <2> HIDE DEF last
  <2>6. AreSteps(img, left)
    BY <2>4, <2>5, StepsTogether
  <2> HIDE DEF left
  <2> QED BY <1>2, <2>6, StepsTogether
<1>7. DOMAIN graph1 = GraphFields /\ graph1.tables = q.tables
  BY DEF Located, GraphFields
<1>8. Located(found)
  <2> HIDE DEF left, an1, graph1
  <2> QED BY <1>4, <1>5, <1>6, <1>7 DEF Located
<1>9. Located(open)
  <2>1. AreSteps(img, <<Task("finalize", f)>> \o r.tasks)
    BY <1>2, StepsOnto
  <2> QED BY <2>1 DEF Located
<1> QED BY <1>1, <1>8, <1>9, Zenon

(* Whatever the preparation of a function came to. *)
LEMMA FinishLocates ==
    ASSUME Fields, TInv, AreSteps(img, Rest), NEW f, NEW w, IsDiscovery(w.p)
    PROVE  Located(FinishPrepared(f, w))
<1> DEFINE an1 == Prepared(Ordered(f), w)
           r == Finishing(an1, w.p, Insert(walk.blocks, f, w.seen))
           view == IF w.result = "failed" THEN View(<<>>) ELSE BuildFunctionView(img, r.an, graph, f, FALSE)
           more == [r EXCEPT !.retyping = @ \cup {f},
                             !.tasks = <<Path(w.at), Task("finish", f)>> \o @]
<1>1. Located(r)
  <2> HIDE DEF an1
  <2> QED BY DEF Finishing, Located, Fields, TInv
<1>2. FinishPrepared(f, w) = IF w.result = "retype" THEN more ELSE CompleteFunction(r, f, view)
  BY DEF FinishPrepared
<1> HIDE DEF an1, r
<1>3. Located(more)
  <2>1. AreSteps(img, <<Path(w.at), Task("finish", f)>> \o r.tasks)
    BY <1>1, StepsOnto DEF Located
  <2> QED BY <1>1, <2>1 DEF Located
<1>4. Located(CompleteFunction(r, f, view))
  <2> DEFINE x == WithExtent(r, f, view)
             p == FunctionCompleted(img, x.an, x.ptr, f)
             padded == [x EXCEPT !.ptr = p]
  <2>1. CompleteFunction(r, f, view) = AnalyzeCalls(padded, f)
    BY Zenon DEF CompleteFunction
  <2>2. Located(x)
    BY <1>1, ExtentLocates
  <2>3. Located(padded)
    <3> HIDE DEF x
    <3>1. IsDiscovery(x.ptr)
      BY <2>2 DEF Located
    <3>2. IsDiscovery(p)
      BY <3>1, PaddingKeeps DEF TInv
    <3> HIDE DEF p
    <3> QED BY <2>2, <3>2 DEF Located
  <2> HIDE DEF padded
  <2> QED BY <2>1, <2>3, CallsLocate DEF TInv
<1> QED BY <1>2, <1>3, <1>4, Zenon

(* FinishFunction, whichever of its outcomes. *)
LEMMA FinishKeepsTyped ==
    ASSUME TInv, Walkable, FinishFunction
    PROVE  TInv'
<1> DEFINE f == Head(walk.tasks).a
           unprepared == [Preparation(f, an, ptr, BlocksSeen(f)) EXCEPT !.result = "failed"]
           prepared == IF f \in walk.failed THEN unprepared
                       ELSE PrepareFunctionCode(img, Ordered(f), graph, ptr, f, BlocksSeen(f))
<1>1. /\ walk.on /\ walk.at = None /\ walk.tasks # <<>> /\ UNCHANGED img
      /\ DOMAIN walk = WalkFields /\ Fields
  BY DEF Walkable, FinishFunction, AtTask
<1>2. AreSteps(img, Rest)
  BY <1>1, FirstStep
<1>3. IsDiscovery(prepared.p)
  <2>1. IsDiscovery(ptr)
    BY DEF TInv
  <2>2. unprepared.p = ptr
    BY DEF Preparation
  <2>3. IsPreparation(PrepareFunctionCode(img, Ordered(f), graph, ptr, f, BlocksSeen(f)))
    BY <2>1, PreparedKeeps
  <2> HIDE DEF unprepared, f
  <2> QED BY <2>1, <2>2, <2>3 DEF IsPreparation
<1>4. \/ walk' = Remaining(Rest) /\ UNCHANGED <<an, graph, ptr>>
      \/ \E r \in {FinishPrepared(f, prepared)} :
            /\ an' = r.an /\ graph' = r.graph /\ ptr' = r.ptr
            /\ walk' = [walk EXCEPT !.tasks = r.tasks, !.blocks = r.blocks,
                                    !.retyping = r.retyping, !.failed = @ \ {f}]
  BY DEF FinishFunction
<1> HIDE DEF f, prepared
<1>5. Located(FinishPrepared(f, prepared)) /\ Kept(FinishPrepared(f, prepared))
  BY <1>1, <1>2, <1>3, FinishLocates, FinishKeeps
<1>6. CASE walk' = Remaining(Rest) /\ UNCHANGED <<an, graph, ptr>>
  <2>1. walk'.tasks = Rest /\ walk'.at = None
    BY <1>1, <1>6 DEF Remaining, WalkFields
  <2> QED BY <1>1, <1>2, <1>6, <2>1 DEF TInv
<1>7. ASSUME NEW r, Located(r), Kept(r), an' = r.an, graph' = r.graph, ptr' = r.ptr,
             walk' = [walk EXCEPT !.tasks = r.tasks, !.blocks = r.blocks,
                                  !.retyping = r.retyping, !.failed = @ \ {f}]
      PROVE  TInv'
  <2>1. walk'.tasks = r.tasks /\ walk'.at = None
    BY <1>1, <1>7 DEF WalkFields
  <2> QED BY <1>1, <1>7, <2>1 DEF TInv, Located, Kept
<1> QED BY <1>4, <1>5, <1>6, <1>7

(* FollowPointers, one operand.                                             *)
LEMMA FollowKeepsTyped ==
    ASSUME TInv, Walkable, FollowPointers
    PROVE  TInv'
<1> DEFINE ops == Head(walk.tasks).operands
           tail == <<Pointers(Tail(ops))>> \o Rest
           later == IF Len(ops) = 1 THEN Rest ELSE tail
           seen == ObserveInstruction(img, an, ptr, ops[1][1], FALSE).p
<1>1. /\ walk.on /\ walk.at = None /\ walk.tasks # <<>> /\ UNCHANGED <<img, graph>>
      /\ DOMAIN walk = WalkFields /\ Fields /\ Head(walk.tasks).kind = "pointers"
  BY DEF Walkable, FollowPointers, AtTask
<1>2. AreSteps(img, Rest) /\ AreOperands(img, ops)
  BY <1>1, FirstStep DEF IsStep
<1>3. \/ walk' = [walk EXCEPT !.tasks = Rest] /\ UNCHANGED <<an, ptr>>
      \/ /\ ops # <<>>
         /\ \E r \in {FollowObservedPointer(img, an, seen, ops[1][2], graph.known)} :
              /\ an' = r.an /\ ptr' = r.p
              /\ \/ walk' = [walk EXCEPT !.tasks = later]
                 \/ walk' = [walk EXCEPT !.calls = @ \cup {r.target},
                                         !.tasks = Descend(r.target, tail)]
  BY DEF FollowPointers, Remaining
<1>4. ASSUME ops # <<>>
      PROVE  IsDiscovery(seen) /\ AreSteps(img, tail)
  <2>1. /\ IsSeq(ops) /\ IsSeq(Tail(ops)) /\ Head(ops) \in ToSet(ops)
        /\ ToSet(Tail(ops)) \subseteq ToSet(ops)
    BY <1>2, <1>4, HeadAndTail DEF AreOperands
  <2>2. IsDecoded(img, ops[1][1]) /\ AreOperands(img, Tail(ops))
    <3>1. ops[1] = Head(ops)
      BY <2>1 DEF IsSeq
    <3> HIDE DEF ops
    <3> QED BY <1>2, <2>1, <3>1 DEF AreOperands
  <2>3. IsDiscovery(seen)
    BY <2>2, ObservingKeeps DEF TInv
  <2>4. AreSteps(img, tail)
    BY <1>2, <2>2, StepsOnto
  <2> QED BY <2>3, <2>4
<1> HIDE DEF tail, later, seen, ops
<1>5. AreSteps(img, tail) => AreSteps(img, later) /\ \A t : AreSteps(img, Descend(t, tail))
  BY <1>2, StepsOnto DEF later
<1>6. CASE walk' = [walk EXCEPT !.tasks = Rest] /\ UNCHANGED <<an, ptr>>
  BY <1>1, <1>2, <1>6 DEF TInv, WalkFields
<1>7. ASSUME NEW r, ops # <<>>, r = FollowObservedPointer(img, an, seen, ops[1][2], graph.known),
             an' = r.an, ptr' = r.p,
             \/ walk' = [walk EXCEPT !.tasks = later]
             \/ walk' = [walk EXCEPT !.calls = @ \cup {r.target}, !.tasks = Descend(r.target, tail)]
      PROVE  TInv'
  <2>1. IsDiscovery(seen) /\ AreSteps(img, tail)
    BY <1>4, <1>7
  <2>2. IsDiscovery(ptr')
    BY <1>7, <2>1, FollowingKeeps DEF TInv
  <2>3. an'.insns = an.insns
    BY <1>1, <1>7, FollowKeeps DEF Fields
  <2>4. walk'.at = None /\ AreSteps(img, walk'.tasks)
    <3> DEFINE down == Descend(r.target, tail)
    <3>1. AreSteps(img, later) /\ AreSteps(img, down)
      BY <1>5, <2>1
    <3>2. \/ walk' = [walk EXCEPT !.tasks = later]
          \/ walk' = [walk EXCEPT !.calls = @ \cup {r.target}, !.tasks = down]
      BY <1>7
    <3> HIDE DEF down
    <3> QED BY <1>1, <3>1, <3>2 DEF WalkFields
  <2> QED BY <1>1, <2>2, <2>3, <2>4 DEF TInv
<1> QED BY <1>3, <1>6, <1>7

(* A path that ends before an instruction, and a walk that ends.            *)
LEMMA EndsKeepTyped ==
    ASSUME TInv, Inv, Walkable, StopPath \/ RejectInstruction \/ EndWalk \/ AbandonWalk
    PROVE  TInv'
<1>1. CASE StopPath \/ RejectInstruction
  <2>1. /\ UNCHANGED <<img, graph, ptr>> /\ an'.insns = an.insns
        /\ \E failed : walk' = [walk EXCEPT !.at = None, !.failed = failed]
    BY <1>1, QuietPathKeeps DEF StopPath, RejectInstruction
  <2>2. walk'.at = None /\ walk'.tasks = walk.tasks
    BY <2>1 DEF Walkable, WalkFields
  <2> QED BY <2>1, <2>2 DEF TInv
<1>2. CASE EndWalk \/ AbandonWalk
  <2>1. /\ UNCHANGED <<img, ptr>> /\ an'.insns = an.insns /\ walk' = NoWalk
        /\ graph' = graph \/ graph' = [graph EXCEPT !.delayed = @ \cup DOMAIN walk.delayed]
    BY <1>2, EndWalkKeeps DEF EndWalk, AbandonWalk, ReturnCalls
  <2>2. graph'.tables = graph.tables
    BY <2>1 DEF Walkable, Fields, GraphFields
  <2>3. walk'.resume = FALSE /\ walk'.tasks = <<>>
    BY <2>1 DEF NoWalk
  <2> QED BY <2>1, <2>2, <2>3, SomeSteps DEF TInv
<1> QED BY <1>1, <1>2

----------------------------------------------------------------------------
(* The step over an instruction *)

(* The instruction a walk has come to is in memory.                         *)
LEMMA WalkedIsDecoded ==
    ASSUME TInv, Inv, NInv, WalkInstruction
    PROVE  /\ IsDecoded(img, walk.at)
           /\ ~walk.resume => img.at[walk.at].len \in Nat \ {0}
<1>1. Walking /\ (walk.resume \/ ~IsBarrier(walk.at)) /\ ~IsUndecodable(walk.at)
  BY DEF WalkInstruction, Passes
<1>2. walk.at # None /\ img.at[walk.at] # None
  BY <1>1 DEF Walking, IsUndecodable
<1>3. ~walk.resume => walk.at \in img.exec
  BY <1>1 DEF IsBarrier, IsExecutable
<1>4. walk.at \in Addr
  BY <1>2, <1>3 DEF TInv, Inv, Fields
<1> QED BY <1>2, <1>3, <1>4 DEF IsDecoded, NInv, DecodedHaveBytes

(* Recording it cuts a pointer that it overwrites and types what it reads.  *)
LEMMA RecordLocates ==
    ASSUME TInv, NEW a, IsDecoded(img, a), ~walk.resume => img.at[a].len \in Nat \ {0}
    PROVE  IsDiscovery(Record(a).p)
<1> DEFINE op == img.at[a]
           mem(x) == IF op.mem = None THEN x ELSE PushXref(x, op.mem, a)
           imms(x) == IF graph.compat
                      THEN FoldLeft(LAMBDA y, t : IF t \in img.mapped THEN PushXref(y, t, a) ELSE y,
                                    x, op.imms)
                      ELSE x
           an1 == [Noted(a) EXCEPT !.drefs = imms(mem(@)), !.insns = @ \cup {a},
                                   !.order = IF Contains(@, a) THEN @ ELSE Append(@, a)]
           marked == MarkCode(ptr, a, NextOf(img, a))
           o == ObserveInstruction(img, an1, marked, a, TRUE)
<1>1. Record(a) = IF graph.compat /\ ~walk.resume
                  THEN (IF o.target = None THEN Followed_(an1, o.p, None)
                        ELSE FollowObservedPointer(img, an1, o.p, o.target, graph.known))
                  ELSE Followed_(an1, ptr, None)
  BY Zenon DEF Record
<1>2. ASSUME ~walk.resume
      PROVE  IsDiscovery(o.p)
  <2>1. a \in Int /\ NextOf(img, a) \in Int /\ a < NextOf(img, a)
    BY <1>2, ImageAssumption DEF IsDecoded, NextOf, Addr
  <2>2. IsDiscovery(marked)
    BY <2>1, MarksKeep DEF TInv
  <2> HIDE DEF marked, an1
  <2> QED BY <2>2, ObservingKeeps DEF TInv
<1> HIDE DEF an1, o
<1>3. ~walk.resume => IsDiscovery(FollowObservedPointer(img, an1, o.p, o.target, graph.known).p)
  BY <1>2, FollowingKeeps DEF TInv
<1>4. \A p : Followed_(an1, p, None).p = p
  BY DEF Followed_
<1> QED BY <1>1, <1>2, <1>3, <1>4 DEF TInv

(* What a step over an instruction leaves.                                  *)
Continues ==
    /\ an'.insns = an.insns \cup {walk.at}
    /\ AreTables(graph'.tables)
    /\ AreSteps(img, walk'.tasks)
    /\ walk'.resume = FALSE

(* The parts that most instructions change in the same way.                 *)
LEMMA Onward ==
    ASSUME TInv, Walkable
    PROVE  /\ \A at, tasks : LET w == GoOn(at, tasks)
                             IN  /\ DOMAIN w = WalkFields /\ w.tasks = tasks
                                 /\ w.resume = FALSE
           /\ \A list : DOMAIN Edges(list) = GraphFields /\ Edges(list).tables = graph.tables
           /\ AreSteps(img, walk.tasks) /\ AreTables(graph.tables)
           /\ \A targets : AreSteps(img, Queue(targets, walk.tasks))
<1>1. \A at, tasks : LET w == GoOn(at, tasks)
                     IN  DOMAIN w = WalkFields /\ w.tasks = tasks /\ w.resume = FALSE
  BY DEF Walkable, GoOn, Counted, WalkFields
<1>2. \A list : DOMAIN Edges(list) = GraphFields /\ Edges(list).tables = graph.tables
  BY DEF Walkable, Fields, Edges, GraphFields
<1>3. AreSteps(img, walk.tasks) /\ AreTables(graph.tables)
  BY DEF TInv
<1>4. ASSUME NEW targets
      PROVE  AreSteps(img, Queue(targets, walk.tasks))
  <2>1. AreSteps(img, Paths(targets))
    BY SomeSteps
  <2>2. AreSteps(img, Paths(targets) \o walk.tasks) /\ AreSteps(img, walk.tasks \o Paths(targets))
    BY <1>3, <2>1, StepsTogether
  <2> QED BY <2>2 DEF Queue
<1> QED BY <1>1, <1>2, <1>3, <1>4

LEMMA InsnsOfRecord ==
    ASSUME NEW r, Recorded(r, walk.at), NEW x, NEW n, NEW d,
           an' = r.an \/ an' = [r.an EXCEPT !.xrefs = x]
              \/ an' = [r.an EXCEPT !.xrefs = x, !.diags = d]
              \/ an' = [r.an EXCEPT !.xrefs = x, !.noretCalls = n, !.diags = d]
    PROVE  an'.insns = an.insns \cup {walk.at}
BY DEF Recorded, Carries, AnalysisFields

(* An instruction that does not branch.                                     *)
LEMMA StraightContinues ==
    ASSUME TInv, Walkable, NEW r, Recorded(r, walk.at),
           WalkNext(r) \/ WalkThunk(r) \/ WalkReturn(r)
    PROVE  Continues
<1>1. an' = r.an /\ (\E list : graph' = Edges(list)) /\ \E at : walk' = GoOn(at, walk.tasks)
  BY DEF WalkNext, WalkThunk, WalkReturn
<1>2. an'.insns = an.insns \cup {walk.at}
  BY <1>1, InsnsOfRecord
<1>3. graph'.tables = graph.tables /\ walk'.tasks = walk.tasks /\ walk'.resume = FALSE
  <2>1. PICK list, at : graph' = Edges(list) /\ walk' = GoOn(at, walk.tasks)
    BY <1>1
  <2> QED BY <2>1, Onward
<1> QED BY <1>2, <1>3, Onward DEF Continues

(* A branch to known targets.                                               *)
LEMMA BranchContinues ==
    ASSUME TInv, Walkable, NEW r, Recorded(r, walk.at), WalkConditional(r) \/ WalkJump(r)
    PROVE  Continues
<1>1. CASE WalkConditional(r)
  <2> DEFINE op == img.at[walk.at]
             next == NextOf(img, walk.at)
             waits == IF graph.compat /\ op.direct # None
                      THEN DelayForBranches(walk.delayed, walk.tasks, {op.direct, next})
                      ELSE walk.delayed
             targets == IF op.direct = None THEN <<next>> ELSE <<next, op.direct>>
             list == IF op.direct = None THEN <<Edge(next, "fallthrough")>>
                     ELSE <<Edge(next, "fallthrough"), Edge(op.direct, "branch")>>
             x == IF op.direct = None THEN r.an.xrefs ELSE PushXref(r.an.xrefs, op.direct, walk.at)
  <2>1. /\ graph' = Edges(list) /\ an' = [r.an EXCEPT !.xrefs = x]
        /\ walk' = [GoOn(None, Queue(targets, walk.tasks)) EXCEPT !.delayed = waits]
    BY <1>1 DEF WalkConditional
  <2> HIDE DEF waits, list, x, targets
  <2>2. an'.insns = an.insns \cup {walk.at}
    BY <2>1, InsnsOfRecord
  <2>3. walk'.tasks = Queue(targets, walk.tasks) /\ walk'.resume = FALSE
    BY <2>1, Onward DEF WalkFields
  <2> QED BY <2>1, <2>2, <2>3, Onward DEF Continues
<1>2. CASE WalkJump(r)
  <2> DEFINE t == img.at[walk.at].direct
             w == GoOn(None, Queue(<<t>>, walk.tasks))
             waits == IF graph.compat THEN DelayForBranches(w.delayed, walk.tasks, {t}) ELSE w.delayed
  <2>1. /\ \E list : graph' = Edges(list)
        /\ walk' = GoOn(None, walk.tasks) \/ walk' = [w EXCEPT !.delayed = waits]
        /\ an' = r.an \/ \E x : an' = [r.an EXCEPT !.xrefs = x]
    BY <1>2 DEF WalkJump
  <2> HIDE DEF waits
  <2>2. an'.insns = an.insns \cup {walk.at}
    BY <2>1, InsnsOfRecord
  <2>3. DOMAIN w = WalkFields /\ w.tasks = Queue(<<t>>, walk.tasks) /\ w.resume = FALSE
    BY Onward
  <2> HIDE DEF w
  <2>4. walk'.tasks \in {walk.tasks, Queue(<<t>>, walk.tasks)} /\ walk'.resume = FALSE
    <3>1. CASE walk' = GoOn(None, walk.tasks)
      BY <3>1, Onward
    <3>2. CASE walk' = [w EXCEPT !.delayed = waits]
      BY <2>3, <3>2 DEF WalkFields
    <3> QED BY <2>1, <3>1, <3>2
  <2>5. AreSteps(img, walk'.tasks)
    BY <2>4, Onward
  <2>6. graph'.tables = graph.tables
    <3>1. PICK list : graph' = Edges(list)
      BY <2>1
    <3> QED BY <3>1, Onward
  <2> QED BY <2>2, <2>4, <2>5, <2>6, Onward DEF Continues
<1> QED BY <1>1, <1>2

(* A call leaves its callee and itself to take up again.                    *)
LEMMA CallContinues ==
    ASSUME TInv, Walkable, NEW r, Recorded(r, walk.at), WalkCall(r)
    PROVE  Continues
<1> DEFINE a == walk.at
           t == CallTarget(a)
           resume == IF EndsFlow(a) THEN <<>> ELSE <<Task("call", a)>>
           down == Descend(t, resume \o walk.tasks)
           isNew == Loose /\ IsProcedural(a) /\ IsExecutable(img, t) /\ IsFirstKnown(t)
           known == IF isNew THEN walk.known \cup {t} ELSE walk.known
           to == IF EndsFlow(a) THEN None ELSE NextOf(img, a)
           calls(c) == IF IsProcedural(a) THEN c \cup {t} ELSE c
<1>1. \E w \in {GoOn(None, down), GoOn(to, walk.tasks)} :
         \E c : walk' = [w EXCEPT !.calls = c, !.known = known]
  <2> DEFINE w == IF Descends(a) THEN GoOn(None, down) ELSE GoOn(to, walk.tasks)
             c == calls(w.calls)
  <2>1. walk' = [w EXCEPT !.calls = c, !.known = known]
    BY DEF WalkCall
  <2>2. w \in {GoOn(None, down), GoOn(to, walk.tasks)}
    OBVIOUS
  <2> HIDE DEF w, c, known, down, to
  <2> QED BY <2>1, <2>2
<1>2. graph'.tables = graph.tables
  <2> DEFINE fork == Edges(IF EndsFlow(a) THEN <<>> ELSE <<Edge(NextOf(img, a), "fallthrough")>>)
             fns == IF Loose /\ Descends(a) THEN fork.importFns \cup {t} ELSE fork.importFns
  <2>1. graph' = [fork EXCEPT !.importFns = fns]
    BY DEF WalkCall
  <2>2. DOMAIN fork = GraphFields /\ fork.tables = graph.tables
    BY Onward
  <2> HIDE DEF fns, fork
  <2> QED BY <2>1, <2>2 DEF GraphFields
<1>3. an'.insns = an.insns \cup {a}
  <2>1. \E x, n, d : an' = [r.an EXCEPT !.xrefs = x, !.noretCalls = n, !.diags = d]
    <3> DEFINE linked == IF img.at[a].flow = "call" /\ t # None THEN PushXref(r.an.xrefs, t, a)
                         ELSE r.an.xrefs
               unresolved == img.at[a].flow = "icall" /\ t = None /\ img.at[a].mem \notin img.imports
               x == IF EndsFlow(a) THEN RemoveCodeReference(linked, a, t) ELSE linked
               n == IF EndsFlow(a) THEN r.an.noretCalls \cup {a} ELSE r.an.noretCalls
               d == IF unresolved THEN r.an.diags \cup {<<a, "unresolved call">>} ELSE r.an.diags
    <3>1. an' = [r.an EXCEPT !.xrefs = x, !.noretCalls = n, !.diags = d]
      BY DEF WalkCall
    <3> HIDE DEF x, n, d
    <3> QED BY <3>1
  <2>2. PICK x, n, d : an' = [r.an EXCEPT !.xrefs = x, !.noretCalls = n, !.diags = d]
    BY <2>1
  <2> QED BY <2>2 DEF Recorded, Carries, AnalysisFields
<1>4. AreSteps(img, down)
  <2>1. AreSteps(img, resume)
    BY SomeSteps
  <2> HIDE DEF resume
  <2>2. AreSteps(img, resume \o walk.tasks)
    BY <2>1, Onward, StepsTogether
  <2> HIDE DEF t
  <2> QED BY <2>2, StepsOnto
<1> HIDE DEF down, known, to
<1>5. walk'.tasks \in {down, walk.tasks} /\ walk'.resume = FALSE
  <2> PICK w \in {GoOn(None, down), GoOn(to, walk.tasks)} :
           \E c : walk' = [w EXCEPT !.calls = c, !.known = known]
    BY <1>1
  <2>1. PICK c : walk' = [w EXCEPT !.calls = c, !.known = known]
    OBVIOUS
  <2>2. DOMAIN w = WalkFields /\ w.tasks \in {down, walk.tasks} /\ w.resume = FALSE
    <3> DEFINE u == GoOn(None, down)
               z == GoOn(to, walk.tasks)
    <3>1. /\ DOMAIN u = WalkFields /\ u.tasks = down /\ u.resume = FALSE
          /\ DOMAIN z = WalkFields /\ z.tasks = walk.tasks /\ z.resume = FALSE
      BY Onward
    <3> HIDE DEF u, z
    <3> QED BY <2>1, <3>1 DEF u, z
  <2> QED BY <2>1, <2>2 DEF WalkFields
<1>6. AreSteps(img, walk'.tasks)
  BY <1>4, <1>5, Onward
<1> QED BY <1>2, <1>3, <1>5, <1>6, Onward DEF Continues

(* An indirect jump adds what the dispatch of its arms is read from.        *)
LEMMA IndirectContinues ==
    ASSUME TInv, Walkable, IsDecoded(img, walk.at), NEW r, Recorded(r, walk.at), WalkIndirect(r)
    PROVE  Continues
<1> DEFINE a == walk.at
<1>1. PICK arms, s : arms = ArmsOf(a, r.an) /\ TakeArms(r, arms, s)
  BY DEF WalkIndirect
<1> DEFINE ts == arms.targets
           pointer == ts # <<>> /\ IsPointerJump(img, img.at[a])
           v == IF pointer THEN <<>> ELSE [i \in DOMAIN ts |-> Edge(ts[i], "table")]
           slots == IF graph.compat /\ ts # <<>> /\ ~pointer
                    THEN TableSlots(img, img.at[a], ts) ELSE <<>>
           t == graph.tables \o arms.locs \o slots
           c == [f \in DOMAIN graph.completed |-> s.completed[f]]
           w == GoOn(None, Queue(ts, walk.tasks))
           waits == IF graph.compat THEN DelayForBranches(w.delayed, walk.tasks, ToSet(ts))
                    ELSE w.delayed
           x == FoldLeft(LAMBDA y, u : PushXref(y, u, a), s.xrefs, ts)
           d == r.an.diags \cup arms.diags \cup s.diags
                \cup (IF ts = <<>> THEN {<<a, "unresolved jump">>} ELSE {})
<1>2. /\ graph' = [graph EXCEPT !.succ = Insert(s.succ, a, v), !.completed = c, !.tables = t]
      /\ walk' = [w EXCEPT !.delayed = waits]
      /\ an' = [r.an EXCEPT !.xrefs = x, !.diags = d]
  BY <1>1 DEF TakeArms
<1>3. AreTables(t)
  <2>1. AreTables(arms.locs)
    BY <1>1, ArmLocations DEF TInv
  <2>2. AreTables(TableSlots(img, img.at[a], ts))
    BY SlotLocations DEF TInv, IsLaidOut, IsDecoded
  <2>3. AreTables(<<>>)
    BY DEF AreTables
  <2>4. AreTables(slots) /\ AreTables(graph.tables)
    BY <2>2, <2>3, Onward
  <2> HIDE DEF slots
  <2>5. AreTables(graph.tables \o arms.locs)
    BY <2>1, <2>4, TablesTogether
  <2>6. AreTables((graph.tables \o arms.locs) \o slots)
    BY <2>4, <2>5, TablesTogether
  <2> QED BY <2>6
<1> HIDE DEF v, t, c, waits, x, d, slots, pointer
<1>4. graph'.tables = t
  BY <1>2 DEF Walkable, Fields, GraphFields
<1>5. walk'.tasks = Queue(ts, walk.tasks) /\ walk'.resume = FALSE
  BY <1>2, Onward DEF WalkFields
<1>6. AreSteps(img, Queue(ts, walk.tasks))
  BY Onward
<1>7. an'.insns = an.insns \cup {a}
  BY <1>2, InsnsOfRecord
<1> QED BY <1>3, <1>4, <1>5, <1>6, <1>7 DEF Continues

(* The instruction is suspended or walked.                                  *)
LEMMA InstructionKeepsTyped ==
    ASSUME TInv, Inv, NInv, Walkable, WalkInstruction
    PROVE  TInv'
<1> DEFINE r == Record(walk.at)
<1>1. /\ walk.on /\ UNCHANGED img /\ ptr' = r.p
      /\ SuspendOpcode(r) \/ WalkFlow(r)
  BY DEF WalkInstruction, Passes, Walking
<1>2. IsDecoded(img, walk.at) /\ IsDiscovery(r.p) /\ Recorded(r, walk.at)
  BY WalkedIsDecoded, RecordLocates, RecordKeeps DEF Walkable, Recorded
<1> HIDE DEF r
<1>3. CASE SuspendOpcode(r)
  <2> DEFINE calls == walk.calls \cup {r.target}
             tasks == Descend(r.target, <<Task("opcode", walk.at)>> \o walk.tasks)
  <2>1. graph' = graph /\ an' = r.an
    BY <1>3 DEF SuspendOpcode
  <2>2. walk'.at = None /\ walk'.tasks = tasks
    <3>1. walk' = [Counted EXCEPT !.calls = @ \cup {r.target}, !.at = None,
                      !.tasks = Descend(r.target, <<Task("opcode", walk.at)>> \o @)]
      BY <1>3 DEF SuspendOpcode
    <3>2. DOMAIN Counted = WalkFields /\ Counted.tasks = walk.tasks /\ Counted.calls = walk.calls
      BY DEF Walkable, Counted, WalkFields
    <3>3. walk' = [Counted EXCEPT !.calls = calls, !.at = None, !.tasks = tasks]
      BY <3>1, <3>2
    <3> HIDE DEF calls, tasks
    <3> QED BY <3>2, <3>3 DEF WalkFields
  <2>3. AreSteps(img, <<Task("opcode", walk.at)>> \o walk.tasks)
    BY <1>2, Onward, StepsOnto DEF IsDecoded
  <2>4. AreSteps(img, tasks)
    BY <2>3, StepsOnto
  <2> HIDE DEF tasks
  <2> QED BY <1>1, <1>2, <2>1, <2>2, <2>4 DEF TInv, Recorded
<1>4. CASE WalkFlow(r)
  <2>1. Continues
    BY <1>2, <1>4, StraightContinues, BranchContinues, CallContinues, IndirectContinues DEF WalkFlow
  <2> QED BY <1>1, <1>2, <2>1 DEF TInv, Continues
<1> QED BY <1>1, <1>3, <1>4

(* Every step of a walk.                                                    *)
LEMMA WalkKeepsTyped ==
    ASSUME TInv, Inv, QInv, NInv, WalkStep
    PROVE  TInv'
<1>1. Walkable
  BY DEF Inv, QInv, Shapes, Walkable
<1> QED BY <1>1, TasksKeepTyped, FinishKeepsTyped, FollowKeepsTyped, EndsKeepTyped,
           InstructionKeepsTyped DEF WalkStep

----------------------------------------------------------------------------
(* The steps of the loop over the queue *)

(* The slot that is taken next is in memory.                                *)
LEMMA SourceIsLocated ==
    ASSUME TInv, NEW s, s = NextSource(img, ptr), s # None
    PROVE  \/ s[1] = "reloc" /\ s[2] \in Addr
           \/ s[1] = "table" /\ ptr.tables # <<>> /\ s[2] \in Addr
           \/ s[1] = "late" /\ ptr.late # <<>> /\ s[2] \in Addr
           \/ s[1] \in {"pointer", "emulated"}
<1>1. /\ ptr.tables \in Seq(Addr) /\ ptr.late \in Seq(Addr) /\ ptr.reloc \in Nat \ {0}
      /\ img.relocs \in Seq(Addr)
  BY DEF TInv, IsDiscovery, IsLaidOut
<1>2. /\ ptr.tables # <<>> => Head(ptr.tables) \in Addr
      /\ ptr.late # <<>> => Head(ptr.late) \in Addr
      /\ ptr.reloc <= Len(img.relocs) => img.relocs[ptr.reloc] \in Addr
  BY <1>1
<1>3. \/ s = <<"reloc", img.relocs[ptr.reloc]>> /\ ptr.reloc <= Len(img.relocs)
      \/ \E a : s = <<"pointer", a>>
      \/ s = <<"table", Head(ptr.tables)>> /\ ptr.tables # <<>>
      \/ s = <<"late", Head(ptr.late)>> /\ ptr.late # <<>>
      \/ \E a : s = <<"emulated", a>>
  BY Zenon DEF NextSource
<1> QED BY <1>2, <1>3

(* Taking it makes it data.                                                 *)
LEMMA SlotsKeepTyped ==
    ASSUME NEW p, IsDiscovery(p), NEW slot \in Addr, NEW target
    PROVE  IsDiscovery(TakeSlot(p, slot, target).p)
<1>1. IsDiscovery(MarkData(p, slot, Width))
  BY ImageAssumption, MarksKeep DEF Addr
<1>2. TakeSlot(p, slot, target).p \in {p, MarkData(p, slot, Width)}
  BY DEF TakeSlot, Taken
<1> QED BY <1>1, <1>2

LEMMA TakingKeepsTyped ==
    ASSUME TInv, NEW s, s = NextSource(img, ptr), s # None
    PROVE  IsDiscovery(Take(s).p)
<1>1. \/ s[1] = "reloc" /\ s[2] \in Addr
      \/ s[1] = "table" /\ ptr.tables # <<>> /\ s[2] \in Addr
      \/ s[1] = "late" /\ ptr.late # <<>> /\ s[2] \in Addr
      \/ s[1] \in {"pointer", "emulated"}
  BY SourceIsLocated
<1>2. IsDiscovery(ptr)
  BY DEF TInv
<1>3. CASE s[1] = "reloc" /\ s[2] \in Addr
  <2> DEFINE p == [ptr EXCEPT !.reloc = @ + 1]
  <2>1. IsDiscovery(p)
    BY <1>2 DEF IsDiscovery, DiscoveryFields
  <2>2. Take(s) = TakeSlot(p, s[2], ReadPointer(img, s[2]))
    BY <1>3 DEF Take
  <2> HIDE DEF p
  <2> QED BY <1>3, <2>1, <2>2, SlotsKeepTyped
<1>4. CASE s[1] = "table" /\ ptr.tables # <<>> /\ s[2] \in Addr
  <2> DEFINE p == [ptr EXCEPT !.tables = Tail(@)]
  <2>1. IsDiscovery(p)
    BY <1>2, <1>4 DEF IsDiscovery, DiscoveryFields
  <2>2. Take(s) = TakeSlot(p, s[2], img.word[s[2]])
    BY <1>4 DEF Take
  <2> HIDE DEF p
  <2> QED BY <1>4, <2>1, <2>2, SlotsKeepTyped
<1>5. CASE s[1] = "late" /\ ptr.late # <<>> /\ s[2] \in Addr
  <2> DEFINE p == [ptr EXCEPT !.late = Tail(@)]
  <2>1. IsDiscovery(p)
    BY <1>2, <1>5 DEF IsDiscovery, DiscoveryFields
  <2>2. Take(s) = TakeSlot(p, s[2], img.word[s[2]])
    BY <1>5 DEF Take
  <2> HIDE DEF p
  <2> QED BY <1>5, <2>1, <2>2, SlotsKeepTyped
<1>6. CASE s[1] \in {"pointer", "emulated"}
  <2> DEFINE rest == ptr.cand \ {s}
             p == [ptr EXCEPT !.cand = rest]
  <2>1. Take(s) = Taken(p, an, s)
    BY <1>6 DEF Take
  <2> HIDE DEF rest
  <2>2. IsDiscovery(p)
    BY <1>2, NotesKeep
  <2> HIDE DEF p
  <2> QED BY <2>1, <2>2 DEF Taken
<1> QED BY <1>1, <1>3, <1>4, <1>5, <1>6

(* A verdict makes a string data at most.                                   *)
LEMMA JudgingKeepsTyped ==
    ASSUME IsLaidOut(img), NEW x, NEW p, IsDiscovery(p), NEW kind, NEW a, NEW v,
           Judge(x, p, kind, a, v)
    PROVE  IsDiscovery(ptr')
<1> DEFINE text == StringSize(img, x, p, a)
           typed == IF text # 0 /\ (v = "string" \/ kind = "emulated")
                    THEN MarkNoncode(p, a, text) ELSE p
           ready == p.ready \cup {a}
<1>1. text # 0 => a \in Int /\ text \in Nat \ {0}
  BY StringsHaveBytes
<1>2. ptr' \in {[p EXCEPT !.ready = ready], p, typed}
  BY DEF Judge
<1> HIDE DEF text, ready
<1>3. IsDiscovery(typed)
  BY <1>1, MarksKeep
<1>4. IsDiscovery([p EXCEPT !.ready = ready])
  BY NotesKeep
<1> HIDE DEF typed
<1> QED BY <1>2, <1>3, <1>4

(* A candidate is taken and judged.                                         *)
LEMMA TryingKeepsTyped ==
    ASSUME TInv, TryCandidate
    PROVE  IsDiscovery(ptr')
<1> DEFINE s == NextSource(img, ptr)
           t == Take(s)
           kind == t.cand[1]
           a == t.cand[2]
           p == IF kind = "pointer" THEN AddCandidate(img, t.an, t.p, a, "emulated") ELSE t.p
           evaluated == p.tried \cup {<<kind, a>>}
           tried == [p EXCEPT !.tried = evaluated]
           v == VerdictOn(t.an, tried, kind, a)
<1>1. /\ ~EndsBatch(s)
      /\ \/ ptr' = t.p
         \/ ptr' = [p EXCEPT !.cand = {}]
         \/ ptr' = tried
         \/ \E w \in {v} : Judge(t.an, tried, kind, a, w)
  BY DEF TryCandidate
<1>2. s # None
  BY <1>1 DEF EndsBatch
<1>3. IsDiscovery(t.p)
  BY <1>2, TakingKeepsTyped
<1> HIDE DEF s, t, kind, a
<1>4. IsDiscovery(p)
  BY <1>3, CandidatesKeep
<1> HIDE DEF p, evaluated
<1>5. IsDiscovery(tried) /\ IsDiscovery([p EXCEPT !.cand = {}])
  BY <1>4, NotesKeep
<1> HIDE DEF tried, v
<1> QED BY <1>1, <1>3, <1>5, JudgingKeepsTyped DEF TInv

(* The instructions are collected, or an accepted address is taken.         *)
LEMMA NextKeepsTyped ==
    ASSUME TInv, BeginNext \/ EndBatch
    PROVE  IsDiscovery(ptr')
<1>1. ASSUME NEW p, IsDiscovery(p), NEW a, TakeEmulated(p, a)
      PROVE  IsDiscovery(ptr')
  <2> DEFINE ready == {b \in p.ready : b > a}
  <2>1. ptr' = [p EXCEPT !.ready = ready]
    BY <1>1 DEF TakeEmulated
  <2> HIDE DEF ready
  <2> QED BY <1>1, <2>1, NotesKeep
<1>2. IsDiscovery(ptr)
  BY DEF TInv
<1>3. CASE BeginNext
  <2> DEFINE idle == [ptr EXCEPT !.ready = {}]
             p == IF Collects(ptr) THEN Collect(img, an, idle) ELSE idle
             full == p.full /\ ~Collects(ptr)
             cand == IF Cardinality(p.tried) >= MaxCandidates THEN {} ELSE p.cand
  <2>1. \/ TakeEmulated(ptr, Min(StillFree(img, an, ptr)))
        \/ ptr' = [p EXCEPT !.full = full, !.cand = cand]
    BY <1>3 DEF BeginNext
  <2>2. IsDiscovery(idle)
    BY <1>2, NotesKeep
  <2> HIDE DEF idle
  <2>3. IsDiscovery(p)
    BY <2>2, CollectionKeeps DEF TInv
  <2> HIDE DEF p, full, cand
  <2>4. IsDiscovery([p EXCEPT !.full = full])
    BY <2>3, NotesKeep
  <2>5. IsDiscovery([[p EXCEPT !.full = full] EXCEPT !.cand = cand])
    BY <2>4, NotesKeep
  <2> QED BY <1>1, <1>2, <2>1, <2>5
<1>4. CASE EndBatch
  <2> DEFINE s == NextSource(img, ptr)
             p == Closed(s)
  <2>1. \/ TakeEmulated(p, Min(StillFree(img, an, p)))
        \/ ptr' = [p EXCEPT !.ready = {}]
    BY <1>4 DEF EndBatch
  <2>2. IsDiscovery(p)
    BY <1>2, TakingKeepsTyped DEF Closed
  <2> HIDE DEF p
  <2>3. IsDiscovery([p EXCEPT !.ready = {}])
    BY <2>2, NotesKeep
  <2> QED BY <1>1, <2>1, <2>2, <2>3
<1> QED BY <1>3, <1>4

(* The other steps of the loop inside a pass type what tables are made of.  *)
LEMMA LoopKeepsTyped ==
    ASSUME TInv, Inv, SweepStep, ~StartPass, ~EndSweep
    PROVE  IsDiscovery(ptr') /\ AreTables(graph'.tables)
<1>1. IsDiscovery(ptr) /\ AreTables(graph.tables)
  BY DEF TInv
<1>2. CASE EndPlt \/ WalkPlt \/ PopStart \/ WalkFragment \/ EndWave \/ GoWave \/ CookieWave \/ EmptyQueue
  <2>1. UNCHANGED <<graph, ptr>>
    BY <1>2 DEF EndPlt, WalkPlt, PopStart, WalkFragment, EndWave, GoWave, CookieWave, EmptyQueue
  <2> QED BY <1>1, <2>1
<1>3. CASE LoopTop
  <2>1. /\ ptr' = FoldLeft(LAMBDA p, loc : MarkData(p, loc[1], loc[2]), ptr, graph.tables)
        /\ graph' = [graph EXCEPT !.tables = <<>>]
    BY <1>3 DEF LoopTop
  <2>2. IsDiscovery(ptr')
    BY <1>1, <2>1, TablesKeep
  <2>3. graph'.tables = <<>>
    BY <2>1 DEF Inv, Fields, GraphFields
  <2> QED BY <2>2, <2>3 DEF AreTables
<1>4. CASE EndEarly
  <2>1. UNCHANGED graph /\ (ptr' = ptr \/ ptr' = FinishEmucode(ptr))
    BY <1>4 DEF EndEarly
  <2>2. IsDiscovery(FinishEmucode(ptr))
    <3> DEFINE cand == {c \in ptr.cand : c[1] # "emulated"}
    <3>1. FinishEmucode(ptr) = [ptr EXCEPT !.active = FALSE, !.cand = cand]
      BY <1>1 DEF FinishEmucode, IsDiscovery, DiscoveryFields
    <3> HIDE DEF cand
    <3>2. IsDiscovery([ptr EXCEPT !.active = FALSE, !.cand = cand])
      BY <1>1, NotesKeep
    <3> QED BY <3>1, <3>2
  <2> QED BY <1>1, <2>1, <2>2
<1>5. CASE BeginNext \/ EndBatch
  <2>1. UNCHANGED graph
    BY <1>5 DEF BeginNext, EndBatch
  <2> QED BY <1>1, <1>5, <2>1, NextKeepsTyped
<1>6. CASE TryCandidate
  <2>1. UNCHANGED graph
    BY <1>6 DEF TryCandidate
  <2> QED BY <1>1, <1>6, <2>1, TryingKeepsTyped
<1> QED BY <1>2, <1>3, <1>4, <1>5, <1>6 DEF SweepStep

(* Walks begin with paths.                                                  *)
LEMMA WalksBeginTyped ==
    ASSUME NEW start, NEW known, NEW caller, walk' = Walk(start, known, caller)
    PROVE  AreSteps(img, walk'.tasks) /\ walk'.resume = FALSE
<1> DEFINE tasks == IF graph.compat /\ known = None THEN <<Path(start), Task("finish", start)>>
                    ELSE <<Path(start)>>
<1>1. walk' = [NoWalk EXCEPT !.on = TRUE, !.start = start, !.known = known, !.caller = caller,
                             !.tasks = tasks]
  BY DEF Walk
<1>2. AreSteps(img, tasks)
  <2>1. AreSteps(img, <<Path(start), Task("finish", start)>>)
    BY Short DEF AreSteps, IsStep, Path, Task
  <2> QED BY <2>1, SomeSteps
<1> HIDE DEF tasks
<1>3. walk'.tasks = tasks /\ walk'.resume = FALSE
  BY <1>1 DEF NoWalk
<1> QED BY <1>2, <1>3

(* What the image lays out depends on nothing that a wave adds to it.       *)
LEMMA ImageStays ==
    ASSUME IsLaidOut(img), KeepsImage, DOMAIN img' = DOMAIN img,
           img' = img \/ \E imports, apis : img' = [img EXCEPT !.imports = imports, !.noretApis = apis]
    PROVE  /\ IsLaidOut(img')
           /\ \A a : IsDecoded(img, a) => IsDecoded(img', a)
           /\ \A tasks : AreSteps(img, tasks) => AreSteps(img', tasks)
<1>1. /\ img'.mapped = img.mapped /\ img'.text = img.text /\ img'.padding = img.padding
      /\ img'.relocs = img.relocs /\ img'.dispatch = img.dispatch /\ img'.at = img.at
  BY DEF IsLaidOut, KeepsImage
<1>2. IsLaidOut(img')
  BY <1>1 DEF IsLaidOut
<1>3. \A a : IsDecoded(img, a) <=> IsDecoded(img', a)
  BY <1>1 DEF IsDecoded
<1>4. \A t : IsStep(img, t) => IsStep(img', t)
  BY <1>3 DEF IsStep, AreOperands
<1> QED BY <1>2, <1>3, <1>4 DEF AreSteps

(* Every step of the loop inside a pass.                                    *)
LEMMA SweepKeepsTyped ==
    ASSUME TInv, Inv, SweepStep, ~StartPass, ~EndSweep
    PROVE  TInv'
<1>1. StaysInPass
  BY SweepStays
<1>2. IsDiscovery(ptr') /\ AreTables(graph'.tables)
  BY LoopKeepsTyped
<1>3. img' = img \/ \E imports, apis : img' = [img EXCEPT !.imports = imports, !.noretApis = apis]
  <2>1. CASE CookieWave
    BY <2>1, Zenon DEF CookieWave
  <2>2. CASE ~CookieWave
    BY <2>2 DEF SweepStep, EndPlt, WalkPlt, LoopTop, PopStart, BeginNext, TryCandidate, EndBatch,
                EndEarly, WalkFragment, EndWave, GoWave, EmptyQueue
  <2> QED BY <2>1, <2>2
<1>4. /\ IsLaidOut(img') /\ \A a : IsDecoded(img, a) => IsDecoded(img', a)
      /\ \A tasks : AreSteps(img, tasks) => AreSteps(img', tasks)
  BY <1>1, <1>3, ImageStays DEF TInv, StaysInPass
<1>5. an'.insns = an.insns
  BY <1>1 DEF StaysInPass, Annotated
<1>6. /\ AreSteps(img, walk'.tasks)
      /\ walk'.resume /\ walk'.at # None => walk'.at \in Addr
  <2>1. walk' = walk \/ \E start, known, caller : walk' = Walk(start, known, caller)
    BY DEF SweepStep, EndPlt, WalkPlt, LoopTop, PopStart, BeginNext, TryCandidate, EndBatch,
           EndEarly, WalkFragment, EndWave, GoWave, CookieWave, EmptyQueue
  <2>2. CASE walk' = walk
    BY <2>2 DEF TInv
  <2>3. CASE \E start, known, caller : walk' = Walk(start, known, caller)
    BY <2>3, WalksBeginTyped
  <2> QED BY <2>1, <2>2, <2>3
<1> QED BY <1>2, <1>4, <1>5, <1>6 DEF TInv

----------------------------------------------------------------------------
(* The invariant *)

(* Nothing is typed when a pass begins.                                     *)
LEMMA NothingIsTyped ==
    /\ \A i, seeds, enabled : IsDiscovery(NewDiscovery(i, seeds, enabled))
    /\ \A i, set : AreTables(EmptyGraph(i, set).tables)
    /\ \A seeds : EmptyAnalysis(seeds).insns = {}
<1>1. ASSUME NEW i, NEW seeds, NEW enabled
      PROVE  IsDiscovery(NewDiscovery(i, seeds, enabled))
  <2> DEFINE p == NewDiscovery(i, seeds, enabled)
  <2>1. /\ DOMAIN p = DiscoveryFields
        /\ p.data = <<>> /\ p.barriers = <<>> /\ p.ptrs = <<>> /\ p.tables = <<>> /\ p.late = <<>>
        /\ p.reloc = 1
    BY DEF NewDiscovery, DiscoveryFields
  <2> HIDE DEF p
  <2>2. ArePointers(<<>>)
    BY FS_EmptySet DEF ArePointers
  <2>3. IsDiscovery(p)
    BY <2>1, <2>2, ShortLists DEF IsDiscovery
  <2> QED BY <2>3 DEF p
<1>2. \A i, set : AreTables(EmptyGraph(i, set).tables)
  BY DEF EmptyGraph, AreTables
<1>3. \A seeds : EmptyAnalysis(seeds).insns = {}
  BY DEF EmptyAnalysis
<1> QED BY <1>1, <1>2, <1>3

LEMMA InitTyped ==
    ASSUME Init
    PROVE  TInv
<1>1. img \in Images /\ walk = NoWalk
      /\ IsDiscovery(ptr) /\ AreTables(graph.tables) /\ an.insns = {}
  BY NothingIsTyped DEF Init
<1>2. IsLaidOut(img)
  BY <1>1, LocationsAssumption DEF IsLaidOut
<1>3. walk.resume = FALSE /\ walk.tasks = <<>>
  BY <1>1 DEF NoWalk
<1> QED BY <1>1, <1>2, <1>3, SomeSteps DEF TInv

(* Every step keeps it.                                                     *)
LEMMA NextTyped ==
    ASSUME TInv, Inv, QInv, NInv, [Next]_vars
    PROVE  TInv'
<1>1. CASE WalkStep
  BY <1>1, WalkKeepsTyped
<1>2. CASE StartPass
  <2>1. /\ UNCHANGED <<img, walk>>
        /\ \E seeds : an' = EmptyAnalysis(seeds)
        /\ graph' = EmptyGraph(img, main.noreturn)
        /\ \E seeds, enabled : ptr' = NewDiscovery(img, seeds, enabled)
    BY <1>2 DEF StartPass
  <2>2. IsDiscovery(ptr') /\ AreTables(graph'.tables) /\ an'.insns = {}
    BY <2>1, NothingIsTyped
  <2> QED BY <2>1, <2>2 DEF TInv
<1>3. CASE EndSweep
  <2>1. UNCHANGED <<img, graph, ptr, walk>> /\ an'.insns = an.insns
    BY <1>3, SweepResult DEF EndSweep, Inv
  <2> QED BY <2>1 DEF TInv
<1>4. CASE SweepStep /\ ~StartPass /\ ~EndSweep
  BY <1>4, SweepKeepsTyped
<1>5. CASE UNCHANGED vars
  BY <1>5 DEF vars, TInv
<1> QED BY <1>1, <1>2, <1>3, <1>4, <1>5 DEF Next, SweepStep, Finished

(* For every image and every bound: the typed locations, and the strings    *)
(* and numbers among them, stay sorted, apart from each other and maximal,  *)
(* as the binary searches of pointers.rs presume, whatever replaces what    *)
(* (insert_location, cut_location).                                         *)
THEOREM TypedLocations == Spec => []TypedLocationsAreDisjoint
<1>1. Init => QInv /\ NInv /\ TInv
  BY InitQueue, InitNative, InitTyped
<1>2. Inv /\ QInv /\ NInv /\ TInv /\ [Next]_vars => QInv' /\ NInv' /\ TInv'
  BY NextQueue, NextNative, NextTyped
<1>3. TInv => TypedLocationsAreDisjoint
  BY DEF TInv, IsDiscovery, IsLocated, TypedLocationsAreDisjoint
<1> QED BY <1>1, <1>2, <1>3, Invariance, PTL DEF Spec
=============================================================================
