--------------------------- MODULE RecoveryProofs ---------------------------
(* Proofs about code recovery, for every set of images and every bound: the *)
(* calls that were cut agree with the no-return set (CutCallsMatchTheSet),  *)
(* no decision is taken back within a pass (DecisionsAreFinal), no function *)
(* is lost on its way into the result (NothingIsLost), and the native       *)
(* blocks of a function are its instructions (NativeBlocksAreSound).        *)
(*                                                                          *)
(* But for the native blocks at the end, what recovery computes on the way  *)
(* (views, verdicts on candidates, jump tables) is never expanded: the      *)
(* argument is about which step may touch the set, the cuts, the walked     *)
(* instructions, the queue and the seeds, and when.                         *)
EXTENDS Recovery, SequenceTheorems, FiniteSetTheorems, WellFoundedInduction, TLAPS

AnalysisFields ==
    {"seeds", "insns", "order", "xrefs", "drefs", "functions", "forder", "noretCalls", "diags",
     "analysisCounts", "flirtCounts", "locationCounts", "noreturn", "callees"}
GraphFields ==
    {"compat", "succ", "completed", "known", "delayed", "importFns", "tables", "recognized"}
MainFields ==
    {"pc", "pass", "noreturn", "pending", "starts", "isolated", "late", "early", "told", "at",
     "todo", "known", "then", "skipped", "waved"}

(* The variables are records with the fields of their initial values; the   *)
(* code of the image is in its memory.                                      *)
Fields ==
    /\ DOMAIN an = AnalysisFields
    /\ DOMAIN graph = GraphFields
    /\ DOMAIN main = MainFields
    /\ {"at", "exec", "imports", "noretApis"} \subseteq DOMAIN img
    /\ img.exec \subseteq Addr

(* A wave goes on with the queue or with the next wave; nothing is walked   *)
(* when recovery is done.                                                   *)
Control ==
    /\ main.then \in {"pop", "cookies"}
    /\ Done => ~walk.on

(* A native sweep walks under the set that its pass began with. *)
NativeSet == ~graph.compat /\ main.pc # "pass" => graph.known = main.noreturn

(* A call was cut because its target is in the set. *)
CutsAreJustified == \A a \in an.noretCalls : CallsExecutable(a) => img.at[a].direct \in graph.known

(* Natively every walked call into the set is cut. *)
CutsAreComplete ==
    ~graph.compat => \A a \in an.insns \cap DOMAIN graph.succ :
        CallsExecutable(a) /\ img.at[a].direct \in graph.known => a \in an.noretCalls

(* The published set is the one the walks were taken under. *)
SetIsPublished == Done => an.noreturn = IF graph.compat THEN graph.known ELSE main.noreturn

Inv == Fields /\ Control /\ NativeSet /\ CutsAreJustified /\ CutsAreComplete /\ SetIsPublished

----------------------------------------------------------------------------
(* What a step inside a pass may do to these *)

KeepsImage == img'.at = img.at /\ img'.exec = img.exec

KnownGrows ==
    /\ graph'.compat = graph.compat
    /\ graph.known \subseteq graph'.known
    /\ ~graph.compat => graph'.known = graph.known

CutsGrow ==
    /\ an.noretCalls \subseteq an'.noretCalls
    /\ \A a \in an'.noretCalls \ an.noretCalls : CallTarget(a) \in graph.known

CodeGrows ==
    ~graph.compat => \A a \in an'.insns \cap DOMAIN graph'.succ :
        \/ a \in an.insns \cap DOMAIN graph.succ
        \/ CallsExecutable(a) /\ img.at[a].direct \in graph.known => a \in an'.noretCalls

(* Seeds and notes are only added.                                          *)
MoreSeeds(s, t) == \A a : KindsAt(s, a) \subseteq KindsAt(t, a)
Gains(x, y) == x.diags \subseteq y.diags /\ MoreSeeds(x.seeds, y.seeds)

Keeps == Fields' /\ KeepsImage /\ KnownGrows /\ CutsGrow /\ CodeGrows /\ Gains(an, an')

(* The steps of a walk leave the loop over the queue where it is. *)
KeepsMain == /\ main'.pc = main.pc
             /\ main'.noreturn = main.noreturn
             /\ main'.then = main.then
             /\ an'.noreturn = an.noreturn

(* A direct call names its target. *)
LEMMA DirectTarget ==
    ASSUME NEW a, CallsExecutable(a)
    PROVE  /\ CallTarget(a) = img.at[a].direct
           /\ img.at[a].flow = "call"
           /\ img.at[a].direct \in img.exec
           /\ img.at[a].direct # NextOf(img, a)
BY DEF CallsExecutable, CallTarget

(* The argument: what such a step leaves of the invariant. *)
LEMMA KeepsInv ==
    ASSUME Inv, Keeps
    PROVE  CutsAreJustified' /\ CutsAreComplete'
<1>1. ASSUME NEW a, CallsExecutable(a)'
      PROVE  CallsExecutable(a) /\ img'.at[a].direct = img.at[a].direct
  BY <1>1 DEF Keeps, KeepsImage, CallsExecutable, NextOf
<1>2. CutsAreJustified'
  <2> SUFFICES ASSUME NEW a \in an'.noretCalls, CallsExecutable(a)'
               PROVE  img'.at[a].direct \in graph'.known
    BY DEF CutsAreJustified
  <2>1. CallsExecutable(a) /\ img'.at[a].direct = img.at[a].direct
    BY <1>1
  <2>2. CASE a \in an.noretCalls
    BY <2>1, <2>2 DEF Inv, CutsAreJustified, Keeps, KnownGrows
  <2>3. CASE a \notin an.noretCalls
    <3>1. CallTarget(a) \in graph.known
      BY <2>3 DEF Keeps, CutsGrow
    <3> QED BY <2>1, <3>1, DirectTarget DEF Keeps, KnownGrows
  <2> QED BY <2>2, <2>3
<1>3. CutsAreComplete'
  <2> SUFFICES ASSUME ~graph'.compat, NEW a \in an'.insns \cap DOMAIN graph'.succ,
                      CallsExecutable(a)', img'.at[a].direct \in graph'.known
               PROVE  a \in an'.noretCalls
    BY DEF CutsAreComplete
  <2>1. CallsExecutable(a) /\ img'.at[a].direct = img.at[a].direct
    BY <1>1
  <2>2. ~graph.compat /\ graph'.known = graph.known
    BY DEF Keeps, KnownGrows
  <2>3. CASE a \in an.insns \cap DOMAIN graph.succ
    BY <2>1, <2>2, <2>3 DEF Inv, CutsAreComplete, Keeps, CutsGrow
  <2>4. CASE a \notin an.insns \cap DOMAIN graph.succ
    BY <2>1, <2>2, <2>4 DEF Keeps, CodeGrows
  <2> QED BY <2>3, <2>4
<1> QED BY <1>2, <1>3

----------------------------------------------------------------------------
(* The operators that a walk is made of *)

(* Insertion adds one key. *)
LEMMA DomainOfInsert ==
    ASSUME NEW f, NEW x, NEW v
    PROVE  DOMAIN Insert(f, x, v) = DOMAIN f \cup {x}
BY DEF Insert

(* Nothing but references, seeds, diagnostics and the like changes: the     *)
(* analysis y has the cuts and the published set of x, and its seeds.       *)
Carries(x, y) ==
    /\ DOMAIN y = AnalysisFields
    /\ y.noretCalls = x.noretCalls
    /\ y.noreturn = x.noreturn
    /\ Gains(x, y)

(* Step after step they are only added. *)
LEMMA GainsAddUp ==
    ASSUME NEW x, NEW y, NEW z, Gains(x, y), Gains(y, z)
    PROVE  Gains(x, z)
BY DEF Gains, MoreSeeds

(* Nothing is lost where only notes are written. *)
LEMMA NotesGain ==
    ASSUME NEW x, NEW y, y.seeds = x.seeds, x.diags \subseteq y.diags
    PROVE  Gains(x, y)
BY DEF Gains, MoreSeeds

(* A seed is added to those at its address. *)
LEMMA SeedsGrow ==
    ASSUME NEW seeds, NEW kind
    PROVE  /\ \A set : MoreSeeds(seeds, AddSeeds(seeds, set, kind))
           /\ \A a : MoreSeeds(seeds, AddSeed(seeds, a, kind))
<1>1. ASSUME NEW set
      PROVE  MoreSeeds(seeds, AddSeeds(seeds, set, kind))
  BY DEF MoreSeeds, AddSeeds, KindsAt
<1>2. ASSUME NEW a
      PROVE  MoreSeeds(seeds, AddSeed(seeds, a, kind))
  BY DEF MoreSeeds, AddSeed, Insert, KindsAt
<1> QED BY <1>1, <1>2

(* An analysis carries itself. *)
LEMMA CarriesItself ==
    ASSUME NEW x, DOMAIN x = AnalysisFields
    PROVE  Carries(x, x)
BY NotesGain DEF Carries

(* Step after step an analysis is carried on. *)
LEMMA CarriesOn ==
    ASSUME NEW x, NEW y, NEW z, Carries(x, y), Carries(y, z)
    PROVE  Carries(x, z)
BY GainsAddUp DEF Carries

(* A diagnostic changes neither cuts nor code. *)
LEMMA DiagnoseKeeps ==
    ASSUME NEW x, DOMAIN x = AnalysisFields, NEW a, NEW what
    PROVE  Carries(x, Diagnose(x, a, what)) /\ Diagnose(x, a, what).insns = x.insns
<1> DEFINE y == Diagnose(x, a, what)
<1>1. /\ DOMAIN y = AnalysisFields /\ y.insns = x.insns
      /\ y.noretCalls = x.noretCalls /\ y.noreturn = x.noreturn
      /\ y.seeds = x.seeds /\ x.diags \subseteq y.diags
  BY DEF Diagnose, AnalysisFields
<1> QED BY <1>1, NotesGain DEF Carries

(* Following an observed pointer seeds or notes, whatever the verdict on    *)
(* its target is.                                                           *)
LEMMA FollowKeeps ==
    ASSUME NEW i, NEW x, DOMAIN x = AnalysisFields, NEW p, NEW t, NEW n
    PROVE  LET r == FollowObservedPointer(i, x, p, t, n)
           IN  Carries(x, r.an) /\ r.an.insns = x.insns
<1>1. ASSUME NEW q, NEW u
      PROVE  Followed_(x, q, u).an = x
  BY DEF Followed_
<1>2. ASSUME NEW q, NEW u, NEW a, NEW what
      PROVE  Followed_(Diagnose(x, a, what), q, u).an = Diagnose(x, a, what)
  BY DEF Followed_
<1>3. ASSUME NEW q, NEW u
      PROVE  Followed_([x EXCEPT !.seeds = AddSeed(@, t, "pointer")], q, u).an
                = [x EXCEPT !.seeds = AddSeed(@, t, "pointer")]
  BY DEF Followed_
<1>4. Carries(x, x)
  BY CarriesItself
<1>5. LET y == [x EXCEPT !.seeds = AddSeed(@, t, "pointer")]
      IN  Carries(x, y) /\ y.insns = x.insns
  <2> DEFINE y == [x EXCEPT !.seeds = AddSeed(@, t, "pointer")]
  <2>1. /\ DOMAIN y = AnalysisFields /\ y.insns = x.insns
        /\ y.noretCalls = x.noretCalls /\ y.noreturn = x.noreturn
        /\ y.seeds = AddSeed(x.seeds, t, "pointer") /\ y.diags = x.diags
    BY DEF AnalysisFields
  <2> HIDE DEF y
  <2>2. Gains(x, y)
    BY <2>1, SeedsGrow DEF Gains
  <2>3. Carries(x, y) /\ y.insns = x.insns
    BY <2>1, <2>2 DEF Carries
  <2> QED BY <2>3 DEF y
<1> DEFINE seeded == [x EXCEPT !.seeds = AddSeed(@, t, "pointer")]
           taken == [p EXCEPT !.cand = @ \ {<<"pointer", t>>}]
           added == AddCandidate(i, x, taken, t, "emulated")
           tried == [added EXCEPT !.tried = @ \cup {<<"pointer", t>>}]
           judge(verdict) ==
             CASE verdict = "code" -> Followed_(seeded, tried, t)
               [] verdict = "inconclusive" -> Followed_(Diagnose(x, t, "inconclusive"), tried, None)
               [] OTHER -> Followed_(x, tried, None)
           text == StringSize(i, x, tried, t)
           result ==
             IF <<"pointer", t>> \notin p.cand THEN Followed_(x, p, None)
             ELSE IF Cardinality(p.tried) >= MaxCandidates
                  THEN Followed_(Diagnose(x, t, "candidates"), taken, None)
             ELSE IF \/ <<"pointer", t>> \in p.tried
                     \/ Covered(i, x, t) \/ InData(p.data, t) \/ InImport(i, t)
                  THEN Followed_(x, tried, None)
             ELSE IF text # 0 THEN Followed_(x, MarkNoncode(tried, t, text), None)
             ELSE judge(IF "signature" \in KindsAt(x.seeds, t) THEN "code"
                        ELSE EvaluateCandidate(i, x, t, n, tried.data))
<1>6. FollowObservedPointer(i, x, p, t, n) = result
  BY DEF FollowObservedPointer
<1> DEFINE Kept(y) == Carries(x, y) /\ y.insns = x.insns
<1>7. Kept(x) /\ Kept(seeded) /\ \A what : Kept(Diagnose(x, t, what))
  BY <1>4, <1>5, DiagnoseKeeps
<1>8. ASSUME NEW v
      PROVE  Kept(judge(v).an)
  <2> HIDE DEF taken, added, tried, seeded, Kept
  <2> QED BY <1>1, <1>2, <1>3, <1>7 DEF Followed_
<1>9. Kept(result.an)
  <2> HIDE DEF taken, added, tried, seeded, Kept, judge, text
  <2> QED BY <1>1, <1>2, <1>7, <1>8
<1> QED BY <1>6, <1>9

(* A note about an orphaned pointer. *)
LEMMA NotedKeeps ==
    ASSUME Fields, NEW a
    PROVE  Carries(an, Noted(a)) /\ Noted(a).insns = an.insns
BY DiagnoseKeeps, CarriesItself DEF Noted, Fields

(* Recording an instruction cuts nothing. *)
LEMMA RecordKeeps ==
    ASSUME Fields, NEW a
    PROVE  /\ Carries(an, Record(a).an)
           /\ Record(a).an.insns = an.insns \cup {a}
           /\ ~graph.compat => Record(a).target = None
<1> DEFINE op == img.at[a]
           mem(x) == IF op.mem = None THEN x ELSE PushXref(x, op.mem, a)
           imms(x) == IF graph.compat
                      THEN FoldLeft(LAMBDA y, t : IF t \in img.mapped THEN PushXref(y, t, a) ELSE y,
                                    x, op.imms)
                      ELSE x
           an1 == [Noted(a) EXCEPT !.drefs = imms(mem(@)), !.insns = @ \cup {a},
                                   !.order = IF Contains(@, a) THEN @ ELSE Append(@, a)]
           o == ObserveInstruction(img, an1, MarkCode(ptr, a, NextOf(img, a)), a, TRUE)
<1>1. Carries(an, Noted(a)) /\ Noted(a).insns = an.insns
  BY NotedKeeps
<1>2. Carries(an, an1) /\ an1.insns = an.insns \cup {a}
  <2> HIDE DEF mem, imms
  <2>1. DOMAIN Noted(a) = AnalysisFields
    BY <1>1 DEF Carries
  <2>2. /\ DOMAIN an1 = AnalysisFields /\ an1.insns = an.insns \cup {a}
        /\ an1.noretCalls = Noted(a).noretCalls /\ an1.noreturn = Noted(a).noreturn
        /\ an1.seeds = Noted(a).seeds /\ an1.diags = Noted(a).diags
    BY <1>1, <2>1 DEF AnalysisFields
  <2> HIDE DEF an1
  <2>3. Carries(Noted(a), an1)
    BY <2>2, NotesGain DEF Carries
  <2> QED BY <1>1, <2>2, <2>3, CarriesOn
<1>3. Record(a) \in {Followed_(an1, o.p, None), Followed_(an1, ptr, None),
                     FollowObservedPointer(img, an1, o.p, o.target, graph.known)}
  BY Zenon DEF Record
<1>4. ~graph.compat => Record(a) = Followed_(an1, ptr, None)
  BY Zenon DEF Record
<1>5. ASSUME NEW q
      PROVE  Followed_(an1, q, None).an = an1 /\ Followed_(an1, q, None).target = None
  BY DEF Followed_
<1>6. LET r == FollowObservedPointer(img, an1, o.p, o.target, graph.known)
      IN  Carries(an1, r.an) /\ r.an.insns = an1.insns
  <2> HIDE DEF an1, o
  <2>1. DOMAIN an1 = AnalysisFields
    BY <1>2 DEF Carries
  <2> QED BY <2>1, FollowKeeps
<1> HIDE DEF an1, o
<1>7. Carries(an, Record(a).an) /\ Record(a).an.insns = an.insns \cup {a}
  BY <1>2, <1>3, <1>5, <1>6, CarriesOn
<1> QED BY <1>4, <1>5, <1>7

----------------------------------------------------------------------------
(* FinishFunction *)

(* The analysis and the graph that a function is finished with. *)
Kept(r) ==
    /\ DOMAIN r = {"an", "graph", "ptr", "tasks", "blocks", "retyping"}
    /\ Carries(an, r.an)
    /\ r.an.insns \subseteq an.insns
    /\ DOMAIN r.graph = GraphFields
    /\ r.graph.compat = graph.compat
    /\ r.graph.known = graph.known
    /\ ~graph.compat => r.graph.succ = graph.succ

(* The extent is stored in functions and completed. *)
LEMMA WithExtentKeeps ==
    ASSUME NEW r, Kept(r), NEW f, NEW view
    PROVE  Kept(WithExtent(r, f, view))
<1> DEFINE noted == Diagnose(r.an, f, "extent not preserved")
           blocks == Installed(view.blocks, Deleted(r, f))
           gone == IF Deleted(r, f) = {} THEN {} ELSE {Min(Deleted(r, f))}
           an1 == [r.an EXCEPT !.functions = Insert(@, f, blocks),
                               !.diags = @ \cup {<<a, "deleted block">> : a \in gone}]
           graph1 == [r.graph EXCEPT !.completed = IF f \in DOMAIN @ THEN @ ELSE Insert(@, f, blocks)]
<1>1. WithExtent(r, f, view) = IF view.oversized THEN [r EXCEPT !.an = noted]
                               ELSE [r EXCEPT !.an = an1, !.graph = graph1]
  BY Zenon DEF WithExtent
<1>2. Carries(an, noted) /\ noted.insns = r.an.insns
  <2>1. DOMAIN r.an = AnalysisFields
    BY DEF Kept, Carries
  <2>2. Carries(r.an, noted) /\ noted.insns = r.an.insns
    BY <2>1, DiagnoseKeeps
  <2> HIDE DEF noted
  <2> QED BY <2>2, CarriesOn DEF Kept
<1>3. Carries(an, an1) /\ an1.insns = r.an.insns
  <2> HIDE DEF blocks, gone
  <2>1. /\ DOMAIN an1 = AnalysisFields /\ an1.insns = r.an.insns
        /\ an1.noretCalls = r.an.noretCalls /\ an1.noreturn = r.an.noreturn
        /\ an1.seeds = r.an.seeds /\ r.an.diags \subseteq an1.diags
    BY DEF Kept, Carries, AnalysisFields
  <2> HIDE DEF an1
  <2>2. Carries(r.an, an1)
    BY <2>1, NotesGain DEF Carries
  <2> QED BY <2>1, <2>2, CarriesOn DEF Kept
<1>4. /\ DOMAIN graph1 = GraphFields
      /\ graph1.compat = graph.compat /\ graph1.known = graph.known
      /\ graph1.succ = r.graph.succ
  <2> HIDE DEF blocks
  <2> QED BY DEF Kept, GraphFields
<1> HIDE DEF noted, an1, graph1
<1>5. Kept([r EXCEPT !.an = noted])
  BY <1>2 DEF Kept
<1>6. Kept([r EXCEPT !.an = an1, !.graph = graph1])
  BY <1>3, <1>4 DEF Kept
<1> QED BY <1>1, <1>5, <1>6, Zenon

(* Calling analysis replaces edges in compatibility mode only. *)
LEMMA AnalyzeCallsKeeps ==
    ASSUME NEW r, Kept(r), NEW f
    PROVE  Kept(AnalyzeCalls(r, f))
<1> DEFINE d == Discover(img, r.an, r.ptr, f, graph.known)
           q == ResolveSwitches(r.an, d.xrefs, d.switches)
           left == Batch("callback", d.targets) \o <<Pointers(d.operands)>>
                   \o (IF q.arms = <<>> THEN <<Task("finalize", f)>>
                       ELSE Paths(q.arms) \o <<Task("finish", f)>>)
           an1 == [r.an EXCEPT !.xrefs = q.xrefs, !.diags = @ \cup d.diags]
           graph1 == [r.graph EXCEPT !.succ = q.succ, !.tables = q.tables,
                                     !.completed = IF q.arms = <<>> THEN @ ELSE Without(@, f)]
           found == [r EXCEPT !.an = an1, !.graph = graph1, !.ptr = d.p, !.tasks = left \o @]
           open == [r EXCEPT !.tasks = <<Task("finalize", f)>> \o @]
<1>1. AnalyzeCalls(r, f) = IF graph.compat /\ CallingEnabled(img) THEN found ELSE open
  BY Zenon DEF AnalyzeCalls
<1>2. Carries(an, an1) /\ an1.insns = r.an.insns
  <2> HIDE DEF d, q
  <2>1. /\ DOMAIN an1 = AnalysisFields /\ an1.insns = r.an.insns
        /\ an1.noretCalls = r.an.noretCalls /\ an1.noreturn = r.an.noreturn
        /\ an1.seeds = r.an.seeds /\ r.an.diags \subseteq an1.diags
    BY DEF Kept, Carries, AnalysisFields
  <2> HIDE DEF an1
  <2>2. Carries(r.an, an1)
    BY <2>1, NotesGain DEF Carries
  <2> QED BY <2>1, <2>2, CarriesOn DEF Kept
<1>3. /\ DOMAIN graph1 = GraphFields
      /\ graph1.compat = graph.compat /\ graph1.known = graph.known
  <2> HIDE DEF d, q
  <2> QED BY DEF Kept, GraphFields
<1>4. graph.compat => Kept(found)
  <2> HIDE DEF d, q, left, an1, graph1
  <2> QED BY <1>2, <1>3 DEF Kept
<1>5. Kept(open)
  BY DEF Kept
<1> QED BY <1>1, <1>4, <1>5, Zenon

(* Finishing a function deletes instructions and may add edges to register  *)
(* jumps in compatibility mode.                                             *)
LEMMA FinishKeeps ==
    ASSUME Fields, NEW f, NEW w
    PROVE  Kept(FinishPrepared(f, w))
<1> DEFINE an1 == Prepared(Ordered(f), w)
           r == Finishing(an1, w.p, Insert(walk.blocks, f, w.seen))
           view == IF w.result = "failed" THEN View(<<>>) ELSE BuildFunctionView(img, r.an, graph, f, FALSE)
           more == [r EXCEPT !.retyping = @ \cup {f},
                             !.tasks = <<Path(w.at), Task("finish", f)>> \o @]
<1>1. Carries(an, an1) /\ an1.insns \subseteq an.insns
  <2>1. /\ DOMAIN Ordered(f) = AnalysisFields /\ Ordered(f).insns = an.insns
        /\ Ordered(f).noretCalls = an.noretCalls /\ Ordered(f).noreturn = an.noreturn
        /\ Ordered(f).seeds = an.seeds /\ Ordered(f).diags = an.diags
    BY DEF Ordered, Fields, AnalysisFields
  <2>2. /\ DOMAIN an1 = AnalysisFields /\ an1.insns \subseteq an.insns
        /\ an1.noretCalls = an.noretCalls /\ an1.noreturn = an.noreturn
        /\ an1.seeds = an.seeds /\ an.diags \subseteq an1.diags
    BY <2>1 DEF Prepared, AnalysisFields
  <2> HIDE DEF an1
  <2> QED BY <2>2, NotesGain DEF Carries
<1>2. Kept(r)
  <2> HIDE DEF an1
  <2> QED BY <1>1 DEF Finishing, Kept, Fields
<1>3. FinishPrepared(f, w) = IF w.result = "retype" THEN more ELSE CompleteFunction(r, f, view)
  BY DEF FinishPrepared
<1> HIDE DEF an1, r
<1>4. Kept(more)
  BY <1>2 DEF Kept
<1>5. Kept(CompleteFunction(r, f, view))
  <2> DEFINE x == WithExtent(r, f, view)
             padded == [x EXCEPT !.ptr = FunctionCompleted(img, x.an, x.ptr, f)]
  <2>1. CompleteFunction(r, f, view) = AnalyzeCalls(padded, f)
    BY Zenon DEF CompleteFunction
  <2>2. Kept(x)
    BY <1>2, WithExtentKeeps
  <2>3. Kept(padded)
    <3> HIDE DEF x
    <3> QED BY <2>2 DEF Kept
  <2> HIDE DEF padded
  <2> QED BY <2>1, <2>3, AnalyzeCallsKeeps
<1> QED BY <1>3, <1>4, <1>5, Zenon

----------------------------------------------------------------------------
(* The steps of a walk *)

(* Nothing is cut, no code is added, and natively no edges.                 *)
Quiet ==
    /\ KeepsImage /\ {"at", "exec", "imports", "noretApis"} \subseteq DOMAIN img'
    /\ Carries(an, an') /\ an'.insns \subseteq an.insns
    /\ DOMAIN graph' = GraphFields
    /\ graph'.compat = graph.compat
    /\ graph'.known = graph.known
    /\ ~graph.compat => graph'.succ = graph.succ
    /\ DOMAIN main' = MainFields

(* Without cuts and code there is nothing to justify. *)
LEMMA QuietKeeps ==
    ASSUME Fields, Quiet
    PROVE  Keeps
BY DEF Fields, Quiet, Keeps, KeepsImage, KnownGrows, CutsGrow, CodeGrows, Carries

(* The instruction at a becomes code, with edges.                           *)
Walked(a) ==
    /\ UNCHANGED <<img, main>>
    /\ DOMAIN an' = AnalysisFields
    /\ an'.insns = an.insns \cup {a}
    /\ an'.noreturn = an.noreturn
    /\ Gains(an, an')
    /\ DOMAIN graph' = GraphFields
    /\ graph'.compat = graph.compat
    /\ graph'.known = graph.known
    /\ ~graph.compat => DOMAIN graph'.succ = DOMAIN graph.succ \cup {a}

(* A new instruction must be cut if it calls into the set. *)
LEMMA WalkedKeeps ==
    ASSUME Fields, NEW a, Walked(a), CutsGrow,
           CallsExecutable(a) /\ img.at[a].direct \in graph.known => a \in an'.noretCalls
    PROVE  Keeps /\ KeepsMain
<1>1. Fields' /\ KeepsImage /\ KnownGrows /\ KeepsMain
  BY DEF Fields, Walked, KeepsImage, KnownGrows, KeepsMain
<1>2. CodeGrows /\ Gains(an, an')
  BY DEF Walked, CodeGrows
<1> QED BY <1>1, <1>2 DEF Keeps

(* A direct call into the set ends its path. *)
LEMMA CallIntoSetEnds ==
    ASSUME Fields, NEW a, CallsExecutable(a), img.at[a].direct \in graph.known
    PROVE  EndsFlow(a)
<1>1. img.at[a].direct # None
  BY DirectTarget, ImageAssumption DEF Fields, Addr
<1> QED BY <1>1, DirectTarget DEF EndsFlow, IsProcedural

(* A resumed call into the set is cut and loses its edge. *)
LEMMA ResumeCallKeeps ==
    ASSUME Inv, ResumeCall
    PROVE  Keeps /\ KeepsMain
<1> DEFINE a == Head(walk.tasks).a
<1>1. Fields /\ UNCHANGED <<img, main>>
  BY DEF Inv, ResumeCall
<1>2. CASE CallTarget(a) \in graph.known
  <2>1. /\ an' = [an EXCEPT !.noretCalls = @ \cup {a},
                           !.xrefs = RemoveCodeReference(@, a, CallTarget(a))]
        /\ graph' = [graph EXCEPT !.succ = Insert(@, a, <<>>)]
    BY <1>2 DEF ResumeCall
  <2>2. /\ DOMAIN an' = AnalysisFields /\ an'.noretCalls = an.noretCalls \cup {a}
        /\ an'.insns = an.insns /\ an'.noreturn = an.noreturn
    BY <2>1, <1>1 DEF Fields, AnalysisFields
  <2>3. /\ DOMAIN graph' = GraphFields
        /\ graph'.compat = graph.compat /\ graph'.known = graph.known
        /\ DOMAIN graph'.succ = DOMAIN graph.succ \cup {a}
    BY <2>1, <1>1, DomainOfInsert DEF Fields, GraphFields
  <2>4. CutsGrow /\ CodeGrows /\ Gains(an, an')
    <3>1. an'.seeds = an.seeds /\ an'.diags = an.diags
      BY <2>1, <1>1 DEF Fields, AnalysisFields
    <3> QED BY <1>2, <2>2, <2>3, <3>1, NotesGain DEF CutsGrow, CodeGrows
  <2> QED BY <1>1, <2>2, <2>3, <2>4 DEF Keeps, KeepsMain, KeepsImage, KnownGrows, Fields
<1>3. CASE CallTarget(a) \notin graph.known
  <2>1. UNCHANGED <<an, graph>>
    BY <1>3 DEF ResumeCall
  <2> QED BY <1>1, <2>1, CarriesItself, QuietKeeps DEF Quiet, KeepsImage, KeepsMain, Fields
<1> QED BY <1>2, <1>3

(* FinishFunction, whichever of its outcomes. *)
LEMMA FinishFunctionKeeps ==
    ASSUME Inv, FinishFunction
    PROVE  Keeps /\ KeepsMain
<1>1. Fields /\ UNCHANGED <<img, main>>
  BY DEF Inv, FinishFunction
<1>2. \/ UNCHANGED <<an, graph>>
      \/ \E f, w : an' = FinishPrepared(f, w).an /\ graph' = FinishPrepared(f, w).graph
  <2> DEFINE g == Head(walk.tasks).a
             unprepared == [Preparation(g, an, ptr, BlocksSeen(g)) EXCEPT !.result = "failed"]
             prepared == IF g \in walk.failed THEN unprepared
                         ELSE PrepareFunctionCode(img, Ordered(g), graph, ptr, g, BlocksSeen(g))
  <2>1. \/ UNCHANGED <<an, graph>>
        \/ \E r \in {FinishPrepared(g, prepared)} : an' = r.an /\ graph' = r.graph
    BY DEF FinishFunction
  <2> HIDE DEF g, prepared
  <2> QED BY <2>1
<1>3. CASE UNCHANGED <<an, graph>>
  BY <1>1, <1>3, CarriesItself, QuietKeeps DEF Quiet, KeepsImage, KeepsMain, Fields
<1>4. ASSUME NEW f, NEW w,
             an' = FinishPrepared(f, w).an, graph' = FinishPrepared(f, w).graph
      PROVE  Keeps /\ KeepsMain
  <2>1. Kept(FinishPrepared(f, w))
    BY <1>1, FinishKeeps
  <2>2. Quiet /\ KeepsMain
    BY <1>1, <1>4, <2>1 DEF Quiet, Kept, KeepsImage, KeepsMain, Carries, Fields
  <2> QED BY <1>1, <2>2, QuietKeeps
<1> QED BY <1>2, <1>3, <1>4

(* FollowPointers, one operand. *)
LEMMA FollowPointersKeeps ==
    ASSUME Inv, FollowPointers
    PROVE  Keeps /\ KeepsMain
<1>1. Fields /\ UNCHANGED <<img, graph, main>>
  BY DEF Inv, FollowPointers
<1>2. an' = an \/ \E p, t, n : an' = FollowObservedPointer(img, an, p, t, n).an
  <2> DEFINE ops == Head(walk.tasks).operands
             seen == ObserveInstruction(img, an, ptr, ops[1][1], FALSE).p
  <2>1. \/ an' = an
        \/ \E r \in {FollowObservedPointer(img, an, seen, ops[1][2], graph.known)} : an' = r.an
    BY DEF FollowPointers
  <2> HIDE DEF ops, seen
  <2> QED BY <2>1
<1>3. Carries(an, an') /\ an'.insns = an.insns
  BY <1>1, <1>2, FollowKeeps, CarriesItself DEF Fields
<1> QED BY <1>1, <1>3, QuietKeeps DEF Quiet, KeepsImage, KeepsMain, Carries, Fields

(* Deciding that a function never returns only adds to the set, and only in *)
(* compatibility mode.                                                      *)
LEMMA FinalizeKeeps ==
    ASSUME Inv, FinalizeFunction
    PROVE  Keeps /\ KeepsMain
<1> DEFINE f == Head(walk.tasks).a
<1>1. Fields /\ UNCHANGED <<img, main>>
  BY DEF Inv, FinalizeFunction
<1>2. /\ graph' = [graph EXCEPT !.known = Learned(f),
                               !.recognized = @ \cup ({f} \cap DOMAIN img.locals)]
      /\ an' = [an EXCEPT !.flirtCounts = Insert(@, f, Len(an.forder)),
                         !.locationCounts = Insert(@, f, Len(an.order))]
  BY DEF FinalizeFunction
<1>3. graph.known \subseteq Learned(f) /\ (~graph.compat => Learned(f) = graph.known)
  BY DEF Learned, NeverReturns
<1>4. Carries(an, an') /\ an'.insns = an.insns
  <2>1. /\ DOMAIN an' = AnalysisFields /\ an'.insns = an.insns
        /\ an'.noretCalls = an.noretCalls /\ an'.noreturn = an.noreturn
        /\ an'.seeds = an.seeds /\ an'.diags = an.diags
    BY <1>1, <1>2 DEF Fields, AnalysisFields
  <2> QED BY <2>1, NotesGain DEF Carries
<1>5. /\ DOMAIN graph' = GraphFields /\ graph'.compat = graph.compat
      /\ graph'.known = Learned(f) /\ graph'.succ = graph.succ
  BY <1>1, <1>2 DEF Fields, GraphFields
<1> QED BY <1>1, <1>3, <1>4, <1>5
       DEF Keeps, KeepsMain, KeepsImage, KnownGrows, CutsGrow, CodeGrows, Carries, Fields

(* The tasks that only add seeds, notes or tasks. *)
LEMMA QuietTaskKeeps ==
    ASSUME Inv, TakePath \/ CallbackTarget \/ FlirtLocal \/ ReleaseDelayed
    PROVE  Keeps /\ KeepsMain
<1>1. Fields /\ UNCHANGED <<img, graph, main>>
  BY DEF Inv, TakePath, CallbackTarget, FlirtLocal, ReleaseDelayed
<1>2. \/ an' = an
      \/ \E a, kind : an' = [an EXCEPT !.seeds = AddSeed(@, a, kind)]
      \/ \E counts : an' = [an EXCEPT !.analysisCounts = counts]
  BY Zenon DEF TakePath, CallbackTarget, FlirtLocal, ReleaseDelayed
<1>3. Carries(an, an') /\ an'.insns = an.insns
  <2>1. /\ DOMAIN an' = AnalysisFields /\ an'.insns = an.insns
        /\ an'.noretCalls = an.noretCalls /\ an'.noreturn = an.noreturn
        /\ an'.diags = an.diags
        /\ an'.seeds = an.seeds \/ \E a, kind : an'.seeds = AddSeed(an.seeds, a, kind)
    BY <1>1, <1>2 DEF Fields, AnalysisFields
  <2> QED BY <2>1, SeedsGrow DEF Carries, Gains, MoreSeeds
<1> QED BY <1>1, <1>3, QuietKeeps DEF Quiet, KeepsImage, KeepsMain, Carries, Fields

(* A path that ends before an instruction. *)
LEMMA QuietPathKeeps ==
    ASSUME Inv, StopPath \/ RejectInstruction
    PROVE  Keeps /\ KeepsMain /\ an'.insns = an.insns
<1> DEFINE a == walk.at
<1>1. Fields /\ UNCHANGED <<img, graph, main>>
  BY DEF Inv, StopPath, RejectInstruction
<1>2. an' = Noted(a) \/ an' = Diagnose(Noted(a), a, "not decoded")
  BY DEF StopPath, RejectInstruction
<1>3. Carries(an, Noted(a)) /\ Noted(a).insns = an.insns
  BY <1>1, NotedKeeps
<1>4. LET x == Diagnose(Noted(a), a, "not decoded")
      IN  Carries(Noted(a), x) /\ x.insns = an.insns
  <2>1. DOMAIN Noted(a) = AnalysisFields
    BY <1>3 DEF Carries
  <2> QED BY <1>3, <2>1, DiagnoseKeeps
<1>5. Carries(an, an') /\ an'.insns = an.insns
  <2> DEFINE x == Diagnose(Noted(a), a, "not decoded")
  <2>1. Carries(an, x) /\ x.insns = an.insns
    <3> HIDE DEF x
    <3> QED BY <1>3, <1>4, CarriesOn DEF x
  <2> HIDE DEF a, x
  <2> QED BY <1>2, <1>3, <2>1 DEF x
<1> QED BY <1>1, <1>5, QuietKeeps DEF Quiet, KeepsImage, KeepsMain, Carries, Fields

(* The walk returns to the loop over the queue. *)
LEMMA EndWalkKeeps ==
    ASSUME Inv, EndWalk \/ AbandonWalk
    PROVE  Keeps /\ KeepsMain /\ an'.insns = an.insns /\ graph'.succ = graph.succ
<1> DEFINE x == Diagnose(Noted(walk.at), walk.start, "abandoned")
<1>1. Fields /\ UNCHANGED img
  BY DEF Inv, EndWalk, AbandonWalk
<1>2. Carries(an, x) /\ x.insns = an.insns
  <2>1. Carries(an, Noted(walk.at)) /\ Noted(walk.at).insns = an.insns
    BY <1>1, NotedKeeps
  <2>2. DOMAIN Noted(walk.at) = AnalysisFields
    BY <2>1 DEF Carries
  <2> QED BY <2>1, <2>2, DiagnoseKeeps, CarriesOn
<1>3. \/ graph' = graph
      \/ graph' = [graph EXCEPT !.delayed = @ \cup DOMAIN walk.delayed]
  BY DEF EndWalk, AbandonWalk
<1>4. \E seeds, pending, known, waved, at :
         /\ main' = [main EXCEPT !.pending = pending, !.known = known,
                                 !.waved = waved, !.at = at]
         /\ an' = [an EXCEPT !.seeds = seeds] \/ an' = [x EXCEPT !.seeds = seeds]
         /\ MoreSeeds(an.seeds, seeds)
  <2> DEFINE at == IF walk.caller = "plt" THEN After(walk.start) ELSE main.at
             promoted == Promote(walk.caller, walk.calls)
  <2>1. /\ main' = [main EXCEPT !.pending = promoted.pending, !.known = walk.known,
                                !.waved = Waved, !.at = at]
        /\ \/ an' = [an EXCEPT !.seeds = promoted.seeds]
           \/ an' = [x EXCEPT !.seeds = promoted.seeds]
    BY DEF EndWalk, AbandonWalk, ReturnCalls
  <2>2. MoreSeeds(an.seeds, promoted.seeds)
    BY SeedsGrow DEF Promote, Promotion
  <2> HIDE DEF at, promoted, x
  <2> QED BY <2>1, <2>2
<1> HIDE DEF x
<1>5. Carries(an, an') /\ an'.insns = an.insns
  <2>1. /\ DOMAIN an' = AnalysisFields /\ an'.insns = an.insns
        /\ an'.noretCalls = an.noretCalls /\ an'.noreturn = an.noreturn
        /\ an.diags \subseteq an'.diags /\ MoreSeeds(an.seeds, an'.seeds)
    BY <1>1, <1>2, <1>4 DEF Fields, Carries, Gains, AnalysisFields
  <2> QED BY <2>1 DEF Carries, Gains
<1>6. /\ DOMAIN main' = MainFields
      /\ main'.pc = main.pc /\ main'.noreturn = main.noreturn /\ main'.then = main.then
  BY <1>1, <1>4 DEF Fields, MainFields
<1>7. /\ DOMAIN graph' = GraphFields
      /\ graph'.compat = graph.compat /\ graph'.known = graph.known /\ graph'.succ = graph.succ
  BY <1>1, <1>3 DEF Fields, GraphFields
<1> QED BY <1>1, <1>5, <1>6, <1>7, QuietKeeps DEF Quiet, KeepsImage, KeepsMain, Carries, Fields

----------------------------------------------------------------------------
(* The step over an instruction *)

(* What is known of the recorded instruction r at a. *)
Recorded(r, a) ==
    /\ Carries(an, r.an)
    /\ r.an.insns = an.insns \cup {a}
    /\ ~graph.compat => r.target = None

(* The edges of one instruction are set. *)
LEMMA EdgesKeep ==
    ASSUME Fields, NEW list, graph' = Edges(list)
    PROVE  /\ DOMAIN graph' = GraphFields
           /\ graph'.compat = graph.compat
           /\ graph'.known = graph.known
           /\ DOMAIN graph'.succ = DOMAIN graph.succ \cup {walk.at}
BY DomainOfInsert DEF Fields, Edges, GraphFields

(* An instruction that is no call cuts nothing. *)
LEMMA NoCallKeeps ==
    ASSUME Fields, NEW r, Recorded(r, walk.at), UNCHANGED <<img, main>>,
           an' = r.an \/ \E x : an' = [r.an EXCEPT !.xrefs = x],
           \E list : graph' = Edges(list),
           img.at[walk.at].flow # "call"
    PROVE  Keeps /\ KeepsMain
<1> DEFINE a == walk.at
<1>1. Carries(an, an') /\ an'.insns = an.insns \cup {a}
  <2>1. /\ DOMAIN an' = AnalysisFields /\ an'.insns = an.insns \cup {a}
        /\ an'.noretCalls = an.noretCalls /\ an'.noreturn = an.noreturn
        /\ an'.seeds = r.an.seeds /\ an'.diags = r.an.diags
    BY DEF Recorded, Carries, AnalysisFields
  <2> QED BY <2>1 DEF Recorded, Carries, Gains
<1>2. Walked(a)
  BY <1>1, EdgesKeep DEF Walked, Carries
<1>3. CutsGrow /\ ~CallsExecutable(a)
  BY <1>1, DirectTarget DEF CutsGrow, Carries
<1> QED BY <1>2, <1>3, WalkedKeeps

(* A call is cut when it is met, exactly if its target is in the set. *)
LEMMA WalkCallKeeps ==
    ASSUME Fields, NEW r, Recorded(r, walk.at), UNCHANGED <<img, main>>, WalkCall(r)
    PROVE  Keeps /\ KeepsMain
<1> DEFINE a == walk.at
<1>1. \E x, d : /\ an' = [r.an EXCEPT !.xrefs = x,
                                      !.noretCalls = IF EndsFlow(a) THEN @ \cup {a} ELSE @,
                                      !.diags = d]
                /\ r.an.diags \subseteq d
  <2>1. \E x, c : an' = [r.an EXCEPT !.xrefs = x,
                                     !.noretCalls = IF EndsFlow(a) THEN @ \cup {a} ELSE @,
                                     !.diags = IF c THEN @ \cup {<<a, "unresolved call">>} ELSE @]
    BY Zenon DEF WalkCall
  <2>2. PICK x, c : an' = [r.an EXCEPT !.xrefs = x,
                                     !.noretCalls = IF EndsFlow(a) THEN @ \cup {a} ELSE @,
                                     !.diags = IF c THEN @ \cup {<<a, "unresolved call">>} ELSE @]
    BY <2>1
  <2> DEFINE d == IF c THEN r.an.diags \cup {<<a, "unresolved call">>} ELSE r.an.diags
  <2>3. an' = [r.an EXCEPT !.xrefs = x,
                           !.noretCalls = IF EndsFlow(a) THEN @ \cup {a} ELSE @, !.diags = d]
    BY <2>2
  <2>4. r.an.diags \subseteq d
    OBVIOUS
  <2> HIDE DEF d
  <2> QED BY <2>3, <2>4
<1>2. \E list, fns : graph' = [Edges(list) EXCEPT !.importFns = fns]
  <2> DEFINE fork == Edges(IF EndsFlow(a) THEN <<>> ELSE <<Edge(NextOf(img, a), "fallthrough")>>)
             fns == IF Loose /\ Descends(a) THEN fork.importFns \cup {CallTarget(a)}
                    ELSE fork.importFns
  <2>1. graph' = [fork EXCEPT !.importFns = fns]
    BY DEF WalkCall
  <2> HIDE DEF fns
  <2> QED BY <2>1
<1>3. /\ DOMAIN an' = AnalysisFields /\ an'.insns = an.insns \cup {a}
      /\ an'.noreturn = an.noreturn
      /\ an'.noretCalls = IF EndsFlow(a) THEN an.noretCalls \cup {a} ELSE an.noretCalls
      /\ Gains(an, an')
  <2>1. /\ DOMAIN an' = AnalysisFields /\ an'.insns = an.insns \cup {a}
        /\ an'.noreturn = an.noreturn
        /\ an'.noretCalls = IF EndsFlow(a) THEN an.noretCalls \cup {a} ELSE an.noretCalls
        /\ an'.seeds = r.an.seeds /\ r.an.diags \subseteq an'.diags
    BY <1>1 DEF Recorded, Carries, AnalysisFields
  <2> QED BY <2>1 DEF Recorded, Carries, Gains
<1>4. /\ DOMAIN graph' = GraphFields
      /\ graph'.compat = graph.compat /\ graph'.known = graph.known
      /\ DOMAIN graph'.succ = DOMAIN graph.succ \cup {a}
  <2>1. PICK list, fns : graph' = [Edges(list) EXCEPT !.importFns = fns]
    BY <1>2
  <2>2. /\ DOMAIN Edges(list) = GraphFields
        /\ Edges(list).compat = graph.compat /\ Edges(list).known = graph.known
        /\ DOMAIN Edges(list).succ = DOMAIN graph.succ \cup {a}
    BY DomainOfInsert DEF Fields, Edges, GraphFields
  <2> QED BY <2>1, <2>2 DEF GraphFields
<1>5. Walked(a)
  BY <1>3, <1>4 DEF Walked
<1>6. CutsGrow
  BY <1>3 DEF CutsGrow, EndsFlow
<1>7. CallsExecutable(a) /\ img.at[a].direct \in graph.known => a \in an'.noretCalls
  BY <1>3, CallIntoSetEnds
<1> QED BY <1>5, <1>6, <1>7, WalkedKeeps

(* An indirect jump: tables and switches are resolved natively without      *)
(* touching what other jumps were given.                                    *)
LEMMA WalkIndirectKeeps ==
    ASSUME Fields, NEW r, Recorded(r, walk.at), UNCHANGED <<img, main>>, WalkIndirect(r)
    PROVE  Keeps /\ KeepsMain
<1> DEFINE a == walk.at
           split(arms, x) == IF graph.compat THEN SplitAdjacentTables(img, x, graph, a, arms.targets)
                             ELSE Separation(x.xrefs, graph.succ, graph.completed, {})
<1>1. PICK arms, s :
         /\ ~graph.compat => s.succ = graph.succ
         /\ TakeArms(r, arms, s)
  <2>1. PICK arms \in {ArmsOf(a, r.an)} :
           \E s \in {split(arms, [r.an EXCEPT !.xrefs = arms.xrefs, !.diags = @ \cup arms.diags])} :
              TakeArms(r, arms, s)
    BY DEF WalkIndirect
  <2> DEFINE x == [r.an EXCEPT !.xrefs = arms.xrefs, !.diags = @ \cup arms.diags]
  <2>2. TakeArms(r, arms, split(arms, x))
    BY <2>1
  <2>3. ~graph.compat => split(arms, x).succ = graph.succ
    BY DEF Separation
  <2> HIDE DEF split, x
  <2> QED BY <2>2, <2>3
<1>2. img.at[a].flow = "ijmp"
  BY DEF WalkIndirect
<1>3. \E x, d : an' = [r.an EXCEPT !.xrefs = x, !.diags = d] /\ r.an.diags \subseteq d
  <2> DEFINE x == FoldLeft(LAMBDA y, t : PushXref(y, t, a), s.xrefs, arms.targets)
             d == r.an.diags \cup arms.diags \cup s.diags
                  \cup (IF arms.targets = <<>> THEN {<<a, "unresolved jump">>} ELSE {})
  <2>1. an' = [r.an EXCEPT !.xrefs = x, !.diags = d]
    BY <1>1 DEF TakeArms
  <2>2. r.an.diags \subseteq d
    OBVIOUS
  <2> HIDE DEF x, d
  <2> QED BY <2>1, <2>2
<1>4. \E v, c, t : graph' = [graph EXCEPT !.succ = Insert(s.succ, a, v), !.completed = c, !.tables = t]
  <2> DEFINE ts == arms.targets
             pointer == ts # <<>> /\ IsPointerJump(img, img.at[a])
             v == IF pointer THEN <<>> ELSE [i \in DOMAIN ts |-> Edge(ts[i], "table")]
             slots == IF graph.compat /\ ts # <<>> /\ ~pointer
                      THEN TableSlots(img, img.at[a], ts) ELSE <<>>
             t == graph.tables \o arms.locs \o slots
             c == [f \in DOMAIN graph.completed |-> s.completed[f]]
  <2>1. graph' = [graph EXCEPT !.succ = Insert(s.succ, a, v), !.completed = c, !.tables = t]
    BY <1>1 DEF TakeArms
  <2> HIDE DEF v, t, c
  <2> QED BY <2>1
<1>5. /\ DOMAIN an' = AnalysisFields /\ an'.insns = an.insns \cup {a}
      /\ an'.noreturn = an.noreturn /\ an'.noretCalls = an.noretCalls
      /\ Gains(an, an')
  <2>1. /\ DOMAIN an' = AnalysisFields /\ an'.insns = an.insns \cup {a}
        /\ an'.noreturn = an.noreturn /\ an'.noretCalls = an.noretCalls
        /\ an'.seeds = r.an.seeds /\ r.an.diags \subseteq an'.diags
    BY <1>3 DEF Recorded, Carries, AnalysisFields
  <2> QED BY <2>1 DEF Recorded, Carries, Gains
<1>6. /\ DOMAIN graph' = GraphFields
      /\ graph'.compat = graph.compat /\ graph'.known = graph.known
      /\ ~graph.compat => DOMAIN graph'.succ = DOMAIN graph.succ \cup {a}
  <2>1. PICK v, c, t :
           graph' = [graph EXCEPT !.succ = Insert(s.succ, a, v), !.completed = c, !.tables = t]
    BY <1>4
  <2>2. ~graph.compat => DOMAIN Insert(s.succ, a, v) = DOMAIN graph.succ \cup {a}
    BY <1>1, DomainOfInsert
  <2> QED BY <2>1, <2>2 DEF Fields, GraphFields
<1>7. Walked(a) /\ CutsGrow /\ ~CallsExecutable(a)
  BY <1>2, <1>5, <1>6, DirectTarget DEF Walked, CutsGrow
<1> QED BY <1>7, WalkedKeeps

(* The seven kinds of flow. *)
LEMMA WalkFlowKeeps ==
    ASSUME Fields, NEW r, Recorded(r, walk.at), UNCHANGED <<img, main>>, WalkFlow(r)
    PROVE  Keeps /\ KeepsMain
<1>1. CASE WalkNext(r)
  <2>1. an' = r.an /\ (\E list : graph' = Edges(list)) /\ img.at[walk.at].flow # "call"
    BY <1>1 DEF WalkNext
  <2> QED BY <2>1, NoCallKeeps
<1>2. CASE WalkCall(r)
  BY <1>2, WalkCallKeeps
<1>3. CASE WalkConditional(r)
  <2> DEFINE op == img.at[walk.at]
             next == NextOf(img, walk.at)
             x == IF op.direct = None THEN r.an.xrefs ELSE PushXref(r.an.xrefs, op.direct, walk.at)
             list == IF op.direct = None THEN <<Edge(next, "fallthrough")>>
                     ELSE <<Edge(next, "fallthrough"), Edge(op.direct, "branch")>>
  <2>1. an' = [r.an EXCEPT !.xrefs = x] /\ graph' = Edges(list) /\ op.flow = "cond"
    BY <1>3 DEF WalkConditional
  <2> HIDE DEF x, list
  <2>2. (\E y : an' = [r.an EXCEPT !.xrefs = y]) /\ (\E l : graph' = Edges(l))
    BY <2>1
  <2> QED BY <2>1, <2>2, NoCallKeeps
<1>4. CASE WalkJump(r)
  <2>1. /\ an' = r.an \/ \E x : an' = [r.an EXCEPT !.xrefs = x]
        /\ \E list : graph' = Edges(list)
        /\ img.at[walk.at].flow # "call"
    BY <1>4 DEF WalkJump
  <2> QED BY <2>1, NoCallKeeps
<1>5. CASE WalkThunk(r)
  <2>1. an' = r.an /\ (\E list : graph' = Edges(list)) /\ img.at[walk.at].flow # "call"
    BY <1>5 DEF WalkThunk
  <2> QED BY <2>1, NoCallKeeps
<1>6. CASE WalkIndirect(r)
  BY <1>6, WalkIndirectKeeps
<1>7. CASE WalkReturn(r)
  <2>1. an' = r.an /\ (\E list : graph' = Edges(list)) /\ img.at[walk.at].flow # "call"
    BY <1>7 DEF WalkReturn
  <2> QED BY <2>1, NoCallKeeps
<1> QED BY <1>1, <1>2, <1>3, <1>4, <1>5, <1>6, <1>7 DEF WalkFlow

(* The instruction is recorded, then suspended or walked. *)
LEMMA WalkInstructionKeeps ==
    ASSUME Inv, WalkInstruction
    PROVE  Keeps /\ KeepsMain
<1>1. Fields /\ UNCHANGED <<img, main>>
  BY DEF Inv, WalkInstruction
<1> DEFINE r == Record(walk.at)
<1>2. SuspendOpcode(r) \/ WalkFlow(r)
  BY DEF WalkInstruction
<1>3. Recorded(r, walk.at)
  BY <1>1, RecordKeeps DEF Recorded
<1> HIDE DEF r
<1>4. CASE WalkFlow(r)
  BY <1>1, <1>3, <1>4, WalkFlowKeeps
<1>5. CASE SuspendOpcode(r)
  <2>1. graph.compat /\ an' = r.an /\ graph' = graph
    BY <1>3, <1>5 DEF SuspendOpcode, IsSuspended, Recorded
  <2> QED BY <1>1, <1>3, <2>1
         DEF Recorded, Carries, Keeps, KeepsMain, KeepsImage, KnownGrows, CutsGrow, CodeGrows, Fields
<1> QED BY <1>2, <1>4, <1>5

(* A walk changes the set, the cuts and the code only as Keeps allows, and  *)
(* leaves the loop over the queue where it is.                              *)
LEMMA WalkKeeps ==
    ASSUME Inv, WalkStep
    PROVE  Keeps /\ KeepsMain /\ walk.on
<1>1. Keeps /\ KeepsMain
  BY ResumeCallKeeps, FinishFunctionKeeps, FollowPointersKeeps, FinalizeKeeps, QuietTaskKeeps,
     QuietPathKeeps, EndWalkKeeps, WalkInstructionKeeps DEF WalkStep
<1>2. walk.on
  BY DEF WalkStep, TakePath, ResumeCall, FinishFunction, CallbackTarget, FollowPointers,
         FinalizeFunction, FlirtLocal, ReleaseDelayed, StopPath, RejectInstruction,
         WalkInstruction, EndWalk, AbandonWalk, AtTask, Walking, Passes
<1> QED BY <1>1, <1>2

----------------------------------------------------------------------------
(* The steps of the loop over the queue *)

PassSteps == {"plt", "top", "pop", "next", "candidate", "views", "locals", "wave", "cookies"}

(* The locals m of a loop that goes on with the pass it is in.              *)
GoesOn(m) ==
    /\ DOMAIN m = MainFields
    /\ m.pc \in PassSteps
    /\ m.noreturn = main.noreturn
    /\ m.then \in {"pop", "cookies"}

(* Such a step changes seeds, references, functions and notes, and what     *)
(* the image imports.                                                       *)
Annotated(x) == Carries(an, x) /\ x.insns = an.insns

StaysInPass ==
    /\ KeepsImage /\ DOMAIN img' = DOMAIN img
    /\ Annotated(an')
    /\ \/ UNCHANGED graph
       \/ \E tables : graph' = [graph EXCEPT !.tables = tables]
    /\ main.pc \in PassSteps
    /\ GoesOn(main')

(* The ways in which the loop moves on inside a pass. *)
LEMMA GoesOnWithin ==
    ASSUME Inv
    PROVE  /\ \A pc \in PassSteps : GoesOn(Goto(pc))
           /\ \A a : GoesOn(Found(a))
           /\ GoesOn(NotFound)
           /\ main.pc \in PassSteps => GoesOn(main)
<1>1. DOMAIN main = MainFields /\ main.then \in {"pop", "cookies"}
  BY DEF Inv, Fields, Control
<1>2. \A pc \in PassSteps : GoesOn(Goto(pc))
  BY <1>1 DEF Goto, GoesOn, MainFields
<1>3. \A a : GoesOn(Found(a))
  BY <1>1 DEF Found, GoesOn, MainFields, PassSteps
<1>4. GoesOn(NotFound)
  BY <1>2 DEF NotFound, PassSteps
<1> QED BY <1>1, <1>2, <1>3, <1>4 DEF GoesOn

(* The ways in which the loop changes the analysis. *)
LEMMA AnnotatedWithin ==
    ASSUME Fields
    PROVE  /\ Annotated(an)
           /\ \A x, a, what : Annotated(x) => Annotated(Diagnose(x, a, what))
           /\ \A x, seeds : Annotated(x) /\ MoreSeeds(x.seeds, seeds)
                              => Annotated([x EXCEPT !.seeds = seeds])
           /\ \A x, drefs : Annotated(x) => Annotated([x EXCEPT !.drefs = drefs])
           /\ \A x, fs : Annotated(x) => Annotated([x EXCEPT !.functions = fs])
<1>1. Annotated(an)
  BY CarriesItself DEF Fields, Annotated
<1>2. ASSUME NEW x, NEW a, NEW what, Annotated(x)
      PROVE  Annotated(Diagnose(x, a, what))
  <2>1. DOMAIN x = AnalysisFields
    BY <1>2 DEF Annotated, Carries
  <2> QED BY <1>2, <2>1, DiagnoseKeeps, CarriesOn DEF Annotated
<1>3. ASSUME NEW x, Annotated(x), NEW y, DOMAIN y = AnalysisFields,
             y.insns = x.insns, y.noretCalls = x.noretCalls, y.noreturn = x.noreturn,
             y.diags = x.diags, MoreSeeds(x.seeds, y.seeds)
      PROVE  Annotated(y)
  BY <1>3, GainsAddUp DEF Annotated, Carries, Gains
<1>4. ASSUME NEW x, Annotated(x), NEW v
      PROVE  /\ MoreSeeds(x.seeds, v) => Annotated([x EXCEPT !.seeds = v])
             /\ Annotated([x EXCEPT !.drefs = v])
             /\ Annotated([x EXCEPT !.functions = v])
  <2> DEFINE s == [x EXCEPT !.seeds = v]
             d == [x EXCEPT !.drefs = v]
             f == [x EXCEPT !.functions = v]
             Same(y) == /\ DOMAIN y = AnalysisFields /\ y.insns = x.insns
                        /\ y.noretCalls = x.noretCalls /\ y.noreturn = x.noreturn
                        /\ y.diags = x.diags
  <2>1. /\ Same(s) /\ s.seeds = v
        /\ Same(d) /\ d.seeds = x.seeds
        /\ Same(f) /\ f.seeds = x.seeds
    BY <1>4 DEF Annotated, Carries, AnalysisFields
  <2>2. MoreSeeds(x.seeds, x.seeds)
    BY DEF MoreSeeds
  <2> HIDE DEF s, d, f
  <2>3. /\ MoreSeeds(x.seeds, v) => Annotated(s)
        /\ Annotated(d) /\ Annotated(f)
    BY <1>3, <1>4, <2>1, <2>2
  <2> QED BY <2>3 DEF s, d, f
<1> QED BY <1>1, <1>2, <1>4

(* The queue, the stubs and the ends of the waves. *)
LEMMA LoopStays ==
    ASSUME Inv, EndPlt \/ WalkPlt \/ LoopTop \/ PopStart \/ EndWave \/ EmptyQueue
    PROVE  StaysInPass
<1>1. Fields /\ main.then \in {"pop", "cookies"}
  BY DEF Inv, Control
<1>2. Annotated(an) /\ (\A a, what : Annotated(Diagnose(an, a, what)))
      /\ (UNCHANGED img => KeepsImage /\ DOMAIN img' = DOMAIN img)
  BY <1>1, AnnotatedWithin DEF KeepsImage
<1>3. CASE EndPlt
  BY <1>2, <1>3, GoesOnWithin DEF EndPlt, At, StaysInPass, PassSteps
<1>4. CASE WalkPlt
  <2>1. main.pc = "plt" /\ UNCHANGED <<img, an, graph>>
    BY <1>4 DEF WalkPlt, At
  <2>2. \/ main' = main
        \/ \E todo, at : main' = [main EXCEPT !.todo = todo, !.at = at]
        \/ \E at : main' = [main EXCEPT !.at = at]
    BY <1>4, Zenon DEF WalkPlt
  <2>3. GoesOn(main')
    BY <1>1, <2>1, <2>2 DEF Fields, GoesOn, MainFields, PassSteps
  <2> QED BY <1>2, <2>1, <2>3 DEF StaysInPass, PassSteps
<1>5. CASE LoopTop
  BY <1>2, <1>5, GoesOnWithin DEF LoopTop, At, StaysInPass, PassSteps
<1>6. CASE PopStart
  <2>1. main.pc = "pop" /\ UNCHANGED <<img, graph>>
    BY <1>6 DEF PopStart, At
  <2>2. an' = an \/ \E a : an' = Diagnose(an, a, "function budget")
    BY <1>6, Zenon DEF PopStart
  <2>4. GoesOn(main')
    <3> DEFINE a == Head(main.pending)
               popped == [main EXCEPT !.pc = "top", !.pending = Tail(@),
                                      !.skipped = IF IsWalkedPattern(a) THEN @ \cup {a} ELSE @]
    <3>1. \/ main' = popped
          \/ main' = [popped EXCEPT !.told = TRUE]
          \/ \E starts, isolated :
                main' = [popped EXCEPT !.starts = starts, !.isolated = isolated]
      BY <1>6, Zenon DEF PopStart
    <3>2. GoesOn(popped)
      BY <1>1 DEF Fields, GoesOn, MainFields, PassSteps
    <3> HIDE DEF popped
    <3> QED BY <3>1, <3>2 DEF GoesOn, MainFields
  <2> QED BY <1>2, <2>1, <2>2, <2>4 DEF StaysInPass, PassSteps
<1>7. CASE EndWave
  BY <1>1, <1>2, <1>7, GoesOnWithin DEF EndWave, At, StaysInPass, PassSteps
<1>8. CASE EmptyQueue
  BY <1>2, <1>8, GoesOnWithin DEF EmptyQueue, At, StaysInPass, PassSteps
<1> QED BY <1>3, <1>4, <1>5, <1>6, <1>7, <1>8

(* pointers::Discovery::next and the waves. *)
LEMMA NextStays ==
    ASSUME Inv, BeginNext \/ EndBatch
    PROVE  StaysInPass
<1>1. Fields /\ Annotated(an) /\ UNCHANGED <<img, graph>> /\ main.pc \in PassSteps
  BY AnnotatedWithin DEF Inv, BeginNext, EndBatch, At, PassSteps
<1>2. ASSUME NEW p, NEW a, TakeEmulated(p, a)
      PROVE  Annotated(an') /\ GoesOn(main')
  BY <1>1, <1>2, AnnotatedWithin, GoesOnWithin, SeedsGrow DEF TakeEmulated
<1>3. CASE BeginNext
  <2>1. CASE \E p, a : TakeEmulated(p, a)
    BY <1>1, <1>2, <2>1 DEF StaysInPass, KeepsImage
  <2>2. CASE ~\E p, a : TakeEmulated(p, a)
    <3>1. PICK p \in {IF Collects(ptr) THEN Collect(img, an, [ptr EXCEPT !.ready = {}])
                      ELSE [ptr EXCEPT !.ready = {}]} :
             LET stop == Cardinality(p.tried) >= MaxCandidates
                 told == IF Collects(ptr) /\ p.full THEN Diagnose(an, 0, "candidate limit") ELSE an
             IN  /\ an' = IF stop /\ p.cand # {} THEN Diagnose(told, 0, "candidates") ELSE told
                 /\ main' = IF stop THEN NotFound ELSE Goto("candidate")
      BY <1>3, <2>2 DEF BeginNext
    <3>2. Annotated(an')
      BY <1>1, <3>1, AnnotatedWithin
    <3>3. GoesOn(main')
      BY <3>1, GoesOnWithin DEF PassSteps
    <3> QED BY <1>1, <3>2, <3>3 DEF StaysInPass, KeepsImage
  <2> QED BY <2>1, <2>2
<1>4. CASE EndBatch
  <2>1. (\E p, a : TakeEmulated(p, a)) \/ (UNCHANGED an /\ main' \in {Goto("next"), NotFound})
    BY <1>4 DEF EndBatch
  <2>2. Annotated(an') /\ GoesOn(main')
    BY <1>1, <1>2, <2>1, GoesOnWithin DEF PassSteps
  <2> QED BY <1>1, <2>2 DEF StaysInPass, KeepsImage
<1> QED BY <1>3, <1>4

(* A verdict on a candidate seeds or notes. *)
LEMMA JudgeStays ==
    ASSUME Inv, main.pc \in PassSteps,
           NEW x, Annotated(x), NEW p, NEW kind, NEW a, NEW v, Judge(x, p, kind, a, v)
    PROVE  Annotated(an') /\ GoesOn(main')
<1>1. \/ main' = main
      \/ main' = Found(a)
  BY DEF Judge, Again
<1>2. \/ an' = x \/ an' = Diagnose(x, a, "inconclusive")
      \/ an' = [x EXCEPT !.seeds = AddSeed(@, a, kind)]
  BY DEF Judge
<1> QED BY <1>1, <1>2, AnnotatedWithin, GoesOnWithin, SeedsGrow DEF Inv

(* Taking a slot adds at most a reference. *)
LEMMA TakeAnnotates ==
    ASSUME Inv, NEW s
    PROVE  Annotated(Take(s).an)
<1>1. ASSUME NEW p, NEW slot, NEW target
      PROVE  Annotated(TakeSlot(p, slot, target).an)
  <2>1. TakeSlot(p, slot, target).an \in {an, [an EXCEPT !.drefs = PushXref(@, target, slot)]}
    BY DEF TakeSlot, Taken
  <2> QED BY <2>1, AnnotatedWithin DEF Inv
<1>2. Annotated(an) /\ \A p, c : Taken(p, an, c).an = an
  BY AnnotatedWithin DEF Inv, Taken
<1> QED BY <1>1, <1>2 DEF Take

(* A candidate is taken and judged. *)
LEMMA TryCandidateStays ==
    ASSUME Inv, TryCandidate
    PROVE  StaysInPass
<1>1. Fields /\ UNCHANGED <<img, graph>> /\ main.pc \in PassSteps
  BY DEF Inv, TryCandidate, At, PassSteps
<1>2. Annotated(an') /\ GoesOn(main')
  <2>1. PICK t : /\ Annotated(t.an)
                 /\ \/ an' = t.an /\ main' = main
                    \/ \E a : an' = Diagnose(t.an, a, "candidates") /\ main' = NotFound
                    \/ \E p, kind, a, v : Judge(t.an, p, kind, a, v)
    <3> DEFINE s == NextSource(img, ptr)
               t == Take(s)
               kind == t.cand[1]
               a == t.cand[2]
               p == IF kind = "pointer" THEN AddCandidate(img, t.an, t.p, a, "emulated") ELSE t.p
               tried == [p EXCEPT !.tried = @ \cup {<<kind, a>>}]
               v == VerdictOn(t.an, tried, kind, a)
    <3>1. Annotated(t.an)
      BY TakeAnnotates
    <3>2. \/ an' = t.an /\ main' = main
          \/ an' = Diagnose(t.an, a, "candidates") /\ main' = NotFound
          \/ \E w \in {v} : Judge(t.an, tried, kind, a, w)
      BY DEF TryCandidate, Again
    <3> HIDE DEF s, kind, a, tried, v
    <3> QED BY <3>1, <3>2
  <2>2. CASE an' = t.an /\ main' = main
    BY <1>1, <2>1, <2>2, GoesOnWithin
  <2>3. CASE \E a : an' = Diagnose(t.an, a, "candidates") /\ main' = NotFound
    BY <1>1, <2>1, <2>3, GoesOnWithin, AnnotatedWithin
  <2>4. CASE \E p, kind, a, v : Judge(t.an, p, kind, a, v)
    BY <1>1, <2>1, <2>4, JudgeStays
  <2> QED BY <2>1, <2>2, <2>3, <2>4
<1> QED BY <1>1, <1>2 DEF StaysInPass, KeepsImage

(* FLIRT starts, import-call fragments, Go and cookie starts. *)
LEMMA WavesStay ==
    ASSUME Inv, EndEarly \/ WalkFragment \/ GoWave \/ CookieWave
    PROVE  StaysInPass
<1>1. Fields /\ main.then \in {"pop", "cookies"} /\ Annotated(an)
  BY AnnotatedWithin DEF Inv, Control
<1>2. UNCHANGED img => KeepsImage /\ DOMAIN img' = DOMAIN img
  BY DEF KeepsImage
<1>3. CASE EndEarly
  <2>1. UNCHANGED <<img, graph>> /\ main.pc \in PassSteps
    BY <1>3 DEF EndEarly, At, PassSteps
  <2>2. \/ /\ \E fs, set : an' = [an EXCEPT !.functions = fs, !.seeds = AddSeeds(@, set, "local")]
           /\ \E pending : main' = [main EXCEPT !.pc = "top", !.pending = pending]
        \/ /\ \E fs : an' = [an EXCEPT !.functions = fs]
           /\ main' = [BeginWave(main.starts, "pop") EXCEPT !.early = TRUE]
    BY <1>3, Zenon DEF EndEarly
  <2>3. GoesOn(BeginWave(main.starts, "pop"))
    BY <1>1 DEF BeginWave, Fields, GoesOn, MainFields, PassSteps
  <2>4. Annotated(an')
    <3>1. CASE \E fs : an' = [an EXCEPT !.functions = fs]
      BY <1>1, <3>1, AnnotatedWithin
    <3>2. ASSUME NEW fs, NEW set, an' = [an EXCEPT !.functions = fs, !.seeds = AddSeeds(@, set, "local")]
          PROVE  Annotated(an')
      <4> DEFINE x == [an EXCEPT !.functions = fs]
      <4>1. Annotated(x)
        BY <1>1, AnnotatedWithin
      <4>2. an' = [x EXCEPT !.seeds = AddSeeds(@, set, "local")]
        BY <1>1, <3>2 DEF Fields, AnalysisFields
      <4> HIDE DEF x
      <4> QED BY <1>1, <4>1, <4>2, SeedsGrow, AnnotatedWithin
    <3> QED BY <2>2, <3>1, <3>2
  <2>5. GoesOn(main')
    BY <1>1, <2>2, <2>3 DEF Fields, GoesOn, MainFields, PassSteps
  <2> QED BY <1>2, <2>1, <2>4, <2>5 DEF StaysInPass
<1>4. CASE WalkFragment
  <2>1. UNCHANGED <<img, an, graph>> /\ main.pc \in PassSteps
        /\ main' = [main EXCEPT !.todo = Tail(@)]
    BY <1>4 DEF WalkFragment, At, PassSteps
  <2>2. GoesOn(main')
    BY <1>1, <2>1 DEF Fields, GoesOn, MainFields
  <2> QED BY <1>1, <1>2, <2>1, <2>2 DEF StaysInPass
<1>5. CASE GoWave
  <2>1. UNCHANGED <<img, graph>> /\ main.pc \in PassSteps
    BY <1>5 DEF GoWave, At, PassSteps
  <2>2. \E seeds : an' = [an EXCEPT !.seeds = seeds] /\ MoreSeeds(an.seeds, seeds)
    <3> DEFINE seeds(found) == IF found THEN AddSeed(an.seeds, img.gomain, "gomain") ELSE an.seeds
    <3>1. \E found : an' = [an EXCEPT !.seeds = seeds(found)]
      BY <1>5 DEF GoWave
    <3>2. \A found : MoreSeeds(an.seeds, seeds(found))
      BY SeedsGrow DEF MoreSeeds
    <3> QED BY <3>1, <3>2
  <2>3. \E queued : /\ \E pending : queued = [main EXCEPT !.late = TRUE, !.pending = pending]
                    /\ \/ main' = [queued EXCEPT !.pc = "cookies"]
                       \/ \E todo : main' = [queued EXCEPT !.pc = "wave", !.todo = todo,
                                                           !.known = None, !.then = "cookies"]
    <3> DEFINE found == /\ img.gomain # None /\ img.entry \in DOMAIN graph.succ
                        /\ ~BuildFunctionView(img, an, graph, img.entry, FALSE).oversized
                        /\ IsExecutable(img, img.gomain)
               isNew == img.gomain \notin DOMAIN an.seeds
               pending == IF found /\ isNew THEN <<img.gomain>> ELSE <<>>
               queued == [main EXCEPT !.late = TRUE, !.pending = pending]
    <3>1. main' = IF graph.compat THEN [queued EXCEPT !.pc = "cookies"]
                  ELSE [queued EXCEPT !.pc = "wave", !.todo = FragmentStarts, !.known = None,
                                      !.then = "cookies"]
      BY <1>5 DEF GoWave
    <3>2. queued = [main EXCEPT !.late = TRUE, !.pending = pending]
      OBVIOUS
    <3> HIDE DEF pending, queued
    <3> QED BY <3>1, <3>2
  <2>4. GoesOn(main')
    <3>1. PICK queued : /\ \E pending : queued = [main EXCEPT !.late = TRUE, !.pending = pending]
                        /\ \/ main' = [queued EXCEPT !.pc = "cookies"]
                           \/ \E todo : main' = [queued EXCEPT !.pc = "wave", !.todo = todo,
                                                               !.known = None, !.then = "cookies"]
      BY <2>3
    <3>2. DOMAIN queued = MainFields /\ queued.noreturn = main.noreturn /\ queued.then = main.then
      BY <1>1, <3>1 DEF Fields, MainFields
    <3> QED BY <1>1, <3>1, <3>2 DEF GoesOn, MainFields, PassSteps
  <2> QED BY <1>1, <1>2, <2>1, <2>2, <2>4, AnnotatedWithin DEF StaysInPass
<1>6. CASE CookieWave
  <2>1. UNCHANGED graph /\ main.pc \in PassSteps
    BY <1>6 DEF CookieWave, At, PassSteps
  <2>2. \E set, pending, imports, apis :
           /\ an' = [an EXCEPT !.seeds = AddSeeds(@, set, "cookie")]
           /\ main' = [main EXCEPT !.pc = "top", !.pending = pending]
           /\ img' = [img EXCEPT !.imports = imports, !.noretApis = apis]
    BY <1>6, Zenon DEF CookieWave
  <2>3. KeepsImage /\ DOMAIN img' = DOMAIN img
    BY <2>2 DEF KeepsImage
  <2>4. GoesOn(main')
    BY <1>1, <2>2 DEF Fields, GoesOn, MainFields, PassSteps
  <2> QED BY <1>1, <2>1, <2>2, <2>3, <2>4, AnnotatedWithin, SeedsGrow DEF StaysInPass
<1> QED BY <1>3, <1>4, <1>5, <1>6

(* Every step of the loop inside a pass.                                    *)
LEMMA SweepStays ==
    ASSUME Inv, SweepStep, ~StartPass, ~EndSweep
    PROVE  StaysInPass /\ Keeps
<1>1. StaysInPass
  BY LoopStays, NextStays, TryCandidateStays, WavesStay DEF SweepStep
<1>2. Fields
  BY DEF Inv
<1>3. /\ DOMAIN graph' = GraphFields
      /\ graph'.compat = graph.compat /\ graph'.known = graph.known /\ graph'.succ = graph.succ
  BY <1>1, <1>2 DEF StaysInPass, Fields, GraphFields
<1>4. Quiet
  BY <1>1, <1>2, <1>3 DEF Quiet, StaysInPass, Annotated, GoesOn, Fields
<1> QED BY <1>1, <1>2, <1>4, QuietKeeps

----------------------------------------------------------------------------
(* The invariant *)

(* Nothing is walked or cut at first. *)
LEMMA InitInv ==
    ASSUME Init
    PROVE  Inv
<1>1. /\ an = EmptyAnalysis(BaseSeeds(img)) /\ graph = EmptyGraph(img, img.noretApis)
      /\ walk = NoWalk /\ img \in Images
  BY DEF Init
<1>2. /\ DOMAIN an = AnalysisFields /\ an.insns = {} /\ an.noretCalls = {}
      /\ DOMAIN graph = GraphFields
  BY <1>1 DEF EmptyAnalysis, EmptyGraph, AnalysisFields, GraphFields
<1>3. DOMAIN main = MainFields /\ main.pc = "pass" /\ main.then = "pop"
  BY DEF Init, MainFields
<1>4. Fields
  BY <1>1, <1>2, <1>3, ImagesAssumption DEF Fields
<1> QED BY <1>2, <1>3, <1>4
       DEF Inv, Control, NativeSet, CutsAreJustified, CutsAreComplete, SetIsPublished, Done

(* A pass begins without code, under the set of the loop over passes. *)
LEMMA StartPassInv ==
    ASSUME Inv, StartPass
    PROVE  Inv'
<1>1. /\ Fields /\ main.then \in {"pop", "cookies"} /\ main.pc = "pass"
      /\ UNCHANGED <<img, walk>>
  BY DEF Inv, Control, StartPass, At
<1>2. /\ \E seeds : an' = EmptyAnalysis(seeds)
      /\ graph' = EmptyGraph(img, main.noreturn)
  BY DEF StartPass
<1>3. /\ DOMAIN main' = MainFields /\ main'.pc \in {"plt", "top"}
      /\ main'.noreturn = main.noreturn /\ main'.then = main.then
  <2> DEFINE m(compat, pending, at) ==
               [main EXCEPT !.pc = IF compat /\ img.format = "elf" THEN "plt" ELSE "top",
                            !.pending = pending,
                            !.starts = {}, !.isolated = {}, !.late = FALSE, !.told = FALSE,
                            !.early = ~compat, !.known = {}, !.todo = img.plt,
                            !.skipped = {}, !.waved = {}, !.at = at]
  <2>1. main' = m(IsCompatible(img),
                  InitialQueue(img, IF IsCompatible(img) THEN KeptSeeds(BaseSeeds(img))
                                    ELSE BaseSeeds(img), IsCompatible(img)),
                  IF img.plt = <<>> THEN 0 ELSE img.plt[1][1])
    BY Zenon DEF StartPass
  <2>2. ASSUME NEW compat, NEW pending, NEW at
        PROVE  LET x == m(compat, pending, at)
               IN  /\ DOMAIN x = MainFields /\ x.pc \in {"plt", "top"}
                   /\ x.noreturn = main.noreturn /\ x.then = main.then
    BY <1>1 DEF Fields, MainFields
  <2> HIDE DEF m
  <2> QED BY <2>1, <2>2
<1>4. /\ DOMAIN an' = AnalysisFields /\ an'.insns = {} /\ an'.noretCalls = {}
      /\ DOMAIN graph' = GraphFields /\ graph'.known = main.noreturn
  BY <1>2 DEF EmptyAnalysis, EmptyGraph, AnalysisFields, GraphFields
<1> QED BY <1>1, <1>3, <1>4
       DEF Inv, Fields, Control, NativeSet, CutsAreJustified, CutsAreComplete, SetIsPublished, Done

(* The end of a sweep publishes the set that its walks were taken under, or *)
(* begins another pass.                                                     *)
LEMMA EndSweepInv ==
    ASSUME Inv, EndSweep
    PROVE  Inv' /\ Keeps
<1>1. /\ Fields /\ main.then \in {"pop", "cookies"} /\ main.pc = "views" /\ ~walk.on
      /\ UNCHANGED <<img, graph, walk>>
  BY DEF Inv, Control, EndSweep, At
<1>2. /\ DOMAIN an' = AnalysisFields /\ an'.insns = an.insns /\ an'.noretCalls = an.noretCalls
      /\ an'.seeds = an.seeds /\ an.diags \subseteq an'.diags
      /\ \/ /\ an'.noreturn = IF graph.compat THEN graph.known ELSE main.noreturn
            /\ main' = Goto("done")
         \/ \E pass, next : main' = [main EXCEPT !.pc = "pass", !.pass = pass, !.noreturn = next]
  <2> DEFINE fs(functions) == WithCaptured(functions)
             ds(views) == an.diags \cup {<<f, "oversized">> : f \in Swept \ DOMAIN views}
             swept(views, functions) == [an EXCEPT !.functions = fs(functions), !.diags = ds(views)]
             Pairs(x, next) ==
               \/ /\ an' = [x EXCEPT !.noreturn = PublishedSet(next), !.callees = Callees(x.functions)]
                  /\ main' = Goto("done")
               \/ /\ an' = x
                  /\ main' = [main EXCEPT !.pc = "pass", !.pass = @ + 1, !.noreturn = next]
  <2>1. \E views \in {ViewsOf(Swept)} : \E functions \in {WithFragments(views)} :
           \E next \in {IF graph.compat THEN graph.known
                        ELSE Propagate(img, [an EXCEPT !.functions = functions])} :
              Pairs(swept(views, functions), next)
    BY DEF EndSweep
  <2>2. ASSUME NEW views, NEW functions
        PROVE  LET x == swept(views, functions)
               IN  /\ DOMAIN x = AnalysisFields /\ x.insns = an.insns
                   /\ x.noretCalls = an.noretCalls
                   /\ x.seeds = an.seeds /\ an.diags \subseteq x.diags
    <3>1. an.diags \subseteq ds(views)
      OBVIOUS
    <3> HIDE DEF fs, ds
    <3> QED BY <1>1, <3>1 DEF Fields, AnalysisFields
  <2>3. PICK x, next : /\ DOMAIN x = AnalysisFields
                       /\ x.insns = an.insns /\ x.noretCalls = an.noretCalls
                       /\ x.seeds = an.seeds /\ an.diags \subseteq x.diags
                       /\ graph.compat => next = graph.known
                       /\ Pairs(x, next)
    <3> HIDE DEF swept, Pairs
    <3> QED BY <2>1, <2>2
  <2> QED BY <2>3 DEF PublishedSet, AnalysisFields
<1>3. DOMAIN main' = MainFields /\ main'.then = main.then
  BY <1>1, <1>2 DEF Fields, Goto, MainFields
<1>4. Keeps
  BY <1>1, <1>2, <1>3, NotesGain DEF Keeps, Fields, KeepsImage, KnownGrows, CutsGrow, CodeGrows
<1>5. CASE main'.pc = "pass"
  BY <1>1, <1>2, <1>3, <1>4, <1>5, KeepsInv DEF Inv, Keeps, Control, NativeSet, SetIsPublished, Done
<1>6. CASE main'.pc # "pass"
  <2>1. /\ main' = Goto("done")
        /\ an'.noreturn = IF graph.compat THEN graph.known ELSE main.noreturn
    BY <1>1, <1>2, <1>6 DEF Fields, MainFields
  <2>2. main'.noreturn = main.noreturn
    BY <1>1, <2>1 DEF Fields, Goto, MainFields
  <2>3. Control' /\ NativeSet' /\ SetIsPublished'
    BY <1>1, <1>2, <1>3, <2>1, <2>2 DEF Inv, Control, NativeSet, SetIsPublished, Done
  <2> QED BY <1>4, <2>3, KeepsInv DEF Inv, Keeps
<1> QED BY <1>4, <1>5, <1>6

(* Every step of a pass keeps the decisions; only a new pass begins again.  *)
LEMMA NextInv ==
    ASSUME Inv, [Next]_vars
    PROVE  Inv' /\ (At("pass") \/ Keeps \/ UNCHANGED vars)
<1>1. CASE WalkStep
  <2>1. Keeps /\ KeepsMain /\ walk.on
    BY <1>1, WalkKeeps
  <2>2. ~Done /\ ~Done' /\ main'.then = main.then /\ main'.pc = main.pc /\ main'.noreturn = main.noreturn
    BY <2>1 DEF Inv, Control, KeepsMain, Done
  <2>3. Control' /\ NativeSet' /\ SetIsPublished'
    BY <2>1, <2>2 DEF Inv, Control, NativeSet, SetIsPublished, Keeps, KnownGrows
  <2> QED BY <2>1, <2>3, KeepsInv DEF Inv, Keeps
<1>2. CASE StartPass
  BY <1>2, StartPassInv DEF StartPass
<1>3. CASE EndSweep
  BY <1>3, EndSweepInv
<1>4. CASE SweepStep /\ ~StartPass /\ ~EndSweep
  <2>1. StaysInPass /\ Keeps
    BY <1>4, SweepStays
  <2>2. ~Done' /\ main.pc # "pass" /\ main'.noreturn = main.noreturn
        /\ main'.then \in {"pop", "cookies"}
    BY <2>1 DEF StaysInPass, GoesOn, PassSteps, Done
  <2>3. Control' /\ NativeSet' /\ SetIsPublished'
    BY <2>1, <2>2 DEF Inv, Control, NativeSet, SetIsPublished, Keeps, KnownGrows
  <2> QED BY <2>1, <2>3, KeepsInv DEF Inv, Keeps
<1>5. CASE UNCHANGED vars
  BY <1>5 DEF vars, Inv, Fields, Control, NativeSet, CutsAreJustified, CutsAreComplete,
              SetIsPublished, Done, CallsExecutable, NextOf
<1> QED BY <1>1, <1>2, <1>3, <1>4, <1>5 DEF Next, SweepStep, Finished

(* At the end the published set is the one the cuts were made under.        *)
LEMMA CutsMatch ==
    ASSUME Inv
    PROVE  CutCallsMatchTheSet
<1> SUFFICES ASSUME Done
             PROVE  CutCallsMatchTheSet
  BY DEF CutCallsMatchTheSet
<1>1. an.noreturn = graph.known
  BY DEF Inv, SetIsPublished, NativeSet, Done
<1> QED BY <1>1 DEF Inv, CutsAreJustified, CutsAreComplete, CutCallsMatchTheSet

(* The inductive invariant of recovery.                                     *)
THEOREM Invariance == Spec => []Inv
<1>1. Init => Inv
  BY InitInv
<1>2. Inv /\ [Next]_vars => Inv'
  BY NextInv
<1> QED BY <1>1, <1>2, PTL DEF Spec

(* For every image and every bound: when recovery is done the calls that    *)
(* were cut are calls into the published no-return set, and natively they   *)
(* are all of them (recover_functions, analyze_seeded_image).               *)
THEOREM CutCalls == Spec => []CutCallsMatchTheSet
BY Invariance, CutsMatch, PTL

(* For every image and every bound: within a pass the no-return set and the *)
(* cut calls only grow (FinalizeFunction, ResumeCall, WalkCall).            *)
THEOREM Decisions == Spec => DecisionsAreFinal
<1>1. Inv /\ [Next]_vars =>
          [At("pass") \/ (graph.known \subseteq graph'.known /\ an.noretCalls \subseteq an'.noretCalls)]_vars
  BY NextInv DEF Keeps, KnownGrows, CutsGrow
<1> QED BY <1>1, Invariance, PTL DEF Spec, DecisionsAreFinal

----------------------------------------------------------------------------
(* The queue *)

(* No function is lost on its way from a call through a walk, the queue and *)
(* the loop into the result (NothingIsLost).                                *)
(*                                                                          *)
(* A function whose extent is captured during a walk is in one of these     *)
(* places until the sweep ends: it was started, it waits for good, the walk *)
(* will return it as a callee, or it is queued with a seed that keeps the   *)
(* loop from passing it over.                                               *)

(* The finite sequences, whatever their elements are. *)
IsSeq(s) == s \in Seq(ToSet(s))

WalkFields ==
    {"on", "start", "tasks", "calls", "n", "delayed", "released", "retyping", "failed", "blocks",
     "known", "at", "resume", "caller"}

(* The functions that a walk has still to finish. *)
Finishers(tasks) == {t.a : t \in {u \in tasks : u.kind = "finish"}}
Due(w) == Finishers(ToSet(w.tasks)) \cup DOMAIN w.delayed

(* Walks are taken inside the loop over the queue, the stubs and the waves. *)
Shapes ==
    /\ DOMAIN walk = WalkFields
    /\ IsSeq(walk.tasks) /\ IsSeq(main.pending)
    /\ walk.on \/ walk = NoWalk
    /\ walk.on => main.pc \in {"top", "plt", "wave"}

(* In compatibility mode stubs and waves walk loose code: such a walk knows *)
(* the functions so far, and its root is none.                              *)
LooseIsKnown ==
    /\ main.starts \subseteq Addr
    /\ graph.compat /\ main.pc \in {"plt", "wave"} =>
          /\ main.known \in SUBSET Addr
          /\ walk.on => walk.known \in SUBSET Addr

(* What a walk finishes was started or is returned by it. *)
DueIsReturned == Due(walk) \subseteq main.starts \cup walk.calls

(* A queued call target is not passed over as a mere pattern.               *)
Queued(f) == f \in ToSet(main.pending) /\ "call" \in KindsAt(an.seeds, f)

IsKept(f) == f \in main.starts \cup graph.delayed \cup walk.calls \/ Queued(f)

CapturedIsKept == main.told \/ \A f \in DOMAIN graph.completed \cap img.exec : IsKept(f)

(* Once the budget of functions is used up, the result says so.             *)
ToldIsNoted == main.told => \E d \in an.diags : d[2] = "function budget"

(* A sweep ends only with an empty queue.                                   *)
EndsEmpty ==
    (main.pc \in {"next", "candidate"} /\ main.early) \/ main.pc = "views" => main.pending = <<>>

QInv ==
    /\ Shapes /\ LooseIsKnown /\ DueIsReturned /\ CapturedIsKept /\ ToldIsNoted /\ EndsEmpty
    /\ NothingIsLost

----------------------------------------------------------------------------
(* Sequences *)

(* A set of natural numbers has a least element.                            *)
LEMMA MinIsIn ==
    ASSUME NEW S, S \subseteq Nat, S # {}
    PROVE  Min(S) \in S /\ \A y \in S : Min(S) <= y
<1>1. PICK x \in S : \A y \in S : <<y, x>> \notin OpToRel(<, Nat)
  BY NatLessThanWellFounded, WFMin, Zenon
<1>2. \A y \in S : ~(y < x)
  BY <1>1, Zenon DEF OpToRel
<1>3. \A y \in S : x <= y
  BY <1>2
<1> QED BY <1>3 DEF Min

(* A sequence over any set is a sequence, and has that set's elements.      *)
LEMMA SeqOver ==
    ASSUME NEW S, NEW s \in Seq(S)
    PROVE  IsSeq(s) /\ ToSet(s) \subseteq S /\ DOMAIN s = 1..Len(s) /\ Len(s) \in Nat
<1>1. s \in [1..Len(s) -> S] /\ Len(s) \in Nat /\ DOMAIN s = 1..Len(s)
  BY LenProperties
<1>2. s \in [1..Len(s) -> ToSet(s)]
  BY <1>1 DEF ToSet
<1>3. s \in Seq(ToSet(s))
  BY <1>1, <1>2
<1> QED BY <1>1, <1>3 DEF IsSeq, ToSet

(* Short sequences. *)
LEMMA Short ==
    /\ IsSeq(<<>>) /\ ToSet(<<>>) = {}
    /\ \A a : IsSeq(<<a>>) /\ ToSet(<<a>>) = {a}
    /\ \A a, b : IsSeq(<<a, b>>) /\ ToSet(<<a, b>>) = {a, b}
<1>1. ASSUME NEW a, NEW b
      PROVE  IsSeq(<<a, b>>) /\ ToSet(<<a, b>>) = {a, b}
  BY DEF IsSeq, ToSet
<1>2. ASSUME NEW a
      PROVE  IsSeq(<<a>>) /\ ToSet(<<a>>) = {a}
  BY DEF IsSeq, ToSet
<1>3. IsSeq(<<>>) /\ ToSet(<<>>) = {}
  BY DEF IsSeq, ToSet
<1> QED BY <1>1, <1>2, <1>3

(* Concatenation has the elements of both. *)
LEMMA Concatenation ==
    ASSUME NEW s, NEW t, IsSeq(s), IsSeq(t)
    PROVE  IsSeq(s \o t) /\ ToSet(s \o t) = ToSet(s) \cup ToSet(t)
<1> DEFINE S == ToSet(s) \cup ToSet(t)
<1>1. s \in Seq(S) /\ t \in Seq(S)
  BY SeqMonotonic DEF IsSeq
<1>2. /\ s \o t \in Seq(S)
      /\ Len(s \o t) = Len(s) + Len(t)
      /\ \A i \in 1..Len(s) + Len(t) :
            (s \o t)[i] = IF i <= Len(s) THEN s[i] ELSE t[i - Len(s)]
  BY <1>1, ConcatProperties
<1>3. IsSeq(s \o t) /\ ToSet(s \o t) \subseteq S /\ DOMAIN (s \o t) = 1..Len(s) + Len(t)
  BY <1>2, SeqOver
<1>4. /\ DOMAIN s = 1..Len(s) /\ Len(s) \in Nat
      /\ DOMAIN t = 1..Len(t) /\ Len(t) \in Nat
  BY <1>1, SeqOver
<1>5. ToSet(s) \subseteq ToSet(s \o t)
  <2> SUFFICES ASSUME NEW i \in DOMAIN s
               PROVE  s[i] \in ToSet(s \o t)
    BY DEF ToSet
  <2>1. i \in DOMAIN (s \o t) /\ (s \o t)[i] = s[i]
    BY <1>2, <1>3, <1>4
  <2> QED BY <2>1 DEF ToSet
<1>6. ToSet(t) \subseteq ToSet(s \o t)
  <2> SUFFICES ASSUME NEW i \in DOMAIN t
               PROVE  t[i] \in ToSet(s \o t)
    BY DEF ToSet
  <2>1. i + Len(s) \in DOMAIN (s \o t) /\ (s \o t)[i + Len(s)] = t[i]
    BY <1>2, <1>3, <1>4
  <2> QED BY <2>1 DEF ToSet
<1> QED BY <1>3, <1>5, <1>6

(* The first element and the others. *)
LEMMA HeadAndTail ==
    ASSUME NEW s, IsSeq(s), s # <<>>
    PROVE  /\ IsSeq(Tail(s))
           /\ Head(s) \in ToSet(s)
           /\ ToSet(s) = {Head(s)} \cup ToSet(Tail(s))
<1> DEFINE S == ToSet(s)
<1>1. s \in Seq(S)
  BY DEF IsSeq
<1>2. /\ Head(s) \in S /\ Tail(s) \in Seq(S)
      /\ Len(Tail(s)) = Len(s) - 1
      /\ \A i \in 1..Len(Tail(s)) : Tail(s)[i] = s[i + 1]
  BY <1>1, HeadTailProperties
<1>3. /\ IsSeq(Tail(s)) /\ ToSet(Tail(s)) \subseteq S
      /\ DOMAIN Tail(s) = 1..Len(Tail(s)) /\ DOMAIN s = 1..Len(s) /\ Len(s) \in Nat
  BY <1>1, <1>2, SeqOver
<1>4. Head(s) = s[1]
  BY <1>1
<1>5. S \subseteq {Head(s)} \cup ToSet(Tail(s))
  <2> SUFFICES ASSUME NEW i \in DOMAIN s, i # 1
               PROVE  s[i] \in ToSet(Tail(s))
    BY <1>4 DEF ToSet
  <2>1. i - 1 \in DOMAIN Tail(s) /\ Tail(s)[i - 1] = s[i]
    BY <1>2, <1>3
  <2> QED BY <2>1 DEF ToSet
<1> QED BY <1>2, <1>3, <1>5

(* Appending and reversing. *)
LEMMA Appending ==
    ASSUME NEW s, IsSeq(s), NEW a
    PROVE  IsSeq(Append(s, a)) /\ ToSet(Append(s, a)) = ToSet(s) \cup {a}
<1>1. Append(s, a) = s \o <<a>>
  <2>1. s \in Seq(ToSet(s) \cup {a})
    BY SeqMonotonic DEF IsSeq
  <2> QED BY <2>1, AppendIsConcat
<1> QED BY <1>1, Short, Concatenation

LEMMA Reversing ==
    ASSUME NEW s, IsSeq(s)
    PROVE  IsSeq(Reverse(s))
<1>1. DOMAIN s = 1..Len(s) /\ Len(s) \in Nat /\ \A i \in 1..Len(s) : s[i] \in ToSet(s)
  BY SeqOver DEF IsSeq, ToSet
<1>2. Reverse(s) \in [1..Len(s) -> ToSet(s)]
  BY <1>1 DEF Reverse
<1>3. Reverse(s) \in Seq(ToSet(s))
  BY <1>1, <1>2
<1> QED BY <1>3, SeqOver

(* By counting, where each element has a place of its own each place has an *)
(* element.                                                                 *)
LEMMA PlacesAreFilled ==
    ASSUME NEW in, IsFiniteSet(in), NEW place \in [in -> 1..Cardinality(in)],
           \A a, b \in in : place[a] = place[b] => a = b
    PROVE  \A i \in 1..Cardinality(in) : \E a \in in : place[a] = i
<1> DEFINE n == Cardinality(in)
<1> SUFFICES ASSUME NEW i \in 1..n, \A a \in in : place[a] # i
             PROVE  FALSE
  OBVIOUS
<1> DEFINE others == (1..n) \ {i}
<1>1. n \in Nat /\ IsFiniteSet(1..n) /\ Cardinality(1..n) = n
  BY FS_CardinalityType, FS_Interval
<1>2. IsFiniteSet(others) /\ Cardinality(others) < n
  <2>1. /\ IsFiniteSet((1..n) \ {i})
        /\ Cardinality((1..n) \ {i}) = IF i \in 1..n THEN Cardinality(1..n) - 1 ELSE Cardinality(1..n)
    BY <1>1, FS_RemoveElement, Zenon
  <2> QED BY <1>1, <2>1
<1>3. place \in [in -> others]
  OBVIOUS
<1> HIDE DEF others
<1>4. \E a, b \in in : a # b /\ place[a] = place[b]
  BY <1>2, <1>3, FS_PigeonHole
<1> QED BY <1>4

(* The places in a finite set of integers are those from one to its size.   *)
LEMMA PlacesOf ==
    ASSUME NEW in, IsFiniteSet(in), in \subseteq Int
    PROVE  /\ Cardinality(in) \in Nat
           /\ \A a \in in : Place(in, a) \in 1..Cardinality(in)
           /\ \A a, b \in in : Place(in, a) = Place(in, b) => a = b
           /\ \A i \in 1..Cardinality(in) : \E a \in in : Place(in, a) = i
<1> DEFINE n == Cardinality(in)
           upTo(a) == {b \in in : b <= a}
<1>1. n \in Nat
  BY FS_CardinalityType
<1>2. \A a \in in : a \in Int
  OBVIOUS
<1> HIDE DEF n
<1>3. ASSUME NEW a \in in
      PROVE  Place(in, a) \in 1..n /\ IsFiniteSet(upTo(a)) /\ Place(in, a) = Cardinality(upTo(a))
  <2>1. upTo(a) \in SUBSET in /\ a \in upTo(a)
    OBVIOUS
  <2>2. /\ IsFiniteSet(upTo(a)) /\ Cardinality(upTo(a)) <= n /\ Cardinality(upTo(a)) \in Nat
    BY <2>1, FS_Subset, FS_CardinalityType DEF n
  <2>3. Cardinality(upTo(a)) # 0
    BY <2>1, <2>2, FS_EmptySet
  <2>4. Place(in, a) = Cardinality(upTo(a))
    BY DEF Place
  <2> QED BY <1>1, <2>2, <2>3, <2>4
<1>4. ASSUME NEW a \in in, NEW b \in in, a < b
      PROVE  Place(in, a) # Place(in, b)
  <2>0. a \in Int /\ b \in Int /\ \A c \in in : c \in Int
    OBVIOUS
  <2>1. upTo(a) \in SUBSET upTo(b) /\ b \in upTo(b) /\ b \notin upTo(a)
    <3>1. \A c \in in : c <= a => c <= b
      BY <1>4, <2>0
    <3>2. b <= b /\ ~(b <= a)
      BY <1>4, <2>0
    <3> QED BY <3>1, <3>2
  <2>2. Cardinality(upTo(a)) # Cardinality(upTo(b))
    BY <1>3, <2>1, FS_Subset
  <2> QED BY <1>3, <2>2
<1>5. \A a, b \in in : Place(in, a) = Place(in, b) => a = b
  BY <1>4
<1>6. \A i \in 1..n : \E a \in in : Place(in, a) = i
  <2> DEFINE place == [a \in in |-> Place(in, a)]
  <2>1. place \in [in -> 1..n] /\ \A a, b \in in : place[a] = place[b] => a = b
    BY <1>3, <1>5
  <2>2. \A i \in 1..n : \E a \in in : place[a] = i
    <3>1. place \in [in -> 1..Cardinality(in)] /\ IsFiniteSet(in)
      BY <2>1 DEF n
    <3> HIDE DEF place, upTo
    <3> QED BY <2>1, <3>1, PlacesAreFilled DEF n
  <2> QED BY <2>2
<1> QED BY <1>1, <1>3, <1>5, <1>6 DEF n

(* A set of addresses in ascending order has all of them: each address has  *)
(* a place of its own, so by counting each place has an address.            *)
LEMMA AscendingHasAll ==
    ASSUME NEW set
    PROVE  IsSeq(Ascending(set)) /\ ToSet(Ascending(set)) = set \cap Addr
<1> DEFINE in == set \cap Addr
           n == Cardinality(in)
           s == Ascending(set)
<1>1. IsFiniteSet(in) /\ in \subseteq Int
  <2>1. IsFiniteSet(Addr) /\ Addr \subseteq Int
    BY FS_Interval, ImageAssumption DEF Addr
  <2> QED BY <2>1, FS_Subset
<1>2. s = [i \in 1..n |-> CHOOSE a \in in : Place(in, a) = i]
  BY DEF Ascending
<1> HIDE DEF in, s
<1>3. /\ n \in Nat
      /\ \A a \in in : Place(in, a) \in 1..n
      /\ \A a, b \in in : Place(in, a) = Place(in, b) => a = b
      /\ \A i \in 1..n : \E a \in in : Place(in, a) = i
  BY <1>1, PlacesOf
<1> HIDE DEF n
<1>7. ASSUME NEW i \in 1..n
      PROVE  s[i] \in in /\ Place(in, s[i]) = i
  BY <1>2, <1>3
<1>8. s \in Seq(in)
  BY <1>2, <1>3, <1>7
<1>9. in \subseteq ToSet(s)
  <2> SUFFICES ASSUME NEW a \in in
               PROVE  a \in ToSet(s)
    OBVIOUS
  <2>1. Place(in, a) \in 1..n /\ s[Place(in, a)] = a
    BY <1>3, <1>7
  <2> QED BY <1>2, <2>1 DEF ToSet
<1> QED BY <1>8, <1>9, SeqOver DEF in, s

----------------------------------------------------------------------------
(* The tasks of a walk *)

(* The tasks s finish functions of a set only. *)
Lists(s, fs) == IsSeq(s) /\ Finishers(ToSet(s)) \subseteq fs

(* Two lists of tasks one after the other. *)
LEMMA ListsTogether ==
    ASSUME NEW s, NEW t, NEW fs, Lists(s, fs), Lists(t, fs)
    PROVE  Lists(s \o t, fs)
<1>1. IsSeq(s \o t) /\ ToSet(s \o t) = ToSet(s) \cup ToSet(t)
  BY Concatenation DEF Lists
<1>2. Finishers(ToSet(s) \cup ToSet(t)) = Finishers(ToSet(s)) \cup Finishers(ToSet(t))
  BY DEF Finishers
<1> QED BY <1>1, <1>2 DEF Lists

(* The tasks that are pushed: only FinishFunction finishes.                 *)
LEMMA Pushed ==
    ASSUME NEW fs
    PROVE  /\ \A targets : Lists(Paths(targets), fs)
           /\ \A a : Lists(<<Path(a)>>, fs)
           /\ \A list : Lists(Batch("callback", list), fs)
           /\ \A ops : Lists(<<Pointers(ops)>>, fs)
           /\ \A kind, a : kind # "finish" \/ a \in fs => Lists(<<Task(kind, a)>>, fs)
           /\ Lists(<<>>, fs)
<1>1. Lists(<<>>, fs)
  BY Short DEF Lists, Finishers
<1>2. ASSUME NEW t, t.kind # "finish" \/ t.a \in fs
      PROVE  Lists(<<t>>, fs)
  BY <1>2, Short DEF Lists, Finishers
<1>3. ASSUME NEW kind, NEW list, kind # "finish"
      PROVE  Lists(Batch(kind, list), fs)
  BY <1>1, <1>2, <1>3 DEF Batch
<1>4. \A kind, a : Task(kind, a).kind = kind /\ Task(kind, a).a = a
  BY DEF Task
<1>5. (\A a : Path(a).kind # "finish") /\ (\A ops : Pointers(ops).kind # "finish")
  BY DEF Path, Pointers
<1> QED BY <1>1, <1>2, <1>3, <1>4, <1>5 DEF Paths

(* Pushed in front of others they leave those to finish.                    *)
LEMMA PushedOnto ==
    ASSUME NEW fs, NEW rest, Lists(rest, fs)
    PROVE  /\ \A targets : Lists(Paths(targets) \o rest, fs)
           /\ \A a : Lists(<<Path(a)>> \o rest, fs)
           /\ \A list : Lists(Batch("callback", list) \o rest, fs)
           /\ \A ops : Lists(<<Pointers(ops)>> \o rest, fs)
           /\ \A kind, a : kind # "finish" \/ a \in fs => Lists(<<Task(kind, a)>> \o rest, fs)
<1>1. ASSUME NEW s, Lists(s, fs)
      PROVE  Lists(s \o rest, fs)
  BY <1>1, ListsTogether
<1> QED BY <1>1, Pushed

(* A callee is walked and finished in front of the other tasks.             *)
LEMMA Descending ==
    ASSUME NEW fs, NEW target \in fs, NEW tasks, Lists(tasks, fs)
    PROVE  Lists(Descend(target, tasks), fs)
<1>1. Lists(<<Path(target), Task("finish", target)>>, fs)
  BY Short DEF Lists, Finishers, Path, Task
<1> QED BY <1>1, ListsTogether DEF Descend

(* Many tasks of one kind.                                                  *)
LEMMA ManyTasks ==
    ASSUME NEW fs, NEW kind, NEW s, IsSeq(s), kind # "finish" \/ ToSet(s) \subseteq fs
    PROVE  Lists([i \in DOMAIN s |-> Task(kind, s[i])], fs)
<1> DEFINE t == [i \in DOMAIN s |-> Task(kind, s[i])]
<1>1. DOMAIN s = 1..Len(s) /\ Len(s) \in Nat
  BY SeqOver DEF IsSeq
<1>2. t \in [1..Len(s) -> {Task(kind, a) : a \in ToSet(s)}]
  BY <1>1 DEF ToSet
<1>3. t \in Seq({Task(kind, a) : a \in ToSet(s)})
  BY <1>1, <1>2
<1>4. IsSeq(t) /\ ToSet(t) \subseteq {Task(kind, a) : a \in ToSet(s)}
  BY <1>3, SeqOver
<1> HIDE DEF t
<1>5. \A a : Task(kind, a).kind = kind /\ Task(kind, a).a = a
  BY DEF Task
<1>6. Finishers(ToSet(t)) \subseteq fs
  BY <1>4, <1>5 DEF Finishers
<1>7. Lists(t, fs)
  BY <1>4, <1>6 DEF Lists
<1> QED BY <1>7 DEF t

(* The first task and the others of a walk.                                 *)
LEMMA FirstTask ==
    ASSUME IsSeq(walk.tasks), walk.tasks # <<>>, NEW fs, Due(walk) \subseteq fs
    PROVE  /\ Lists(Rest, fs)
           /\ Head(walk.tasks).kind = "finish" => Head(walk.tasks).a \in Due(walk)
<1>1. /\ IsSeq(Rest) /\ Head(walk.tasks) \in ToSet(walk.tasks)
      /\ ToSet(Rest) \subseteq ToSet(walk.tasks)
  BY HeadAndTail DEF Rest
<1> QED BY <1>1 DEF Lists, Finishers, Due

(* The innermost active function is one that the walk finishes.             *)
LEMMA InnermostIsDue ==
    ASSUME NEW tasks, IsSeq(tasks), Active(tasks) # {}
    PROVE  Innermost(tasks) \in Finishers(ToSet(tasks))
<1>1. DOMAIN tasks \subseteq Nat
  BY SeqOver DEF IsSeq
<1>2. Min(Active(tasks)) \in Active(tasks)
  BY <1>1, MinIsIn DEF Active
<1> QED BY <1>2 DEF Active, Innermost, Finishers, ToSet

(* Waiting functions are functions that the walk finishes.                  *)
LEMMA DelayedIsDue ==
    ASSUME IsSeq(walk.tasks), NEW targets
    PROVE  DOMAIN DelayForBranches(walk.delayed, walk.tasks, targets) \subseteq Due(walk)
<1>1. \A set : DOMAIN Add(walk.delayed, Innermost(walk.tasks), set)
                  = DOMAIN walk.delayed \cup {Innermost(walk.tasks)}
  BY DomainOfInsert DEF Add
<1>2. Active(walk.tasks) # {} => Innermost(walk.tasks) \in Due(walk)
  BY InnermostIsDue DEF Due
<1>3. DelayForBranches(walk.delayed, walk.tasks, targets) = walk.delayed
      \/ (Active(walk.tasks) # {} /\
          \E set : DelayForBranches(walk.delayed, walk.tasks, targets)
                      = Add(walk.delayed, Innermost(walk.tasks), set))
  BY Zenon DEF DelayForBranches
<1> QED BY <1>1, <1>2, <1>3 DEF Due

----------------------------------------------------------------------------
(* The steps of a walk *)

(* A walk goes on: what it is to finish was so before or is a callee, and   *)
(* it captures only what it is to finish.                                   *)
Owes ==
    /\ UNCHANGED <<img, main>>
    /\ DOMAIN walk' = WalkFields /\ walk'.on
    /\ Lists(walk'.tasks, Due(walk) \cup walk'.calls)
    /\ DOMAIN walk'.delayed \subseteq Due(walk)
    /\ walk.calls \subseteq walk'.calls
    /\ \/ walk'.known = walk.known
       \/ walk.known # None /\ \E t \in img.exec : walk'.known = walk.known \cup {t}
    /\ graph'.delayed = graph.delayed
    /\ DOMAIN graph'.completed \subseteq DOMAIN graph.completed \cup Due(walk)

(* The walk has these tasks and callees next. *)
Moves(tasks, calls) ==
    /\ DOMAIN walk' = WalkFields /\ walk'.on
    /\ walk'.tasks = tasks /\ walk'.calls = calls
    /\ walk'.known = walk.known /\ walk'.delayed = walk.delayed

(* Most steps change neither what waits nor what is captured. *)
LEMMA MovesOwe ==
    ASSUME UNCHANGED <<img, main>>,
           graph'.delayed = graph.delayed, DOMAIN graph'.completed = DOMAIN graph.completed,
           NEW tasks, NEW calls, Moves(tasks, calls),
           walk.calls \subseteq calls, Lists(tasks, Due(walk) \cup calls)
    PROVE  Owes
BY DEF Owes, Moves, Due

(* What is assumed of a state in which a walk takes a step. *)
Walkable == Fields /\ DOMAIN walk = WalkFields /\ IsSeq(walk.tasks)

(* Paths, calls that resume, callbacks, locals. *)
LEMMA TasksOwe ==
    ASSUME Walkable, TakePath \/ ResumeCall \/ CallbackTarget \/ FlirtLocal
    PROVE  Owes
<1> DEFINE fs(calls) == Due(walk) \cup calls
<1>1. /\ walk.on /\ walk.tasks # <<>> /\ UNCHANGED <<img, main>>
      /\ DOMAIN walk = WalkFields
  BY DEF Walkable, TakePath, ResumeCall, CallbackTarget, FlirtLocal, AtTask
<1>2. ASSUME NEW calls
      PROVE  Lists(Rest, fs(calls))
  BY <1>1, FirstTask DEF Walkable
<1>3. graph'.delayed = graph.delayed /\ graph'.completed = graph.completed
  <2>1. graph' = graph \/ \E succ : graph' = [graph EXCEPT !.succ = succ]
    BY Zenon DEF TakePath, ResumeCall, CallbackTarget, FlirtLocal
  <2> QED BY <2>1 DEF Walkable, Fields, GraphFields
<1>4. CASE TakePath
  <2>1. \/ \E list, at : walk' = [walk EXCEPT !.tasks = Paths(list) \o Rest, !.at = at,
                                                !.resume = FALSE]
        \/ \E at : walk' = [walk EXCEPT !.tasks = Rest, !.at = at, !.resume = TRUE]
    BY <1>4, Zenon DEF TakePath
  <2>2. PICK tasks : /\ Moves(tasks, walk.calls)
                     /\ tasks = Rest \/ \E list : tasks = Paths(list) \o Rest
    BY <1>1, <2>1 DEF Moves, WalkFields
  <2>3. Lists(tasks, fs(walk.calls))
    BY <1>2, <2>2, PushedOnto
  <2> QED BY <1>1, <1>3, <2>2, <2>3, MovesOwe
<1>5. CASE ResumeCall
  <2>1. \E tasks : /\ walk' = [walk EXCEPT !.tasks = tasks]
                   /\ tasks = Rest \/ \E a : tasks = <<Path(a)>> \o Rest
    BY <1>5 DEF ResumeCall, Remaining
  <2>2. PICK tasks : /\ Moves(tasks, walk.calls)
                     /\ tasks = Rest \/ \E a : tasks = <<Path(a)>> \o Rest
    BY <1>1, <2>1 DEF Moves, WalkFields
  <2>3. Lists(tasks, fs(walk.calls))
    BY <1>2, <2>2, PushedOnto
  <2> QED BY <1>1, <1>3, <2>2, <2>3, MovesOwe
<1>6. CASE CallbackTarget
  <2> DEFINE list == Tail(Head(walk.tasks).list)
             later == Batch("callback", list) \o Rest
             t == Head(walk.tasks).list[1][1]
  <2>1. \/ walk' = [walk EXCEPT !.tasks = later]
        \/ walk' = [walk EXCEPT !.calls = @ \cup {t}, !.tasks = Descend(t, later)]
    BY <1>6 DEF CallbackTarget, Remaining
  <2>2. \A calls : Lists(later, fs(calls))
    BY <1>2, PushedOnto
  <2> HIDE DEF later, t
  <2>3. CASE walk' = [walk EXCEPT !.tasks = later]
    <3>1. Moves(later, walk.calls)
      BY <1>1, <2>3 DEF Moves, WalkFields
    <3> QED BY <1>1, <1>3, <2>2, <3>1, MovesOwe
  <2>4. CASE walk' = [walk EXCEPT !.calls = @ \cup {t}, !.tasks = Descend(t, later)]
    <3>1. Moves(Descend(t, later), walk.calls \cup {t})
      BY <1>1, <2>4 DEF Moves, WalkFields
    <3>2. Lists(Descend(t, later), fs(walk.calls \cup {t}))
      BY <2>2, Descending
    <3> QED BY <1>1, <1>3, <3>1, <3>2, MovesOwe
  <2> QED BY <2>1, <2>3, <2>4
<1>7. CASE FlirtLocal
  <2> DEFINE f == Head(walk.tasks).a
  <2>1. \/ walk' = [walk EXCEPT !.tasks = Rest]
        \/ walk' = [walk EXCEPT !.calls = @ \cup {f}, !.tasks = Descend(f, Rest)]
    BY <1>7 DEF FlirtLocal, Remaining
  <2> HIDE DEF f
  <2>3. CASE walk' = [walk EXCEPT !.tasks = Rest]
    <3>1. Moves(Rest, walk.calls)
      BY <1>1, <2>3 DEF Moves, WalkFields
    <3> QED BY <1>1, <1>2, <1>3, <3>1, MovesOwe
  <2>4. CASE walk' = [walk EXCEPT !.calls = @ \cup {f}, !.tasks = Descend(f, Rest)]
    <3>1. Moves(Descend(f, Rest), walk.calls \cup {f})
      BY <1>1, <2>4 DEF Moves, WalkFields
    <3>2. Lists(Descend(f, Rest), fs(walk.calls \cup {f}))
      BY <1>2, Descending
    <3> QED BY <1>1, <1>3, <3>1, <3>2, MovesOwe
  <2> QED BY <2>1, <2>3, <2>4
<1> QED BY <1>4, <1>5, <1>6, <1>7

(* The record r of a function f that is being finished: only f is captured  *)
(* and the tasks finish functions of fs.                                    *)
Captures(r, f, fs) ==
    /\ DOMAIN r = {"an", "graph", "ptr", "tasks", "blocks", "retyping"}
    /\ Lists(r.tasks, fs)
    /\ DOMAIN r.graph = GraphFields
    /\ r.graph.delayed = graph.delayed
    /\ DOMAIN r.graph.completed \subseteq DOMAIN graph.completed \cup {f}

(* The extent is stored for f alone. *)
LEMMA ExtentCaptures ==
    ASSUME NEW r, NEW f, NEW fs, Captures(r, f, fs), NEW view
    PROVE  Captures(WithExtent(r, f, view), f, fs)
<1> DEFINE noted == Diagnose(r.an, f, "extent not preserved")
           blocks == Installed(view.blocks, Deleted(r, f))
           gone == IF Deleted(r, f) = {} THEN {} ELSE {Min(Deleted(r, f))}
           an1 == [r.an EXCEPT !.functions = Insert(@, f, blocks),
                               !.diags = @ \cup {<<a, "deleted block">> : a \in gone}]
           graph1 == [r.graph EXCEPT !.completed = IF f \in DOMAIN @ THEN @ ELSE Insert(@, f, blocks)]
<1>1. WithExtent(r, f, view) = IF view.oversized THEN [r EXCEPT !.an = noted]
                               ELSE [r EXCEPT !.an = an1, !.graph = graph1]
  BY Zenon DEF WithExtent
<1>2. /\ DOMAIN graph1 = GraphFields /\ graph1.delayed = graph.delayed
      /\ DOMAIN graph1.completed \subseteq DOMAIN graph.completed \cup {f}
  <2> HIDE DEF blocks
  <2>1. DOMAIN Insert(r.graph.completed, f, blocks) = DOMAIN r.graph.completed \cup {f}
    BY DomainOfInsert
  <2> QED BY <2>1 DEF Captures, GraphFields
<1> HIDE DEF noted, an1, graph1
<1>3. Captures([r EXCEPT !.an = noted], f, fs)
  BY DEF Captures
<1>4. Captures([r EXCEPT !.an = an1, !.graph = graph1], f, fs)
  BY <1>2 DEF Captures
<1> QED BY <1>1, <1>3, <1>4, Zenon

(* Calling analysis leaves tasks for f and its callees, and may take the    *)
(* extent of f back.                                                        *)
LEMMA CallsCapture ==
    ASSUME NEW r, NEW f, NEW fs, f \in fs, Captures(r, f, fs)
    PROVE  Captures(AnalyzeCalls(r, f), f, fs)
<1> DEFINE d == Discover(img, r.an, r.ptr, f, graph.known)
           q == ResolveSwitches(r.an, d.xrefs, d.switches)
           last == IF q.arms = <<>> THEN <<Task("finalize", f)>>
                   ELSE Paths(q.arms) \o <<Task("finish", f)>>
           left == Batch("callback", d.targets) \o <<Pointers(d.operands)>> \o last
           an1 == [r.an EXCEPT !.xrefs = q.xrefs, !.diags = @ \cup d.diags]
           graph1 == [r.graph EXCEPT !.succ = q.succ, !.tables = q.tables,
                                     !.completed = IF q.arms = <<>> THEN @ ELSE Without(@, f)]
           found == [r EXCEPT !.an = an1, !.graph = graph1, !.ptr = d.p, !.tasks = left \o @]
           open == [r EXCEPT !.tasks = <<Task("finalize", f)>> \o @]
<1>1. AnalyzeCalls(r, f) = IF graph.compat /\ CallingEnabled(img) THEN found ELSE open
  BY Zenon DEF AnalyzeCalls
<1>2. Lists(r.tasks, fs)
  BY DEF Captures
<1>3. Lists(left \o r.tasks, fs)
  <2> HIDE DEF d, q
  <2>1. Lists(last, fs)
    BY Pushed, PushedOnto
  <2>2. Lists(Batch("callback", d.targets), fs) /\ Lists(<<Pointers(d.operands)>>, fs)
    BY Pushed
  <2> HIDE DEF last
  <2>3. Lists(left, fs)
    BY <2>1, <2>2, ListsTogether
  <2> QED BY <1>2, <2>3, ListsTogether
<1>4. /\ DOMAIN graph1 = GraphFields /\ graph1.delayed = graph.delayed
      /\ DOMAIN graph1.completed \subseteq DOMAIN graph.completed \cup {f}
  <2> HIDE DEF d, q
  <2>1. DOMAIN Without(r.graph.completed, f) \subseteq DOMAIN r.graph.completed
    BY DEF Without
  <2> QED BY <2>1 DEF Captures, GraphFields
<1>5. Captures(found, f, fs)
  <2> HIDE DEF d, q, left, an1, graph1
  <2> QED BY <1>3, <1>4 DEF Captures
<1>6. Captures(open, f, fs)
  <2>1. Lists(<<Task("finalize", f)>> \o r.tasks, fs)
    BY <1>2, PushedOnto
  <2> QED BY <2>1 DEF Captures
<1> QED BY <1>1, <1>5, <1>6, Zenon

(* FinishFunction, whichever of its outcomes. *)
LEMMA FinishCaptures ==
    ASSUME Fields, NEW f, NEW w, NEW fs, f \in fs, Lists(Rest, fs)
    PROVE  Captures(FinishPrepared(f, w), f, fs)
<1> DEFINE an1 == Prepared(Ordered(f), w)
           r == Finishing(an1, w.p, Insert(walk.blocks, f, w.seen))
           view == IF w.result = "failed" THEN View(<<>>) ELSE BuildFunctionView(img, r.an, graph, f, FALSE)
           more == [r EXCEPT !.retyping = @ \cup {f},
                             !.tasks = <<Path(w.at), Task("finish", f)>> \o @]
<1>1. Captures(r, f, fs)
  <2> HIDE DEF an1
  <2> QED BY DEF Finishing, Captures, Fields
<1>2. FinishPrepared(f, w) = IF w.result = "retype" THEN more ELSE CompleteFunction(r, f, view)
  BY DEF FinishPrepared
<1> HIDE DEF an1, r
<1>3. Captures(more, f, fs)
  <2>1. Lists(<<Path(w.at), Task("finish", f)>>, fs)
    BY Short DEF Lists, Finishers, Path, Task
  <2>2. Lists(<<Path(w.at), Task("finish", f)>> \o r.tasks, fs)
    BY <1>1, <2>1, ListsTogether DEF Captures
  <2> QED BY <1>1, <2>2 DEF Captures
<1>4. Captures(CompleteFunction(r, f, view), f, fs)
  <2> DEFINE x == WithExtent(r, f, view)
             padded == [x EXCEPT !.ptr = FunctionCompleted(img, x.an, x.ptr, f)]
  <2>1. CompleteFunction(r, f, view) = AnalyzeCalls(padded, f)
    BY Zenon DEF CompleteFunction
  <2>2. Captures(x, f, fs)
    BY <1>1, ExtentCaptures
  <2>3. Captures(padded, f, fs)
    <3> HIDE DEF x
    <3> QED BY <2>2 DEF Captures
  <2> HIDE DEF padded
  <2> QED BY <2>1, <2>3, CallsCapture
<1> QED BY <1>2, <1>3, <1>4, Zenon

(* A function is finished. *)
LEMMA FinishOwes ==
    ASSUME Walkable, FinishFunction
    PROVE  Owes
<1> DEFINE f == Head(walk.tasks).a
<1>1. /\ walk.on /\ walk.tasks # <<>> /\ UNCHANGED <<img, main>>
      /\ DOMAIN walk = WalkFields /\ Fields /\ Head(walk.tasks).kind = "finish"
  BY DEF Walkable, FinishFunction, AtTask
<1>2. f \in Due(walk) /\ Lists(Rest, Due(walk))
  BY <1>1, FirstTask DEF Walkable
<1>3. \/ walk' = Remaining(Rest) /\ UNCHANGED graph
      \/ \E w : LET r == FinishPrepared(f, w)
                IN  /\ graph' = r.graph
                    /\ walk' = [walk EXCEPT !.tasks = r.tasks, !.blocks = r.blocks,
                                            !.retyping = r.retyping, !.failed = @ \ {f}]
  <2> DEFINE unprepared == [Preparation(f, an, ptr, BlocksSeen(f)) EXCEPT !.result = "failed"]
             prepared == IF f \in walk.failed THEN unprepared
                         ELSE PrepareFunctionCode(img, Ordered(f), graph, ptr, f, BlocksSeen(f))
  <2>1. \/ walk' = Remaining(Rest) /\ UNCHANGED graph
        \/ \E r \in {FinishPrepared(f, prepared)} :
              /\ graph' = r.graph
              /\ walk' = [walk EXCEPT !.tasks = r.tasks, !.blocks = r.blocks,
                                      !.retyping = r.retyping, !.failed = @ \ {f}]
    BY DEF FinishFunction
  <2> HIDE DEF f, prepared
  <2> QED BY <2>1
<1>4. CASE walk' = Remaining(Rest) /\ UNCHANGED graph
  <2>1. Moves(Rest, walk.calls)
    BY <1>1, <1>4 DEF Moves, WalkFields, Remaining
  <2>2. Lists(Rest, Due(walk) \cup walk.calls)
    BY <1>2 DEF Lists
  <2> QED BY <1>1, <1>4, <2>1, <2>2, MovesOwe
<1>5. ASSUME NEW r, Captures(r, f, Due(walk)), graph' = r.graph,
             walk' = [walk EXCEPT !.tasks = r.tasks, !.blocks = r.blocks,
                                  !.retyping = r.retyping, !.failed = @ \ {f}]
      PROVE  Owes
  <2>1. Moves(r.tasks, walk.calls)
    BY <1>1, <1>5 DEF Moves, WalkFields
  <2>2. Lists(r.tasks, Due(walk) \cup walk.calls)
    BY <1>5 DEF Captures, Lists
  <2> QED BY <1>1, <1>2, <1>5, <2>1, <2>2 DEF Owes, Moves, Captures, Due
<1>6. \A w : Captures(FinishPrepared(f, w), f, Due(walk))
  BY <1>1, <1>2, FinishCaptures
<1> HIDE DEF f
<1> QED BY <1>3, <1>4, <1>5, <1>6

(* FollowPointers, one operand. *)
LEMMA FollowOwes ==
    ASSUME Walkable, FollowPointers
    PROVE  Owes
<1> DEFINE ops == Head(walk.tasks).operands
           tail == <<Pointers(Tail(ops))>> \o Rest
           later == IF Len(ops) = 1 THEN Rest ELSE tail
<1>1. /\ walk.on /\ walk.tasks # <<>> /\ UNCHANGED <<img, main, graph>>
      /\ DOMAIN walk = WalkFields
  BY DEF Walkable, FollowPointers, AtTask
<1>2. \A calls : LET fs == Due(walk) \cup calls
                 IN  Lists(Rest, fs) /\ Lists(tail, fs) /\ Lists(later, fs)
  <2> TAKE calls
  <2>1. Lists(Rest, Due(walk) \cup calls)
    BY <1>1, FirstTask DEF Walkable
  <2>2. Lists(tail, Due(walk) \cup calls)
    BY <2>1, PushedOnto
  <2> QED BY <2>1, <2>2
<1>3. \/ \E tasks \in {Rest, later} : walk' = [walk EXCEPT !.tasks = tasks]
      \/ \E t : walk' = [walk EXCEPT !.calls = @ \cup {t}, !.tasks = Descend(t, tail)]
  <2> DEFINE seen == ObserveInstruction(img, an, ptr, ops[1][1], FALSE).p
  <2>1. \/ walk' = Remaining(Rest)
        \/ \E r \in {FollowObservedPointer(img, an, seen, ops[1][2], graph.known)} :
              \/ walk' = Remaining(later)
              \/ walk' = [walk EXCEPT !.calls = @ \cup {r.target}, !.tasks = Descend(r.target, tail)]
    BY DEF FollowPointers
  <2> HIDE DEF seen, later, tail
  <2> QED BY <2>1 DEF Remaining
<1> HIDE DEF tail, later
<1>4. ASSUME NEW tasks \in {Rest, later}, walk' = [walk EXCEPT !.tasks = tasks]
      PROVE  Owes
  <2>1. Moves(tasks, walk.calls)
    BY <1>1, <1>4 DEF Moves, WalkFields
  <2> QED BY <1>1, <1>2, <2>1, MovesOwe
<1>5. ASSUME NEW t, walk' = [walk EXCEPT !.calls = @ \cup {t}, !.tasks = Descend(t, tail)]
      PROVE  Owes
  <2>1. Moves(Descend(t, tail), walk.calls \cup {t})
    BY <1>1, <1>5 DEF Moves, WalkFields
  <2>2. Lists(Descend(t, tail), Due(walk) \cup (walk.calls \cup {t}))
    BY <1>2, Descending
  <2> QED BY <1>1, <2>1, <2>2, MovesOwe
<1> QED BY <1>3, <1>4, <1>5

(* The locals of a recognised function become tasks. *)
LEMMA FinalizeOwes ==
    ASSUME Walkable, FinalizeFunction
    PROVE  Owes
<1> DEFINE f == Head(walk.tasks).a
           locals == Ascending(FlirtLocals(f))
           first == [i \in DOMAIN locals |-> Task("local", locals[i])]
           release == IF f \in walk.released THEN <<>> ELSE <<Task("release", f)>>
           tasks == first \o release \o Rest
<1>1. /\ walk.on /\ walk.tasks # <<>> /\ UNCHANGED <<img, main>>
      /\ DOMAIN walk = WalkFields
  BY DEF Walkable, FinalizeFunction, AtTask
<1>2. graph'.delayed = graph.delayed /\ graph'.completed = graph.completed
  <2>1. \E known, done : graph' = [graph EXCEPT !.known = known, !.recognized = done]
    <3>1. graph' = [graph EXCEPT !.known = Learned(f),
                                 !.recognized = @ \cup ({f} \cap DOMAIN img.locals)]
      BY DEF FinalizeFunction
    <3> QED BY <3>1
  <2> QED BY <2>1 DEF Walkable, Fields, GraphFields
<1>3. walk' = [walk EXCEPT !.released = @ \ {f}, !.tasks = tasks]
  BY DEF FinalizeFunction
<1>4. Lists(tasks, Due(walk))
  <2>1. Lists(first, Due(walk))
    BY AscendingHasAll, ManyTasks
  <2>2. Lists(release, Due(walk))
    BY Pushed
  <2>3. Lists(Rest, Due(walk))
    BY <1>1, FirstTask DEF Walkable
  <2> HIDE DEF first, release
  <2> QED BY <2>1, <2>2, <2>3, ListsTogether
<1> HIDE DEF tasks
<1>5. Moves(tasks, walk.calls) /\ Lists(tasks, Due(walk) \cup walk.calls)
  BY <1>1, <1>3, <1>4 DEF Moves, WalkFields, Lists
<1> QED BY <1>1, <1>2, <1>5, MovesOwe

(* Functions that waited are finished. *)
LEMMA ReleaseOwes ==
    ASSUME Walkable, ReleaseDelayed
    PROVE  Owes
<1> DEFINE f == Head(walk.tasks).a
           waits == [g \in DOMAIN walk.delayed |-> walk.delayed[g] \ {f}]
           ready == {g \in DOMAIN waits : waits[g] = {}}
           left == [g \in DOMAIN waits \ ready |-> waits[g]]
           order == Ascending(ready)
           first == [i \in DOMAIN order |-> Task("finish", order[i])]
           tasks == first \o Rest
<1>1. /\ walk.on /\ walk.tasks # <<>> /\ UNCHANGED <<img, main, graph>>
      /\ DOMAIN walk = WalkFields
  BY DEF Walkable, ReleaseDelayed, AtTask
<1>2. walk' = [walk EXCEPT !.delayed = left, !.released = @ \cup ready, !.tasks = tasks]
  BY Zenon DEF ReleaseDelayed
<1>3. ready \subseteq Due(walk) /\ DOMAIN left \subseteq Due(walk)
  BY DEF Due
<1>4. Lists(tasks, Due(walk))
  <2>1. IsSeq(order) /\ ToSet(order) \subseteq Due(walk)
    BY <1>3, AscendingHasAll
  <2> HIDE DEF order
  <2>2. Lists(first, Due(walk))
    BY <2>1, ManyTasks
  <2>3. Lists(Rest, Due(walk))
    BY <1>1, FirstTask DEF Walkable
  <2> HIDE DEF first
  <2> QED BY <2>2, <2>3, ListsTogether
<1> HIDE DEF tasks, left, ready
<1> QED BY <1>1, <1>2, <1>3, <1>4 DEF Owes, Lists, WalkFields

(* A path ends. *)
LEMMA PathOwes ==
    ASSUME Walkable, StopPath \/ RejectInstruction
    PROVE  Owes
<1>1. /\ walk.on /\ UNCHANGED <<img, main, graph>> /\ DOMAIN walk = WalkFields
      /\ \E failed : walk' = [walk EXCEPT !.at = None, !.failed = failed]
  BY DEF Walkable, StopPath, RejectInstruction, Walking, Passes
<1>2. Moves(walk.tasks, walk.calls)
  BY <1>1 DEF Moves, WalkFields
<1>3. Lists(walk.tasks, Due(walk) \cup walk.calls)
  BY DEF Walkable, Lists, Due
<1> QED BY <1>1, <1>2, <1>3, MovesOwe

----------------------------------------------------------------------------
(* The step of a walk over an instruction *)

(* A walk that goes on. *)
LEMMA GoingOn ==
    ASSUME Walkable
    PROVE  \A at, tasks : LET w == GoOn(at, tasks)
                          IN  /\ DOMAIN w = WalkFields /\ (walk.on => w.on)
                              /\ w.tasks = tasks /\ w.calls = walk.calls
                              /\ w.known = walk.known /\ w.delayed = walk.delayed
BY DEF Walkable, GoOn, Counted, WalkFields

(* Where an instruction goes is no matter of what is captured. *)
LEMMA EdgesCapture ==
    ASSUME Fields, NEW list, NEW fns,
           graph' = Edges(list) \/ graph' = [Edges(list) EXCEPT !.importFns = fns]
    PROVE  graph'.delayed = graph.delayed /\ graph'.completed = graph.completed
BY DEF Fields, Edges, GraphFields

(* Old tasks, alone or with new paths. *)
LEMMA QueuedTasks ==
    ASSUME Walkable, NEW calls
    PROVE  LET fs == Due(walk) \cup calls
           IN  Lists(walk.tasks, fs) /\ \A targets : Lists(Queue(targets, walk.tasks), fs)
<1>1. Lists(walk.tasks, Due(walk) \cup calls)
  BY DEF Walkable, Lists, Due
<1>2. \A targets : Lists(Paths(targets), Due(walk) \cup calls)
  BY Pushed
<1> QED BY <1>1, <1>2, ListsTogether DEF Queue

(* An instruction that does not branch. *)
LEMMA StraightOwes ==
    ASSUME Walkable, walk.on, UNCHANGED <<img, main>>, NEW list, graph' = Edges(list),
           NEW at, NEW tasks, tasks = walk.tasks \/ \E targets : tasks = Queue(targets, walk.tasks),
           walk' = GoOn(at, tasks)
    PROVE  Owes
<1>1. Moves(tasks, walk.calls)
  BY GoingOn DEF Moves
<1>2. Lists(tasks, Due(walk) \cup walk.calls)
  BY QueuedTasks
<1> QED BY <1>1, <1>2, EdgesCapture, MovesOwe DEF Walkable

(* A branch, for which the innermost function may have to wait. *)
LEMMA BranchOwes ==
    ASSUME Walkable, walk.on, UNCHANGED <<img, main>>,
           graph'.delayed = graph.delayed, DOMAIN graph'.completed \subseteq DOMAIN graph.completed,
           NEW targets, NEW set, NEW waits \in {walk.delayed, DelayForBranches(walk.delayed, walk.tasks, set)},
           walk' = [GoOn(None, Queue(targets, walk.tasks)) EXCEPT !.delayed = waits]
    PROVE  Owes
<1> DEFINE tasks == Queue(targets, walk.tasks)
<1>1. DOMAIN waits \subseteq Due(walk)
  BY DelayedIsDue DEF Walkable, Due
<1>2. Lists(tasks, Due(walk) \cup walk.calls)
  BY QueuedTasks
<1> HIDE DEF tasks
<1>3. /\ DOMAIN walk' = WalkFields /\ walk'.on /\ walk'.tasks = tasks
      /\ walk'.calls = walk.calls /\ walk'.known = walk.known /\ walk'.delayed = waits
  BY GoingOn DEF tasks, WalkFields
<1> QED BY <1>1, <1>2, <1>3 DEF Owes

(* A call: its target is a callee of the walk. *)
LEMMA CallOwes ==
    ASSUME Walkable, walk.on, UNCHANGED <<img, main>>, NEW r, WalkCall(r)
    PROVE  Owes
<1> DEFINE a == walk.at
           t == CallTarget(a)
           resume == IF EndsFlow(a) THEN <<>> ELSE <<Task("call", a)>>
           down == Descend(t, resume \o walk.tasks)
           calls == IF IsProcedural(a) THEN walk.calls \cup {t} ELSE walk.calls
           isNew == Loose /\ IsProcedural(a) /\ IsExecutable(img, t) /\ IsFirstKnown(t)
           known == IF isNew THEN walk.known \cup {t} ELSE walk.known
           to == IF EndsFlow(a) THEN None ELSE NextOf(img, a)
<1>1. walk' = [(IF Descends(a) THEN GoOn(None, down) ELSE GoOn(to, walk.tasks))
               EXCEPT !.calls = IF IsProcedural(a) THEN @ \cup {t} ELSE @, !.known = known]
  BY DEF WalkCall
<1>2. graph'.delayed = graph.delayed /\ graph'.completed = graph.completed
  <2> DEFINE fork == Edges(IF EndsFlow(a) THEN <<>> ELSE <<Edge(NextOf(img, a), "fallthrough")>>)
             fns == IF Loose /\ Descends(a) THEN fork.importFns \cup {t} ELSE fork.importFns
  <2>1. graph' = [fork EXCEPT !.importFns = fns]
    BY DEF WalkCall
  <2> HIDE DEF fns
  <2> QED BY <2>1, EdgesCapture DEF Walkable
<1>3. /\ DOMAIN walk' = WalkFields /\ walk'.on
      /\ walk'.calls = calls /\ walk'.known = known /\ walk'.delayed = walk.delayed
      /\ walk'.tasks = IF Descends(a) THEN down ELSE walk.tasks
  <2> HIDE DEF t, down, known, to
  <2>1. PICK w \in {GoOn(None, down), GoOn(to, walk.tasks)} :
           /\ walk' = [w EXCEPT !.calls = IF IsProcedural(a) THEN @ \cup {t} ELSE @, !.known = known]
           /\ w = IF Descends(a) THEN GoOn(None, down) ELSE GoOn(to, walk.tasks)
    BY <1>1
  <2>2. /\ DOMAIN w = WalkFields /\ w.on /\ w.calls = walk.calls /\ w.delayed = walk.delayed
        /\ w.tasks = IF Descends(a) THEN down ELSE walk.tasks
    BY <2>1, GoingOn
  <2> QED BY <2>1, <2>2 DEF WalkFields
<1>4. Lists(IF Descends(a) THEN down ELSE walk.tasks, Due(walk) \cup calls)
  <2> HIDE DEF calls
  <2>1. Lists(resume, Due(walk) \cup calls) /\ Lists(walk.tasks, Due(walk) \cup calls)
    BY Pushed, QueuedTasks
  <2>2. Lists(resume \o walk.tasks, Due(walk) \cup calls)
    BY <2>1, ListsTogether
  <2>3. Descends(a) => t \in calls
    BY DEF Descends, calls
  <2>4. Descends(a) => Lists(down, Due(walk) \cup calls)
    <3> HIDE DEF t, resume
    <3> QED BY <2>2, <2>3, Descending
  <2> QED BY <2>1, <2>4
<1>5. known = walk.known \/ (walk.known # None /\ \E x \in img.exec : known = walk.known \cup {x})
  BY DEF Loose, IsExecutable
<1>6. walk.calls \subseteq calls
  OBVIOUS
<1> HIDE DEF known, calls, down
<1>7. Lists(walk'.tasks, Due(walk) \cup walk'.calls)
  BY <1>3, <1>4
<1> QED BY <1>2, <1>3, <1>5, <1>6, <1>7 DEF Owes, Due

(* An indirect jump: a separated table changes extents, it adds none. *)
LEMMA IndirectOwes ==
    ASSUME Walkable, walk.on, UNCHANGED <<img, main>>, NEW r, WalkIndirect(r)
    PROVE  Owes
<1> DEFINE a == walk.at
<1>1. PICK arms, s : TakeArms(r, arms, s)
  BY DEF WalkIndirect
<1> DEFINE ts == arms.targets
           pointer == ts # <<>> /\ IsPointerJump(img, img.at[a])
           v == IF pointer THEN <<>> ELSE [i \in DOMAIN ts |-> Edge(ts[i], "table")]
           slots == IF graph.compat /\ ts # <<>> /\ ~pointer
                    THEN TableSlots(img, img.at[a], ts) ELSE <<>>
           t == graph.tables \o arms.locs \o slots
           c == [f \in DOMAIN graph.completed |-> s.completed[f]]
           w == GoOn(None, Queue(ts, walk.tasks))
           waits == IF graph.compat THEN DelayForBranches(w.delayed, walk.tasks, ToSet(ts))
                    ELSE w.delayed
<1>2. graph' = [graph EXCEPT !.succ = Insert(s.succ, a, v), !.completed = c, !.tables = t]
  BY <1>1 DEF TakeArms
<1>3. graph'.delayed = graph.delayed /\ DOMAIN graph'.completed = DOMAIN graph.completed
  <2>1. DOMAIN c = DOMAIN graph.completed
    OBVIOUS
  <2> HIDE DEF v, t, c
  <2> QED BY <1>2, <2>1 DEF Walkable, Fields, GraphFields
<1>4. walk' = [w EXCEPT !.delayed = waits]
  BY <1>1 DEF TakeArms
<1>5. waits \in {walk.delayed, DelayForBranches(walk.delayed, walk.tasks, ToSet(ts))}
  <2>1. w.delayed = walk.delayed
    BY GoingOn
  <2> HIDE DEF w
  <2> QED BY <2>1
<1> HIDE DEF waits
<1> QED BY <1>3, <1>4, <1>5, BranchOwes

(* The seven kinds of flow. *)
LEMMA FlowOwes ==
    ASSUME Walkable, walk.on, UNCHANGED <<img, main>>, NEW r, WalkFlow(r)
    PROVE  Owes
<1>1. CASE WalkNext(r) \/ WalkThunk(r) \/ WalkReturn(r)
  <2>1. (\E list : graph' = Edges(list)) /\ \E at : walk' = GoOn(at, walk.tasks)
    BY <1>1 DEF WalkNext, WalkThunk, WalkReturn
  <2> QED BY <2>1, StraightOwes
<1>2. CASE WalkCall(r)
  BY <1>2, CallOwes
<1>3. CASE WalkConditional(r)
  <2> DEFINE op == img.at[walk.at]
             next == NextOf(img, walk.at)
             waits == IF graph.compat /\ op.direct # None
                      THEN DelayForBranches(walk.delayed, walk.tasks, {op.direct, next})
                      ELSE walk.delayed
             targets == IF op.direct = None THEN <<next>> ELSE <<next, op.direct>>
             list == IF op.direct = None THEN <<Edge(next, "fallthrough")>>
                     ELSE <<Edge(next, "fallthrough"), Edge(op.direct, "branch")>>
  <2>1. graph' = Edges(list) /\ walk' = [GoOn(None, Queue(targets, walk.tasks)) EXCEPT !.delayed = waits]
    BY <1>3 DEF WalkConditional
  <2>2. waits \in {walk.delayed, DelayForBranches(walk.delayed, walk.tasks, {op.direct, next})}
    OBVIOUS
  <2> HIDE DEF waits, list
  <2>3. graph'.delayed = graph.delayed /\ graph'.completed = graph.completed
    BY <2>1, EdgesCapture DEF Walkable
  <2> QED BY <2>1, <2>2, <2>3, BranchOwes
<1>4. CASE WalkJump(r)
  <2> DEFINE t == img.at[walk.at].direct
             w == GoOn(None, Queue(<<t>>, walk.tasks))
             waits == IF graph.compat THEN DelayForBranches(w.delayed, walk.tasks, {t}) ELSE w.delayed
  <2>1. \E list : graph' = Edges(list)
    BY <1>4 DEF WalkJump
  <2>2. graph'.delayed = graph.delayed /\ graph'.completed = graph.completed
    BY <2>1, EdgesCapture DEF Walkable
  <2>3. walk' = GoOn(None, walk.tasks) \/ walk' = [w EXCEPT !.delayed = waits]
    BY <1>4 DEF WalkJump
  <2>4. waits \in {walk.delayed, DelayForBranches(walk.delayed, walk.tasks, {t})}
    <3>1. w.delayed = walk.delayed
      BY GoingOn
    <3> HIDE DEF w
    <3> QED BY <3>1
  <2> HIDE DEF waits
  <2>5. CASE walk' = GoOn(None, walk.tasks)
    BY <2>1, <2>5, StraightOwes
  <2>6. CASE walk' = [w EXCEPT !.delayed = waits]
    BY <2>2, <2>4, <2>6, BranchOwes
  <2> QED BY <2>3, <2>5, <2>6
<1>5. CASE WalkIndirect(r)
  BY <1>5, IndirectOwes
<1> QED BY <1>1, <1>2, <1>3, <1>4, <1>5 DEF WalkFlow

(* The instruction is suspended or walked. *)
LEMMA InstructionOwes ==
    ASSUME Walkable, WalkInstruction
    PROVE  Owes
<1> DEFINE r == Record(walk.at)
<1>1. /\ walk.on /\ UNCHANGED <<img, main>>
      /\ SuspendOpcode(r) \/ WalkFlow(r)
  BY DEF WalkInstruction, Passes, Walking
<1> HIDE DEF r
<1>2. CASE SuspendOpcode(r)
  <2> DEFINE calls == walk.calls \cup {r.target}
             tasks == Descend(r.target, <<Task("opcode", walk.at)>> \o walk.tasks)
  <2>1. graph' = graph
    BY <1>2 DEF SuspendOpcode
  <2>2. Moves(tasks, calls)
    <3>1. walk' = [Counted EXCEPT !.calls = @ \cup {r.target}, !.at = None,
                      !.tasks = Descend(r.target, <<Task("opcode", walk.at)>> \o @)]
      BY <1>2 DEF SuspendOpcode
    <3>2. /\ DOMAIN Counted = WalkFields /\ Counted.on
          /\ Counted.tasks = walk.tasks /\ Counted.calls = walk.calls
          /\ Counted.known = walk.known /\ Counted.delayed = walk.delayed
      BY <1>1 DEF Walkable, Counted, WalkFields
    <3>3. walk' = [Counted EXCEPT !.calls = calls, !.at = None, !.tasks = tasks]
      BY <3>1, <3>2
    <3> HIDE DEF calls, tasks
    <3> QED BY <3>2, <3>3 DEF Moves, WalkFields
  <2>3. Lists(<<Task("opcode", walk.at)>> \o walk.tasks, Due(walk) \cup calls)
    BY QueuedTasks, PushedOnto
  <2>4. Lists(tasks, Due(walk) \cup calls)
    BY <2>3, Descending
  <2>5. walk.calls \subseteq calls
    OBVIOUS
  <2> HIDE DEF calls, tasks
  <2> QED BY <1>1, <2>1, <2>2, <2>4, <2>5, MovesOwe
<1>3. CASE WalkFlow(r)
  BY <1>1, <1>3, FlowOwes
<1> QED BY <1>1, <1>2, <1>3

(* Every step of a walk but its end. *)
LEMMA WalkOwes ==
    ASSUME Walkable, WalkStep, ~EndWalk, ~AbandonWalk
    PROVE  Owes
BY TasksOwe, FinishOwes, FollowOwes, FinalizeOwes, ReleaseOwes, PathOwes, InstructionOwes
   DEF WalkStep

----------------------------------------------------------------------------
(* A walk keeps the invariant *)

(* A queued call target stays queued while the queue grows. *)
LEMMA StaysQueued ==
    ASSUME Gains(an, an'), ToSet(main.pending) \subseteq ToSet(main'.pending), NEW f, Queued(f)
    PROVE  Queued(f)'
BY DEF Gains, MoreSeeds, Queued

(* Between its first step and its last. *)
LEMMA WalkKeepsQueue ==
    ASSUME Inv, QInv, WalkStep, ~EndWalk, ~AbandonWalk
    PROVE  QInv'
<1>1. Keeps /\ Owes /\ walk.on /\ Fields
  <2>1. Walkable
    BY DEF Inv, QInv, Shapes, Walkable
  <2> QED BY <2>1, WalkKeeps, WalkOwes DEF Inv
<1>2. UNCHANGED <<img, main>> /\ main.pc \in {"top", "plt", "wave"}
  BY <1>1 DEF Owes, QInv, Shapes
<1>3. Shapes'
  BY <1>1, <1>2 DEF Owes, Lists, QInv, Shapes
<1>4. LooseIsKnown'
  <2>1. graph'.compat = graph.compat /\ img.exec \subseteq Addr
    BY <1>1 DEF Keeps, KnownGrows, Fields
  <2>2. walk.known \in SUBSET Addr => walk'.known \in SUBSET Addr
    BY <1>1, <2>1 DEF Owes
  <2> QED BY <1>1, <1>2, <2>1, <2>2 DEF QInv, LooseIsKnown
<1>5. DueIsReturned'
  <2>1. Due(walk)' \subseteq Due(walk) \cup walk'.calls /\ walk.calls \subseteq walk'.calls
    BY <1>1 DEF Owes, Lists, Due
  <2> QED BY <1>2, <2>1 DEF QInv, DueIsReturned
<1>6. CapturedIsKept'
  <2> SUFFICES ASSUME ~main.told, NEW f \in DOMAIN graph'.completed \cap img.exec
               PROVE  IsKept(f)'
    BY <1>2 DEF CapturedIsKept
  <2>1. CASE f \in DOMAIN graph.completed
    <3>1. IsKept(f)
      BY <2>1 DEF QInv, CapturedIsKept
    <3>2. Queued(f) => Queued(f)'
      BY <1>1, <1>2, StaysQueued DEF Keeps
    <3> QED BY <1>1, <1>2, <3>1, <3>2 DEF IsKept, Owes
  <2>2. CASE f \notin DOMAIN graph.completed
    BY <1>1, <1>2, <2>2 DEF Owes, IsKept, QInv, DueIsReturned
  <2> QED BY <2>1, <2>2
<1>7. ToldIsNoted' /\ EndsEmpty' /\ NothingIsLost'
  <2>1. ToldIsNoted'
    BY <1>1, <1>2 DEF Keeps, Gains, QInv, ToldIsNoted
  <2>2. EndsEmpty' /\ NothingIsLost'
    BY <1>2 DEF EndsEmpty, NothingIsLost, Done
  <2> QED BY <2>1, <2>2
<1> QED BY <1>3, <1>4, <1>5, <1>6, <1>7 DEF QInv

(* What the queue is given of a walk: what it captured and the loop has not *)
(* started is queued, whatever seed it had.                                 *)
LEMMA PromoteQueues ==
    ASSUME Fields, IsSeq(main.pending), NEW caller, NEW calls
    PROVE  LET r == Promote(caller, calls)
           IN  /\ IsSeq(r.pending) /\ ToSet(main.pending) \subseteq ToSet(r.pending)
               /\ \A f \in (calls \cap img.exec \cap DOMAIN graph.completed) \ main.starts :
                     f \in ToSet(r.pending) /\ "call" \in KindsAt(r.seeds, f)
<1> DEFINE targets == IF caller = "plt" THEN calls ELSE {t \in calls : IsExecutable(img, t)}
           queued == {t \in targets : Requeues(caller, t)}
           pending == IF caller = "plt" THEN main.pending \o Ascending(targets)
                      ELSE Ascending(queued) \o main.pending
           seeds == AddSeeds(an.seeds, targets, "call")
<1>1. Promote(caller, calls) = Promotion(seeds, pending)
  BY Zenon DEF Promote
<1>2. /\ IsSeq(pending) /\ ToSet(main.pending) \subseteq ToSet(pending)
      /\ (IF caller = "plt" THEN targets ELSE queued) \cap Addr \subseteq ToSet(pending)
  <2>1. /\ IsSeq(Ascending(targets)) /\ ToSet(Ascending(targets)) = targets \cap Addr
        /\ IsSeq(Ascending(queued)) /\ ToSet(Ascending(queued)) = queued \cap Addr
    BY AscendingHasAll
  <2> HIDE DEF targets, queued
  <2> QED BY <2>1, Concatenation
<1>3. ASSUME NEW f \in (calls \cap img.exec \cap DOMAIN graph.completed) \ main.starts
      PROVE  f \in ToSet(pending) /\ "call" \in KindsAt(seeds, f)
  <2>1. f \in targets /\ f \in Addr
    BY DEF IsExecutable, Fields
  <2>2. Requeues(caller, f)
    BY DEF Requeues
  <2>3. "call" \in KindsAt(seeds, f)
    <3> HIDE DEF targets
    <3> QED BY <2>1 DEF AddSeeds, KindsAt
  <2> HIDE DEF targets, pending, seeds
  <2> QED BY <1>2, <2>1, <2>2, <2>3
<1> HIDE DEF pending, seeds
<1> QED BY <1>1, <1>2, <1>3 DEF Promotion

(* The walk ends and its callees are returned. *)
LEMMA EndWalkKeepsQueue ==
    ASSUME Inv, QInv, EndWalk \/ AbandonWalk
    PROVE  QInv'
<1> DEFINE r == Promote(walk.caller, walk.calls)
<1>1. Keeps /\ walk.on /\ Fields /\ UNCHANGED img
  BY WalkKeeps DEF WalkStep, Inv, EndWalk, AbandonWalk
<1>2. /\ main.pc \in {"top", "plt", "wave"} /\ IsSeq(main.pending)
      /\ walk' = NoWalk
  BY <1>1 DEF QInv, Shapes, EndWalk, AbandonWalk, ReturnCalls
<1>3. /\ \E at : main' = [main EXCEPT !.pending = r.pending, !.known = walk.known,
                                      !.waved = Waved, !.at = at]
      /\ an'.seeds = r.seeds
      /\ graph'.completed = graph.completed /\ graph.delayed \subseteq graph'.delayed
  <2>1. /\ \E at : main' = [main EXCEPT !.pending = r.pending, !.known = walk.known,
                                        !.waved = Waved, !.at = at]
        /\ \E x : an' = [x EXCEPT !.seeds = r.seeds] /\ DOMAIN x = AnalysisFields
        /\ graph' = graph \/ graph' = [graph EXCEPT !.delayed = @ \cup DOMAIN walk.delayed]
    <3> DEFINE at == IF walk.caller = "plt" THEN After(walk.start) ELSE main.at
               x == Diagnose(Noted(walk.at), walk.start, "abandoned")
    <3>1. /\ main' = [main EXCEPT !.pending = r.pending, !.known = walk.known,
                                  !.waved = Waved, !.at = at]
          /\ an' = [an EXCEPT !.seeds = r.seeds] \/ an' = [x EXCEPT !.seeds = r.seeds]
          /\ graph' = graph \/ graph' = [graph EXCEPT !.delayed = @ \cup DOMAIN walk.delayed]
      BY DEF EndWalk, AbandonWalk, ReturnCalls
    <3>2. DOMAIN an = AnalysisFields /\ DOMAIN x = AnalysisFields
      BY <1>1, NotedKeeps DEF Fields, Carries, Diagnose
    <3> HIDE DEF at, x, r
    <3> QED BY <3>1, <3>2
  <2> HIDE DEF r
  <2>2. an'.seeds = r.seeds
    BY <2>1 DEF AnalysisFields
  <2>3. graph'.completed = graph.completed /\ graph.delayed \subseteq graph'.delayed
    BY <1>1, <2>1 DEF Fields, GraphFields
  <2> QED BY <2>1, <2>2, <2>3
<1>4. /\ IsSeq(r.pending) /\ ToSet(main.pending) \subseteq ToSet(r.pending)
      /\ \A f \in (walk.calls \cap img.exec \cap DOMAIN graph.completed) \ main.starts :
            f \in ToSet(r.pending) /\ "call" \in KindsAt(r.seeds, f)
  BY <1>1, <1>2, PromoteQueues
<1> HIDE DEF r
<1>5. /\ main'.pending = r.pending /\ main'.known = walk.known /\ main'.pc = main.pc
      /\ main'.starts = main.starts /\ main'.told = main.told
  BY <1>1, <1>3 DEF Fields, MainFields
<1>6. /\ DOMAIN NoWalk = WalkFields /\ IsSeq(NoWalk.tasks) /\ ~NoWalk.on
      /\ NoWalk.calls = {} /\ Due(NoWalk) = {}
  BY Short DEF NoWalk, WalkFields, Due, Finishers
<1>7. Shapes' /\ LooseIsKnown' /\ DueIsReturned'
  <2>1. graph'.compat = graph.compat
    BY <1>1 DEF Keeps, KnownGrows
  <2>2. Due(walk') = {}
    BY <1>2, <1>6
  <2> QED BY <1>1, <1>2, <1>4, <1>5, <1>6, <2>1, <2>2
         DEF QInv, Shapes, LooseIsKnown, DueIsReturned
<1>8. CapturedIsKept'
  <2> SUFFICES ASSUME ~main.told, NEW f \in DOMAIN graph.completed \cap img.exec
               PROVE  IsKept(f)'
    BY <1>1, <1>3, <1>5 DEF CapturedIsKept
  <2>1. IsKept(f)
    BY DEF QInv, CapturedIsKept
  <2>2. Queued(f) => Queued(f)'
    BY <1>1, <1>4, <1>5, StaysQueued DEF Keeps
  <2>3. f \in walk.calls /\ f \notin main.starts => Queued(f)'
    BY <1>3, <1>4, <1>5 DEF Queued
  <2> QED BY <1>3, <1>5, <2>1, <2>2, <2>3 DEF IsKept
<1>9. ToldIsNoted' /\ EndsEmpty' /\ NothingIsLost'
  <2>1. ToldIsNoted'
    BY <1>1, <1>5 DEF Keeps, Gains, QInv, ToldIsNoted
  <2>2. EndsEmpty' /\ NothingIsLost'
    BY <1>2, <1>5 DEF EndsEmpty, NothingIsLost, Done
  <2> QED BY <2>1, <2>2
<1> QED BY <1>7, <1>8, <1>9 DEF QInv

----------------------------------------------------------------------------
(* The loop keeps the invariant *)

(* The walk that a step of the loop leaves: none, or one that begins and    *)
(* has at most a started function to finish.                                *)
Begins ==
    /\ DOMAIN walk' = WalkFields /\ IsSeq(walk'.tasks)
    /\ Due(walk') \subseteq main'.starts
    /\ walk' = NoWalk \/ (walk'.on /\ main'.pc \in {"top", "plt", "wave"})
    /\ graph.compat /\ main'.pc \in {"plt", "wave"} /\ walk'.on => walk'.known \in SUBSET Addr

(* What is started or queued stays so. *)
KeepsQueue ==
    /\ IsSeq(main'.pending)
    /\ main.starts \subseteq main'.starts /\ main'.starts \subseteq Addr
    /\ \/ main'.told
       \/ \A f \in DOMAIN graph.completed \cap img.exec :
             Queued(f) => f \in main'.starts \cup graph.delayed \/ Queued(f)'

(* Without a walk nothing is due. *)
LEMMA Idle ==
    ASSUME QInv, ~walk.on
    PROVE  walk = NoWalk /\ Due(NoWalk) = {} /\ IsSeq(NoWalk.tasks)
           /\ DOMAIN NoWalk = WalkFields /\ NoWalk.calls = {}
BY Short DEF QInv, Shapes, NoWalk, WalkFields, Due, Finishers

(* A step of the loop inside a pass. *)
LEMMA TurnKeepsQueue ==
    ASSUME Inv, QInv, StaysInPass, Keeps, ~walk.on, Begins, KeepsQueue,
           graph.compat /\ main'.pc \in {"plt", "wave"} => main'.known \in SUBSET Addr,
           main'.told = main.told \/ (main'.told /\ ToldIsNoted'), EndsEmpty'
    PROVE  QInv'
<1>1. walk = NoWalk /\ NoWalk.calls = {}
  BY Idle
<1>2. /\ graph'.completed = graph.completed /\ graph'.delayed = graph.delayed
      /\ graph'.compat = graph.compat /\ img'.exec = img.exec
  BY DEF StaysInPass, Inv, Fields, GraphFields, KeepsImage
<1>3. Shapes' /\ LooseIsKnown' /\ DueIsReturned'
  <2>1. ~NoWalk.on
    BY DEF NoWalk
  <2>2. Shapes'
    BY <2>1 DEF Shapes, Begins, KeepsQueue
  <2>3. LooseIsKnown'
    BY <1>2 DEF LooseIsKnown, Begins, KeepsQueue
  <2>4. DueIsReturned'
    BY DEF DueIsReturned, Begins, Due
  <2> QED BY <2>2, <2>3, <2>4
<1>4. CapturedIsKept'
  BY <1>1, <1>2 DEF QInv, CapturedIsKept, IsKept, KeepsQueue
<1>5. ToldIsNoted' /\ NothingIsLost'
  BY DEF QInv, ToldIsNoted, Keeps, Gains, NothingIsLost, Done, StaysInPass, GoesOn, PassSteps
<1> QED BY <1>3, <1>4, <1>5 DEF QInv

(* Most steps walk nothing. *)
LEMMA IdleBegins ==
    ASSUME QInv, ~walk.on, walk' = walk
    PROVE  Begins
<1>1. walk = NoWalk /\ Due(NoWalk) = {} /\ IsSeq(NoWalk.tasks) /\ DOMAIN NoWalk = WalkFields
  BY Idle
<1>2. ~walk'.on /\ Due(walk') = {}
  BY <1>1
<1> QED BY <1>1, <1>2 DEF Begins

(* A longer queue keeps what is queued. *)
LEMMA LongerQueue ==
    ASSUME QInv, Keeps, main'.starts = main.starts, IsSeq(main'.pending),
           ToSet(main.pending) \subseteq ToSet(main'.pending)
    PROVE  KeepsQueue
BY StaysQueued DEF Keeps, QInv, LooseIsKnown, KeepsQueue

(* A walk of loose code, or of a start, begins. *)
LEMMA WalkBegins ==
    ASSUME Fields, NEW start, NEW known, NEW caller, walk' = Walk(start, known, caller),
           main'.pc \in {"top", "plt", "wave"},
           graph.compat => start \in main'.starts \/ known \in SUBSET Addr,
           graph.compat /\ main'.pc \in {"plt", "wave"} => known \in SUBSET Addr
    PROVE  Begins
<1> DEFINE tasks == IF graph.compat /\ known = None THEN <<Path(start), Task("finish", start)>>
                    ELSE <<Path(start)>>
<1>1. IsSeq(tasks) /\ Finishers(ToSet(tasks)) \subseteq main'.starts
  <2>1. graph.compat /\ known = None => start \in main'.starts
    BY ImageAssumption
  <2>2. /\ IsSeq(<<Path(start), Task("finish", start)>>) /\ IsSeq(<<Path(start)>>)
        /\ Finishers(ToSet(<<Path(start), Task("finish", start)>>)) \subseteq {start}
        /\ Finishers(ToSet(<<Path(start)>>)) = {}
    BY Short DEF Finishers, Path, Task
  <2> QED BY <2>1, <2>2
<1>2. walk' = [NoWalk EXCEPT !.on = TRUE, !.start = start, !.known = known, !.caller = caller,
                             !.tasks = tasks]
  BY DEF Walk
<1> HIDE DEF tasks
<1>3. /\ DOMAIN walk' = WalkFields /\ walk'.on /\ walk'.tasks = tasks
      /\ walk'.known = known /\ DOMAIN walk'.delayed = {}
  BY <1>2 DEF NoWalk, WalkFields
<1>4. Due(walk') \subseteq main'.starts
  BY <1>1, <1>3 DEF Due
<1> QED BY <1>1, <1>3, <1>4 DEF Begins

(* The loop goes elsewhere. *)
LEMMA GotoKeepsQueue ==
    ASSUME Inv, QInv, StaysInPass, Keeps, ~walk.on, walk' = walk,
           NEW pc, main' = Goto(pc), pc \notin {"plt", "wave"},
           (pc \in {"next", "candidate"} /\ main.early) \/ pc = "views" => main.pending = <<>>
    PROVE  QInv'
<1>1. /\ main'.pc = pc /\ main'.pending = main.pending /\ main'.starts = main.starts
      /\ main'.told = main.told /\ main'.early = main.early
  BY DEF Inv, Fields, Goto, MainFields
<1>2. EndsEmpty'
  BY <1>1 DEF EndsEmpty
<1>3. KeepsQueue
  BY <1>1, LongerQueue DEF QInv, Shapes
<1> QED BY <1>1, <1>2, <1>3, IdleBegins, TurnKeepsQueue

(* The stubs, the top of the loop and the ends of the waves and the queue.  *)
LEMMA LoopKeepsQueue ==
    ASSUME Inv, QInv, StaysInPass, Keeps, EndPlt \/ LoopTop \/ EndWave \/ EmptyQueue
    PROVE  QInv'
<1>1. ~walk.on /\ walk' = walk /\ main.then \in {"pop", "cookies"}
  BY DEF EndPlt, LoopTop, EndWave, EmptyQueue, At, Inv, Control
<1>2. CASE EndPlt
  BY <1>1, <1>2, GotoKeepsQueue DEF EndPlt
<1>3. CASE LoopTop
  BY <1>1, <1>3, GotoKeepsQueue DEF LoopTop, IsEarly
<1>4. CASE EndWave
  BY <1>1, <1>4, GotoKeepsQueue DEF EndWave
<1>5. CASE EmptyQueue
  BY <1>1, <1>5, GotoKeepsQueue DEF EmptyQueue
<1> QED BY <1>2, <1>3, <1>4, <1>5

(* Pointers and emulation: what they find is added to the queue.            *)
LEMMA NextKeepsQueue ==
    ASSUME Inv, QInv, StaysInPass, Keeps, BeginNext \/ EndBatch \/ TryCandidate
    PROVE  QInv'
<1>1. /\ ~walk.on /\ walk' = walk /\ main.pc \in {"next", "candidate"}
      /\ IsSeq(main.pending) /\ DOMAIN main = MainFields
      /\ main.early => main.pending = <<>>
  BY DEF BeginNext, EndBatch, TryCandidate, At, QInv, Shapes, Inv, Fields, EndsEmpty
<1>2. \/ main' \in {main, Goto("next"), Goto("candidate"), NotFound}
      \/ \E a : main' = Found(a)
  <2>1. CASE BeginNext \/ EndBatch
    BY <2>1 DEF BeginNext, EndBatch, TakeEmulated
  <2>2. CASE TryCandidate
    <3>1. main' = main \/ main' = NotFound \/ \E x, p, kind, a, v : Judge(x, p, kind, a, v)
      <4> DEFINE s == NextSource(img, ptr)
                 t == Take(s)
                 kind == t.cand[1]
                 a == t.cand[2]
                 p == IF kind = "pointer" THEN AddCandidate(img, t.an, t.p, a, "emulated") ELSE t.p
                 tried == [p EXCEPT !.tried = @ \cup {<<kind, a>>}]
                 v == VerdictOn(t.an, tried, kind, a)
      <4>1. main' = main \/ main' = NotFound \/ \E w \in {v} : Judge(t.an, tried, kind, a, w)
        BY <2>2 DEF TryCandidate, Again
      <4> HIDE DEF t, kind, a, tried, v
      <4> QED BY <4>1
    <3> QED BY <3>1 DEF Judge, Again
  <2> QED BY <2>1, <2>2
<1>3. CASE main' \in {Goto("next"), Goto("candidate"), NotFound}
  BY <1>1, <1>3, GotoKeepsQueue DEF NotFound
<1>4. CASE main' = main
  <2>1. KeepsQueue /\ EndsEmpty'
    BY <1>1, <1>4, LongerQueue DEF QInv, EndsEmpty
  <2> QED BY <1>1, <1>4, <2>1, IdleBegins, TurnKeepsQueue
<1>5. ASSUME NEW a, main' = Found(a)
      PROVE  QInv'
  <2>1. /\ IsSeq(Append(main.pending, a)) /\ ToSet(main.pending) \subseteq ToSet(Append(main.pending, a))
        /\ IsSeq(<<a>> \o main.pending) /\ ToSet(main.pending) \subseteq ToSet(<<a>> \o main.pending)
    BY <1>1, Appending, Short, Concatenation
  <2>2. /\ main'.pending \in {Append(main.pending, a), <<a>> \o main.pending}
        /\ main'.starts = main.starts /\ main'.told = main.told /\ main'.pc \in {"top", "pop"}
    BY <1>1, <1>5 DEF Found, MainFields
  <2>3. KeepsQueue /\ EndsEmpty'
    BY <2>1, <2>2, LongerQueue DEF EndsEmpty
  <2> QED BY <1>1, <2>2, <2>3, IdleBegins, TurnKeepsQueue
<1> QED BY <1>2, <1>3, <1>4, <1>5

(* The next start is passed over, beyond the budget, or walked.             *)
LEMMA PopKeepsQueue ==
    ASSUME Inv, QInv, StaysInPass, Keeps, PopStart
    PROVE  QInv'
<1> DEFINE a == Head(main.pending)
           tail == Tail(main.pending)
           popped == [main EXCEPT !.pc = "top", !.pending = Tail(@),
                                  !.skipped = IF IsWalkedPattern(a) THEN @ \cup {a} ELSE @]
<1>1. /\ ~walk.on /\ UNCHANGED <<img, graph>> /\ main.pending # <<>> /\ Fields
      /\ IsSeq(main.pending)
  BY DEF PopStart, At, QInv, Shapes, Inv
<1>2. IsSeq(tail) /\ ToSet(main.pending) = {a} \cup ToSet(tail)
  BY <1>1, HeadAndTail
<1>3. /\ DOMAIN popped = MainFields /\ popped.pc = "top" /\ popped.pending = tail
      /\ popped.starts = main.starts /\ popped.told = main.told /\ popped.known = main.known
  BY <1>1 DEF Fields, MainFields
<1>4. \/ SkipsStart(a) /\ main' = popped /\ walk' = walk
      \/ /\ main' = [popped EXCEPT !.told = TRUE] /\ walk' = walk
         /\ main.told \/ an' = Diagnose(an, a, "function budget")
      \/ /\ ~SkipsStart(a) /\ walk' = Walk(a, None, "main")
         /\ \E isolated : main' = [popped EXCEPT !.starts = main.starts \cup {a}, !.isolated = isolated]
  <2> DEFINE isolated == IF ShouldIsolate(img, an.seeds, a, a \in an.insns)
                         THEN main.isolated \cup {a} ELSE main.isolated
  <2>1. popped.isolated = main.isolated
    BY <1>1 DEF Fields, MainFields
  <2>2. \/ SkipsStart(a) /\ main' = popped /\ walk' = walk
        \/ /\ main' = [popped EXCEPT !.told = TRUE] /\ walk' = walk
           /\ main.told \/ an' = Diagnose(an, a, "function budget")
        \/ /\ ~SkipsStart(a) /\ walk' = Walk(a, None, "main")
           /\ main' = [popped EXCEPT !.starts = @ \cup {a},
                           !.isolated = IF ShouldIsolate(img, an.seeds, a, a \in an.insns)
                                        THEN @ \cup {a} ELSE @]
    BY DEF PopStart
  <2> HIDE DEF popped, a
  <2>3. [popped EXCEPT !.starts = @ \cup {a},
                       !.isolated = IF ShouldIsolate(img, an.seeds, a, a \in an.insns)
                                    THEN @ \cup {a} ELSE @]
        = [popped EXCEPT !.starts = main.starts \cup {a}, !.isolated = isolated]
    BY <1>3, <2>1
  <2> HIDE DEF isolated
  <2> QED BY <2>2, <2>3
<1>5. main.starts \subseteq Addr
  BY DEF QInv, LooseIsKnown
<1>6. \A f : Queued(f) /\ f # a /\ main'.pending = tail => Queued(f)'
  BY <1>2 DEF Queued, Keeps, Gains, MoreSeeds
<1> HIDE DEF popped, a, tail
<1>7. CASE SkipsStart(a) /\ main' = popped /\ walk' = walk
  <2>1. Queued(a) /\ a \in img.exec => a \in main.starts \cup graph.delayed
    BY <1>7 DEF SkipsStart, IsWalkedPattern, Queued, OnlyKinds, KindsAt, SignatureKinds, IsExecutable
  <2>2. KeepsQueue /\ EndsEmpty'
    BY <1>2, <1>3, <1>5, <1>6, <1>7, <2>1 DEF KeepsQueue, EndsEmpty
  <2> QED BY <1>1, <1>3, <1>7, <2>2, IdleBegins, TurnKeepsQueue
<1>8. CASE main' = [popped EXCEPT !.told = TRUE] /\ walk' = walk
           /\ (main.told \/ an' = Diagnose(an, a, "function budget"))
  <2>1. /\ main'.told /\ main'.pc = "top" /\ main'.pending = tail /\ main'.starts = main.starts
    BY <1>3, <1>8 DEF MainFields
  <2>2. ToldIsNoted'
    <3>1. CASE main.told
      BY <3>1 DEF QInv, ToldIsNoted, Keeps, Gains
    <3>2. CASE an' = Diagnose(an, a, "function budget")
      <4>1. <<a, "function budget">> \in an'.diags
        BY <1>1, <3>2 DEF Diagnose, Fields, AnalysisFields
      <4> QED BY <4>1 DEF ToldIsNoted
    <3> QED BY <1>8, <3>1, <3>2
  <2>3. KeepsQueue /\ EndsEmpty'
    BY <1>2, <1>5, <2>1 DEF KeepsQueue, EndsEmpty
  <2> QED BY <1>1, <1>8, <2>1, <2>2, <2>3, IdleBegins, TurnKeepsQueue
<1>9. ASSUME ~SkipsStart(a), walk' = Walk(a, None, "main"), NEW isolated,
             main' = [popped EXCEPT !.starts = main.starts \cup {a}, !.isolated = isolated]
      PROVE  QInv'
  <2>1. /\ main'.starts = main.starts \cup {a} /\ main'.pc = "top" /\ main'.pending = tail
        /\ main'.told = main.told
    BY <1>3, <1>9 DEF MainFields
  <2>2. a \in Addr
    BY <1>1, <1>9 DEF SkipsStart, IsExecutable, Fields
  <2>3. KeepsQueue /\ EndsEmpty'
    BY <1>2, <1>5, <1>6, <2>1, <2>2 DEF KeepsQueue, EndsEmpty
  <2>4. Begins
    BY <1>1, <1>9, <2>1, WalkBegins
  <2> QED BY <1>1, <2>1, <2>3, <2>4, TurnKeepsQueue
<1> QED BY <1>4, <1>7, <1>8, <1>9

(* Stubs and fragments are walked as loose code. *)
LEMMA LooseKeepsQueue ==
    ASSUME Inv, QInv, StaysInPass, Keeps, WalkPlt \/ WalkFragment
    PROVE  QInv'
<1>1. ~walk.on /\ main.pc \in {"plt", "wave"} /\ Fields /\ IsSeq(main.pending)
  BY DEF WalkPlt, WalkFragment, At, Inv, QInv, Shapes
<1>2. walk' = walk \/ \E a, caller : walk' = Walk(a, main.known, caller)
  BY DEF WalkPlt, WalkFragment
<1>3. /\ main'.pc = main.pc /\ main'.pending = main.pending /\ main'.starts = main.starts
      /\ main'.told = main.told /\ main'.known = main.known
  <2>1. \/ main' = main
        \/ \E todo, at : main' = [main EXCEPT !.todo = todo, !.at = at]
        \/ \E at : main' = [main EXCEPT !.at = at]
        \/ \E todo : main' = [main EXCEPT !.todo = todo]
    BY Zenon DEF WalkPlt, WalkFragment
  <2> QED BY <1>1, <2>1 DEF Fields, MainFields
<1>4. graph.compat => main.known \in SUBSET Addr
  BY <1>1 DEF QInv, LooseIsKnown
<1>5. KeepsQueue /\ EndsEmpty'
  BY <1>1, <1>3, LongerQueue DEF EndsEmpty
<1>6. Begins
  <2>1. CASE walk' = walk
    BY <1>1, <2>1, IdleBegins
  <2>2. CASE \E a, caller : walk' = Walk(a, main.known, caller)
    BY <1>1, <1>3, <1>4, <2>2, WalkBegins
  <2> QED BY <1>2, <2>1, <2>2
<1> QED BY <1>1, <1>3, <1>4, <1>5, <1>6, TurnKeepsQueue

(* FLIRT starts, and the fragments of import calls. *)
LEMMA EarlyKeepsQueue ==
    ASSUME Inv, QInv, StaysInPass, Keeps, EndEarly
    PROVE  QInv'
<1>1. ~walk.on /\ walk' = walk /\ DOMAIN main = MainFields /\ IsSeq(main.pending)
      /\ main.starts \subseteq Addr
  BY DEF EndEarly, At, Inv, Fields, QInv, Shapes, LooseIsKnown
<1>2. \/ \E set : main' = [main EXCEPT !.pc = "top", !.pending = Ascending(set) \o @]
      \/ main' = [BeginWave(main.starts, "pop") EXCEPT !.early = TRUE]
  BY Zenon DEF EndEarly
<1>3. ASSUME NEW set, main' = [main EXCEPT !.pc = "top", !.pending = Ascending(set) \o @]
      PROVE  QInv'
  <2> DEFINE pending == Ascending(set) \o main.pending
  <2>1. IsSeq(pending) /\ ToSet(main.pending) \subseteq ToSet(pending)
    BY <1>1, AscendingHasAll, Concatenation
  <2>2. main' = [main EXCEPT !.pc = "top", !.pending = pending]
    BY <1>3
  <2> HIDE DEF pending
  <2>3. /\ main'.pc = "top" /\ main'.pending = pending /\ main'.starts = main.starts
        /\ main'.told = main.told
    BY <1>1, <2>2 DEF MainFields
  <2>4. KeepsQueue /\ EndsEmpty'
    BY <2>1, <2>3, LongerQueue DEF EndsEmpty
  <2> QED BY <1>1, <2>3, <2>4, IdleBegins, TurnKeepsQueue
<1>4. CASE main' = [BeginWave(main.starts, "pop") EXCEPT !.early = TRUE]
  <2> DEFINE m == BeginWave(main.starts, "pop")
  <2>1. /\ DOMAIN m = MainFields /\ m.pc = "wave" /\ m.pending = main.pending
        /\ m.starts = main.starts /\ m.told = main.told /\ m.known = main.starts
    BY <1>1 DEF BeginWave, MainFields
  <2> HIDE DEF m
  <2>2. /\ main'.pc = "wave" /\ main'.pending = main.pending /\ main'.starts = main.starts
        /\ main'.told = main.told /\ main'.known = main.starts
    BY <1>4, <2>1 DEF m, MainFields
  <2>3. KeepsQueue /\ EndsEmpty'
    BY <1>1, <2>2, LongerQueue DEF EndsEmpty
  <2> QED BY <1>1, <2>2, <2>3, IdleBegins, TurnKeepsQueue
<1> QED BY <1>2, <1>3, <1>4

(* The Go wave begins with an empty queue, the cookie wave adds to it.      *)
LEMMA LateKeepsQueue ==
    ASSUME Inv, QInv, StaysInPass, Keeps, GoWave \/ CookieWave
    PROVE  QInv'
<1>1. ~walk.on /\ walk' = walk /\ DOMAIN main = MainFields /\ IsSeq(main.pending)
  BY DEF GoWave, CookieWave, At, Inv, Fields, QInv, Shapes
<1>2. CASE GoWave
  <2> DEFINE found == /\ img.gomain # None /\ img.entry \in DOMAIN graph.succ
                      /\ ~BuildFunctionView(img, an, graph, img.entry, FALSE).oversized
                      /\ IsExecutable(img, img.gomain)
             isNew == img.gomain \notin DOMAIN an.seeds
             pending == IF found /\ isNew THEN <<img.gomain>> ELSE <<>>
             queued == [main EXCEPT !.late = TRUE, !.pending = pending]
  <2>1. main.pending = <<>>
    BY <1>2 DEF GoWave
  <2>2. main' = IF graph.compat THEN [queued EXCEPT !.pc = "cookies"]
                ELSE [queued EXCEPT !.pc = "wave", !.todo = FragmentStarts, !.known = None,
                                    !.then = "cookies"]
    BY <1>2 DEF GoWave
  <2>3. IsSeq(pending) /\ ToSet(main.pending) \subseteq ToSet(pending)
    BY <2>1, Short
  <2> HIDE DEF pending
  <2>4. /\ DOMAIN queued = MainFields /\ queued.pending = pending
        /\ queued.starts = main.starts /\ queued.told = main.told
    BY <1>1 DEF MainFields
  <2> HIDE DEF queued
  <2>5. /\ main'.pending = pending /\ main'.starts = main.starts /\ main'.told = main.told
        /\ main'.pc \in {"cookies", "wave"} /\ (main'.pc = "wave" => ~graph.compat)
    BY <2>2, <2>4 DEF MainFields
  <2>6. KeepsQueue /\ EndsEmpty'
    BY <2>3, <2>5, LongerQueue DEF EndsEmpty
  <2> QED BY <1>1, <2>5, <2>6, IdleBegins, TurnKeepsQueue
<1>3. CASE CookieWave
  <2>1. \E set : main' = [main EXCEPT !.pc = "top", !.pending = Reverse(Ascending(set)) \o @]
    BY <1>3, Zenon DEF CookieWave
  <2>2. PICK set : main' = [main EXCEPT !.pc = "top", !.pending = Reverse(Ascending(set)) \o @]
    BY <2>1
  <2> DEFINE pending == Reverse(Ascending(set)) \o main.pending
  <2>3. IsSeq(pending) /\ ToSet(main.pending) \subseteq ToSet(pending)
    BY <1>1, AscendingHasAll, Reversing, Concatenation
  <2>4. main' = [main EXCEPT !.pc = "top", !.pending = pending]
    BY <2>2
  <2> HIDE DEF pending
  <2>5. /\ main'.pc = "top" /\ main'.pending = pending /\ main'.starts = main.starts
        /\ main'.told = main.told
    BY <1>1, <2>4 DEF MainFields
  <2>6. KeepsQueue /\ EndsEmpty'
    BY <2>3, <2>5, LongerQueue DEF EndsEmpty
  <2> QED BY <1>1, <2>5, <2>6, IdleBegins, TurnKeepsQueue
<1> QED BY <1>2, <1>3

(* A pass begins with nothing captured. *)
LEMMA StartKeepsQueue ==
    ASSUME Inv, QInv, StartPass
    PROVE  QInv'
<1> DEFINE compat == IsCompatible(img)
           base == BaseSeeds(img)
           seeds == IF compat THEN KeptSeeds(base) ELSE base
           pending == InitialQueue(img, seeds, compat)
           at == IF img.plt = <<>> THEN 0 ELSE img.plt[1][1]
<1>1. ~walk.on /\ walk' = walk /\ DOMAIN main = MainFields
  BY DEF StartPass, At, Inv, Fields
<1>2. /\ main' = [main EXCEPT !.pc = IF compat /\ img.format = "elf" THEN "plt" ELSE "top",
                              !.pending = pending,
                              !.starts = {}, !.isolated = {}, !.late = FALSE, !.told = FALSE,
                              !.early = ~compat, !.known = {}, !.todo = img.plt,
                              !.skipped = {}, !.waved = {}, !.at = at]
      /\ graph' = EmptyGraph(img, main.noreturn)
  BY Zenon DEF StartPass
<1>3. IsSeq(pending)
  <2> DEFINE in == DOMAIN seeds \cap Addr
             n == Cardinality(in)
  <2>1. n \in Nat
    <3>1. IsFiniteSet(Addr)
      BY FS_Interval, ImageAssumption DEF Addr
    <3> QED BY <3>1, FS_Subset, FS_CardinalityType
  <2>2. \E element : pending = [i \in 1..n |-> element[i]]
    <3> DEFINE key(a) == <<SeedPriority(seeds[a], compat), RootOrder(img, seeds, a, compat), a>>
               before(a, b) == \E i \in 1..3 : /\ key(a)[i] < key(b)[i]
                                               /\ \A j \in 1..i - 1 : key(a)[j] = key(b)[j]
               place(a) == Cardinality({b \in in : b = a \/ before(b, a)})
               start(i) == CHOOSE a \in in : place(a) = i
               element == [i \in 1..n |-> start(i)]
    <3>1. pending = element
      BY Zenon DEF InitialQueue
    <3> HIDE DEF n, pending, start
    <3>2. element = [i \in 1..n |-> element[i]]
      OBVIOUS
    <3> HIDE DEF element
    <3> QED BY <3>1, <3>2
  <2> HIDE DEF n, pending
  <2>3. DOMAIN pending = 1..n /\ pending = [i \in 1..n |-> pending[i]]
    BY <2>2
  <2>4. pending \in [1..n -> ToSet(pending)]
    BY <2>3 DEF ToSet
  <2>5. pending \in Seq(ToSet(pending))
    BY <2>1, <2>4
  <2> QED BY <2>5 DEF IsSeq
<1> HIDE DEF pending, compat, at
<1>4. /\ main'.pc \in {"plt", "top"} /\ main'.pending = pending /\ main'.starts = {}
      /\ main'.told = FALSE /\ main'.known = {}
  BY <1>1, <1>2 DEF MainFields
<1>5. DOMAIN graph'.completed = {}
  BY <1>2 DEF EmptyGraph
<1>6. walk = NoWalk /\ ~NoWalk.on /\ Due(NoWalk) = {} /\ IsSeq(NoWalk.tasks) /\ DOMAIN NoWalk = WalkFields
  BY <1>1, Idle DEF NoWalk
<1>7. Shapes' /\ DueIsReturned'
  <2>1. Due(walk') = {}
    BY <1>1, <1>6
  <2> QED BY <1>1, <1>3, <1>4, <1>6, <2>1 DEF Shapes, DueIsReturned
<1>8. LooseIsKnown'
  BY <1>1, <1>4, <1>6 DEF LooseIsKnown
<1>9. CapturedIsKept' /\ ToldIsNoted' /\ EndsEmpty' /\ NothingIsLost'
  BY <1>4, <1>5 DEF CapturedIsKept, ToldIsNoted, EndsEmpty, NothingIsLost, Done
<1> QED BY <1>7, <1>8, <1>9 DEF QInv

(* With an empty queue what was captured was started or waits for good; the *)
(* started functions are viewed, or noted as too large.                     *)
LEMMA EndSweepKeepsQueue ==
    ASSUME Inv, QInv, EndSweep
    PROVE  QInv'
<1>1. /\ main.pc = "views" /\ ~walk.on /\ UNCHANGED <<img, graph, walk>> /\ Fields
      /\ main.pending = <<>>
  BY DEF EndSweep, At, Inv, QInv, EndsEmpty
<1>2. /\ \/ main' = Goto("done")
         \/ \E pass, next : main' = [main EXCEPT !.pc = "pass", !.pass = pass, !.noreturn = next]
      /\ \A f \in Swept : f \in DOMAIN an'.functions \/ <<f, "oversized">> \in an'.diags
  <2> DEFINE fs(functions) == WithCaptured(functions)
             ds(views) == an.diags \cup {<<f, "oversized">> : f \in Swept \ DOMAIN views}
             swept(views, functions) == [an EXCEPT !.functions = fs(functions), !.diags = ds(views)]
             Pairs(x, next) ==
               \/ /\ an' = [x EXCEPT !.noreturn = PublishedSet(next), !.callees = Callees(x.functions)]
                  /\ main' = Goto("done")
               \/ /\ an' = x
                  /\ main' = [main EXCEPT !.pc = "pass", !.pass = @ + 1, !.noreturn = next]
  <2>1. \E views \in {ViewsOf(Swept)} : \E functions \in {WithFragments(views)} :
           \E next \in {IF graph.compat THEN graph.known
                        ELSE Propagate(img, [an EXCEPT !.functions = functions])} :
              Pairs(swept(views, functions), next)
    BY DEF EndSweep
  <2>2. PICK views, next : Pairs(swept(views, WithFragments(views)), next)
    <3> HIDE DEF swept, Pairs
    <3> QED BY <2>1
  <2> DEFINE functions == WithFragments(views)
             x == swept(views, functions)
  <2>3. DOMAIN fs(functions) = DOMAIN functions /\ DOMAIN views \subseteq DOMAIN functions
    BY DEF WithCaptured, WithFragments
  <2>4. \A f \in Swept : f \in DOMAIN views \/ <<f, "oversized">> \in ds(views)
    OBVIOUS
  <2>5. DOMAIN x = AnalysisFields /\ x.functions = fs(functions) /\ x.diags = ds(views)
    <3> HIDE DEF fs, ds, functions
    <3> QED BY <1>1 DEF Fields, AnalysisFields
  <2> HIDE DEF x, fs, ds, functions
  <2>6. an'.functions = x.functions /\ an'.diags = x.diags
    BY <2>2, <2>5 DEF functions, x, AnalysisFields
  <2>7. \/ main' = Goto("done")
        \/ \E pass, n : main' = [main EXCEPT !.pc = "pass", !.pass = pass, !.noreturn = n]
    BY <2>2
  <2> QED BY <2>3, <2>4, <2>5, <2>6, <2>7
<1>3. /\ main'.pc \in {"done", "pass"} /\ main'.pending = main.pending
      /\ main'.starts = main.starts /\ main'.told = main.told /\ main'.early = main.early
  BY <1>1, <1>2 DEF Fields, Goto, MainFields
<1>4. walk = NoWalk /\ NoWalk.calls = {} /\ Keeps
  BY <1>1, Idle, EndSweepInv
<1>5. \A f \in DOMAIN graph.completed \cap img.exec : main.told \/ f \in main.starts \cup graph.delayed
  BY <1>1, <1>4, Short DEF QInv, CapturedIsKept, IsKept, Queued
<1>6. Shapes' /\ LooseIsKnown' /\ DueIsReturned'
  <2>1. Shapes'
    BY <1>1, <1>3, <1>4 DEF QInv, Shapes
  <2>2. LooseIsKnown'
    BY <1>1, <1>3 DEF QInv, LooseIsKnown
  <2>3. DueIsReturned'
    BY <1>1, <1>3 DEF QInv, DueIsReturned
  <2> QED BY <2>1, <2>2, <2>3
<1>7. CapturedIsKept' /\ ToldIsNoted' /\ EndsEmpty'
  <2>1. CapturedIsKept'
    BY <1>1, <1>3, <1>5 DEF CapturedIsKept, IsKept
  <2>2. ToldIsNoted'
    BY <1>3, <1>4 DEF QInv, ToldIsNoted, Keeps, Gains
  <2>3. EndsEmpty'
    BY <1>3 DEF EndsEmpty
  <2> QED BY <2>1, <2>2, <2>3
<1>8. NothingIsLost'
  <2> SUFFICES ASSUME ~Limited', NEW f, f \notin graph.delayed,
                      f \in main.starts \cup (DOMAIN graph.completed \cap img.exec)
               PROVE  f \in DOMAIN an'.functions
    BY <1>1, <1>3 DEF NothingIsLost
  <2>1. ~main.told
    BY <1>3, <1>7 DEF ToldIsNoted, Limited
  <2>2. f \in Swept
    BY <1>5, <2>1 DEF Swept
  <2>3. <<f, "oversized">> \notin an'.diags
    BY DEF Limited
  <2> QED BY <1>2, <2>2, <2>3
<1> QED BY <1>6, <1>7, <1>8 DEF QInv

----------------------------------------------------------------------------
(* The invariant *)

LEMMA InitQueue ==
    ASSUME Init
    PROVE  QInv
<1>1. /\ main.pc = "pass" /\ main.pending = <<>> /\ main.starts = {} /\ main.told = FALSE
      /\ walk = NoWalk /\ graph = EmptyGraph(img, img.noretApis)
  BY DEF Init
<1>2. DOMAIN graph.completed = {}
  BY <1>1 DEF EmptyGraph
<1>3. /\ DOMAIN NoWalk = WalkFields /\ IsSeq(NoWalk.tasks) /\ ~NoWalk.on /\ IsSeq(<<>>)
      /\ Due(NoWalk) = {}
  BY Short DEF NoWalk, WalkFields, Due, Finishers
<1>4. Shapes /\ DueIsReturned
  <2>1. Due(walk) = {}
    BY <1>1, <1>3
  <2> QED BY <1>1, <1>3, <2>1 DEF Shapes, DueIsReturned
<1> QED BY <1>1, <1>2, <1>3, <1>4
       DEF QInv, LooseIsKnown, CapturedIsKept, ToldIsNoted, EndsEmpty, NothingIsLost, Done

(* Every step keeps it. *)
LEMMA NextQueue ==
    ASSUME Inv, QInv, [Next]_vars
    PROVE  QInv'
<1>1. CASE WalkStep
  BY <1>1, WalkKeepsQueue, EndWalkKeepsQueue
<1>2. CASE StartPass
  BY <1>2, StartKeepsQueue
<1>3. CASE EndSweep
  BY <1>3, EndSweepKeepsQueue
<1>4. CASE SweepStep /\ ~StartPass /\ ~EndSweep
  <2>1. StaysInPass /\ Keeps
    BY <1>4, SweepStays
  <2> QED BY <1>4, <2>1, LoopKeepsQueue, NextKeepsQueue, PopKeepsQueue, LooseKeepsQueue,
             EarlyKeepsQueue, LateKeepsQueue DEF SweepStep
<1>5. CASE UNCHANGED vars
  BY <1>5 DEF vars, QInv, Shapes, LooseIsKnown, DueIsReturned, Due, CapturedIsKept, IsKept, Queued,
              ToldIsNoted, EndsEmpty, NothingIsLost, Done, Limited
<1> QED BY <1>1, <1>2, <1>3, <1>4, <1>5 DEF Next, SweepStep, Finished

(* For every image and every bound: when recovery is done and no budget was *)
(* hit, every start taken from the queue and every executable extent that a *)
(* walk captured is a function of the result, unless it waits for good      *)
(* (discover_flow, recover_functions).                                      *)
THEOREM Nothing == Spec => []NothingIsLost
<1>1. Init => QInv
  BY InitQueue
<1>2. Inv /\ QInv /\ [Next]_vars => QInv'
  BY NextQueue
<1>3. QInv => NothingIsLost
  BY DEF QInv
<1> QED BY <1>1, <1>2, <1>3, Invariance, PTL DEF Spec

----------------------------------------------------------------------------
(* Native blocks *)
(*                                                                          *)
(* The blocks of a native view are walked from their starts.  That they are *)
(* apart follows from how an instruction got into a block: it begins the    *)
(* block or another one of the block ends where it begins.                  *)

(* Counting up to a natural number.                                         *)
LEMMA UpTo ==
    ASSUME NEW N \in Nat, NEW K, 0 \in K, \A k \in 0..N - 1 : k \in K => k + 1 \in K
    PROVE  N \in K
<1> DEFINE S == {k \in 0..N : k \notin K}
<1> SUFFICES ASSUME S # {}
             PROVE  FALSE
  OBVIOUS
<1>1. S \subseteq Nat
  OBVIOUS
<1>2. Min(S) \in S /\ \A y \in S : Min(S) <= y
  <2> HIDE DEF S
  <2> QED BY <1>1, MinIsIn
<1> DEFINE x == Min(S)
<1>3. x \in S /\ \A y \in S : x <= y
  BY <1>2
<1> HIDE DEF x
<1>4. x # 0 /\ x - 1 \in 0..N - 1 /\ x - 1 \notin S
  BY <1>3
<1> QED BY <1>3, <1>4

(* The edges into a set are edges, and lead into the set.                   *)
LEMMA EdgesIntoLead ==
    ASSUME NEW edges, IsSeq(edges), NEW set
    PROVE  EdgeTargets(EdgesInto(edges, set)) \subseteq EdgeTargets(edges) \cap set
<1> DEFINE in == {i \in DOMAIN edges : edges[i].target \in set}
<1>1. IsFiniteSet(in) /\ in \subseteq Int
  <2>1. DOMAIN edges = 1..Len(edges) /\ Len(edges) \in Nat
    BY SeqOver DEF IsSeq
  <2>2. IsFiniteSet(DOMAIN edges) /\ in \subseteq DOMAIN edges
    BY <2>1, FS_Interval
  <2> QED BY <2>1, <2>2, FS_Subset
<1> HIDE DEF in
<1>2. \A n \in 1..Cardinality(in) : \E i \in in : Place(in, i) = n
  BY <1>1, PlacesOf
<1>3. EdgesInto(edges, set) = [n \in 1..Cardinality(in) |-> edges[CHOOSE i \in in : Place(in, i) = n]]
  BY DEF EdgesInto, in
<1>4. \A n \in 1..Cardinality(in) : (CHOOSE i \in in : Place(in, i) = n) \in in
  BY <1>2
<1> SUFFICES ASSUME NEW n \in 1..Cardinality(in)
             PROVE  EdgesInto(edges, set)[n].target \in EdgeTargets(edges) \cap set
  BY <1>3 DEF EdgeTargets
<1> DEFINE i == CHOOSE i \in in : Place(in, i) = n
<1>5. i \in in /\ EdgesInto(edges, set)[n] = edges[i]
  BY <1>3, <1>4
<1> HIDE DEF i
<1> QED BY <1>5 DEF EdgeTargets, in

(* The instructions lie in memory and have bytes.                           *)
Sized == an.insns \subseteq Addr /\ \A a \in an.insns : img.at[a].len \in Nat \ {0}

(* One step of the walk that makes a block.                                 *)
BlockStep(starts, reachable, first, w, a) ==
    LET next == NextOf(img, a)
        behind(b) == [insns |-> <<a>> \o b.insns, succs |-> b.succs]
    IN  IF a \notin an.insns THEN [insns |-> <<>>, succs |-> <<>>]
        ELSE IF IsBlockTerminator(img.at[a].flow)
             THEN [insns |-> <<a>>, succs |-> EdgesInto(EdgesAt(graph, a), reachable)]
        ELSE IF next # first /\ next \in starts
             THEN [insns |-> <<a>>, succs |-> <<Edge(next, "fallthrough")>>]
        ELSE IF next \notin reachable
             THEN [insns |-> <<a>>, succs |-> <<>>]
        ELSE behind(w[next])

Blocks(starts, reachable, first) ==
    CHOOSE w : w = [a \in 0..Top + Width |-> BlockStep(starts, reachable, first, w, a)]

(* The walks from all addresses exist: those from the last one, then those  *)
(* from the last two, and so on.                                            *)
LEMMA BlocksAre ==
    ASSUME Sized, NEW starts, NEW reachable, reachable \subseteq an.insns, NEW first
    PROVE  /\ NativeBlock(img, an, graph, starts, reachable, first)
                = Blocks(starts, reachable, first)[first]
           /\ \A a \in 0..Top + Width :
                Blocks(starts, reachable, first)[a]
                    = BlockStep(starts, reachable, first, Blocks(starts, reachable, first), a)
<1> DEFINE N == Top + Width
           B(w, a) == BlockStep(starts, reachable, first, w, a)
           IsWalk(k, w) == w = [a \in N + 1 - k..N |-> B(w, a)]
           K == {k \in Nat : \E w : IsWalk(k, w)}
<1>0. N \in Nat /\ Top \in Nat /\ Width \in Nat
  BY ImageAssumption
<1>1. 0 \in K
  <2>1. IsWalk(0, [a \in {} |-> {}])
    BY <1>0
  <2> QED BY <2>1
<1>2. ASSUME NEW k \in 0..(N + 1) - 1, k \in K
      PROVE  k + 1 \in K
  <2>1. PICK w : IsWalk(k, w)
    BY <1>2
  <2> DEFINE next == [a \in N + 1 - (k + 1)..N |-> B(w, a)]
  <2>2. ASSUME NEW a \in N + 1 - k..N
        PROVE  next[a] = w[a]
    <3>1. a \in N + 1 - (k + 1)..N
      BY <1>0, <1>2
    <3> HIDE DEF N
    <3> QED BY <2>1, <3>1
  <2>3. next = [a \in N + 1 - (k + 1)..N |-> next[a]] /\ \A a \in N + 1 - (k + 1)..N : next[a] = B(w, a)
    OBVIOUS
  <2> HIDE DEF next
  <2>4. ASSUME NEW a \in N + 1 - (k + 1)..N
        PROVE  B(next, a) = B(w, a)
    <3>1. CASE a \in an.insns /\ NextOf(img, a) \in reachable
      <4>1. NextOf(img, a) \in Addr /\ NextOf(img, a) > a
        BY <1>0, <3>1 DEF Sized, NextOf, Addr
      <4>2. NextOf(img, a) \in N + 1 - k..N
        BY <1>0, <4>1 DEF Addr
      <4> QED BY <2>2, <4>2 DEF BlockStep
    <3>2. CASE ~(a \in an.insns /\ NextOf(img, a) \in reachable)
      BY <3>2 DEF BlockStep
    <3> QED BY <3>1, <3>2
  <2>5. IsWalk(k + 1, next)
    BY <2>3, <2>4
  <2> QED BY <2>5
<1>3. N + 1 \in K
  <2>1. N + 1 \in Nat
    BY <1>0
  <2> HIDE DEF K, N
  <2> QED BY <1>1, <1>2, <2>1, UpTo
<1>4. \E w : w = [a \in 0..Top + Width |-> B(w, a)]
  <2>1. PICK w : IsWalk(N + 1, w)
    BY <1>3
  <2>2. N + 1 - (N + 1) = 0
    BY <1>0
  <2> QED BY <2>1, <2>2
<1>5. Blocks(starts, reachable, first)
        = [a \in 0..Top + Width |-> B(Blocks(starts, reachable, first), a)]
  BY <1>4 DEF Blocks
<1>6. NativeBlock(img, an, graph, starts, reachable, first) = Blocks(starts, reachable, first)[first]
  BY DEF NativeBlock, Blocks, BlockStep
<1> QED BY <1>5, <1>6

(* What is in the block b that is walked from a.                            *)
IsChain(b, a, starts, reachable) ==
    /\ IsSeq(b.insns) /\ a \in ToSet(b.insns)
    /\ ToSet(b.insns) \subseteq reachable
    /\ \A x \in ToSet(b.insns) \ {a} :
          x \notin starts /\ \E p \in ToSet(b.insns) : NextOf(img, p) = x
    /\ EdgeTargets(b.succs) \subseteq starts \cap reachable

(* Where blocks have to start.                                              *)
Splits(starts, reachable) ==
    /\ starts \subseteq reachable /\ reachable \subseteq an.insns
    /\ \A a \in reachable : /\ IsSeq(EdgesAt(graph, a))
                            /\ IsBlockTerminator(img.at[a].flow) =>
                                  EdgeTargets(EdgesAt(graph, a)) \cap reachable \subseteq starts

LEMMA BlocksAreChains ==
    ASSUME Sized, NEW starts, NEW reachable, Splits(starts, reachable), NEW first \in reachable
    PROVE  IsChain(NativeBlock(img, an, graph, starts, reachable, first), first, starts, reachable)
<1> DEFINE w == Blocks(starts, reachable, first)
           Good(a) == IsChain(w[a], a, starts, reachable)
           K == {k \in Nat : \A a \in reachable : a > Top - k /\ a >= first => Good(a)}
<1>0. Top \in Nat /\ Width \in Nat /\ reachable \subseteq an.insns /\ \A a \in reachable : a \in 0..Top
  BY ImageAssumption DEF Sized, Splits, Addr
<1>1. NativeBlock(img, an, graph, starts, reachable, first) = w[first]
      /\ \A a \in 0..Top + Width : w[a] = BlockStep(starts, reachable, first, w, a)
  BY <1>0, BlocksAre
<1> HIDE DEF w
<1>2. 0 \in K
  BY <1>0
<1>3. ASSUME NEW k \in 0..(Top + 1) - 1, k \in K
      PROVE  k + 1 \in K
  <2> SUFFICES ASSUME NEW a \in reachable, a > Top - (k + 1), a >= first
               PROVE  Good(a)
    OBVIOUS
  <2> DEFINE next == NextOf(img, a)
  <2>1. a \in 0..Top /\ a \in an.insns /\ first \in 0..Top
    BY <1>0
  <2>2. w[a] = BlockStep(starts, reachable, first, w, a)
    BY <1>0, <1>1, <2>1
  <2>3. next \in Int /\ next > a /\ next # first
    BY <2>1 DEF Sized, NextOf
  <2>4. /\ IsSeq(<<a>>) /\ ToSet(<<a>>) = {a}
    BY Short
  <2>5. CASE IsBlockTerminator(img.at[a].flow)
    <3>1. w[a] = [insns |-> <<a>>, succs |-> EdgesInto(EdgesAt(graph, a), reachable)]
      BY <2>1, <2>2, <2>5 DEF BlockStep
    <3>2. EdgeTargets(EdgesInto(EdgesAt(graph, a), reachable)) \subseteq starts \cap reachable
      BY <2>5, EdgesIntoLead DEF Splits
    <3> QED BY <2>4, <3>1, <3>2 DEF IsChain
  <2>6. CASE ~IsBlockTerminator(img.at[a].flow) /\ next \in starts
    <3>1. w[a] = [insns |-> <<a>>, succs |-> <<Edge(next, "fallthrough")>>]
      BY <2>1, <2>2, <2>3, <2>6 DEF BlockStep
    <3>2. EdgeTargets(<<Edge(next, "fallthrough")>>) \subseteq starts \cap reachable
      BY <2>6 DEF EdgeTargets, Edge, Splits
    <3> QED BY <2>4, <3>1, <3>2 DEF IsChain
  <2>7. CASE ~IsBlockTerminator(img.at[a].flow) /\ next \notin starts /\ next \notin reachable
    <3>1. w[a] = [insns |-> <<a>>, succs |-> <<>>]
      BY <2>1, <2>2, <2>7 DEF BlockStep
    <3>2. EdgeTargets(<<>>) \subseteq starts \cap reachable
      BY DEF EdgeTargets
    <3> QED BY <2>4, <3>1, <3>2 DEF IsChain
  <2>8. CASE ~IsBlockTerminator(img.at[a].flow) /\ next \notin starts /\ next \in reachable
    <3>1. w[a] = [insns |-> <<a>> \o w[next].insns, succs |-> w[next].succs]
      BY <2>1, <2>2, <2>8 DEF BlockStep
    <3>2. Good(next)
      BY <1>0, <1>3, <2>1, <2>3, <2>8
    <3>3. IsSeq(<<a>> \o w[next].insns) /\ ToSet(<<a>> \o w[next].insns) = {a} \cup ToSet(w[next].insns)
      BY <2>4, <3>2, Concatenation DEF IsChain
    <3> QED BY <2>8, <3>1, <3>2, <3>3 DEF IsChain
  <2> QED BY <2>5, <2>6, <2>7, <2>8
<1>4. Top + 1 \in K
  <2>1. Top + 1 \in Nat
    BY <1>0
  <2> HIDE DEF K
  <2> QED BY <1>2, <1>3, <2>1, UpTo
<1> QED BY <1>0, <1>1, <1>4

(* Two blocks that share an instruction share the first one they share; it  *)
(* is the end of two instructions, which overlap unless they are the same.  *)
LEMMA ChainsAreApart ==
    ASSUME Sized, NEW starts, NEW reachable, reachable \subseteq Addr, reachable \subseteq an.insns,
           NEW a \in starts, NEW b \in starts, a # b, NEW x, NEW y,
           IsChain(x, a, starts, reachable), IsChain(y, b, starts, reachable),
           \A p, q \in ToSet(x.insns) \cup ToSet(y.insns) : ~(p < q /\ q < NextOf(img, p))
    PROVE  ToSet(x.insns) \cap ToSet(y.insns) = {}
<1> DEFINE S == ToSet(x.insns) \cap ToSet(y.insns)
<1> SUFFICES ASSUME S # {}
             PROVE  FALSE
  OBVIOUS
<1>1. S \subseteq Nat /\ ToSet(x.insns) \subseteq an.insns /\ ToSet(y.insns) \subseteq an.insns
  <2>1. Addr \subseteq Nat
    BY ImageAssumption DEF Addr
  <2>2. ToSet(x.insns) \subseteq reachable /\ ToSet(y.insns) \subseteq reachable
    BY DEF IsChain
  <2> QED BY <2>1, <2>2
<1>2. PICK least \in S : \A z \in S : least <= z
  <2> HIDE DEF S
  <2> QED BY <1>1, MinIsIn
<1>3. least # a /\ least # b
  BY <1>2 DEF IsChain
<1>4. PICK p \in ToSet(x.insns) : NextOf(img, p) = least
  BY <1>2, <1>3 DEF IsChain
<1>5. PICK q \in ToSet(y.insns) : NextOf(img, q) = least
  BY <1>2, <1>3 DEF IsChain
<1>6. /\ p \in Nat /\ q \in Nat /\ p < least /\ q < least /\ least \in Nat
  <2>1. /\ p \in Nat /\ img.at[p].len \in Nat \ {0}
        /\ q \in Nat /\ img.at[q].len \in Nat \ {0} /\ least \in Nat
    BY <1>1, <1>2, <1>4, <1>5, ImageAssumption DEF Sized, Addr
  <2> QED BY <1>4, <1>5, <2>1 DEF NextOf
<1>7. p = q
  BY <1>4, <1>5, <1>6
<1> QED BY <1>2, <1>6, <1>7

(* What is reached from an address of a closed set is in the set.           *)
LEMMA ReachStays ==
    ASSUME NEW S, NEW next, NEW start \in S, \A a \in S \cap DOMAIN next : next[a] \subseteq S
    PROVE  start \in Reach(next, start) /\ Reach(next, start) \subseteq S
<1> DEFINE N == Top + 1
           add(r) == r \cup UNION {next[a] : a \in r \cap DOMAIN next}
           At_(g, n) == IF n = 0 THEN {start} ELSE add(g[n - 1])
           IsGrown(k, g) == g = [n \in 0..k |-> At_(g, n)]
           K == {k \in Nat : \E g : IsGrown(k, g)}
           grown == CHOOSE g : g = [n \in 0..Top + 1 |-> At_(g, n)]
           L == {k \in Nat : start \in grown[k] /\ grown[k] \subseteq S}
<1>0. N \in Nat /\ Top \in Nat
  BY ImageAssumption
<1>1. 0 \in K
  <2>1. IsGrown(0, [n \in {0} |-> {start}])
    OBVIOUS
  <2> QED BY <2>1
<1>2. ASSUME NEW k \in 0..N - 1, k \in K
      PROVE  k + 1 \in K
  <2>1. PICK g : IsGrown(k, g)
    BY <1>2
  <2> DEFINE h == [n \in 0..k + 1 |-> At_(g, n)]
  <2>2. ASSUME NEW n \in 0..k
        PROVE  h[n] = g[n]
    <3>1. n \in 0..k + 1
      OBVIOUS
    <3> QED BY <2>1, <3>1
  <2>3. h = [n \in 0..k + 1 |-> h[n]] /\ \A n \in 0..k + 1 : h[n] = At_(g, n)
    OBVIOUS
  <2> HIDE DEF h
  <2>4. ASSUME NEW n \in 0..k + 1
        PROVE  At_(g, n) = At_(h, n)
    <3>1. n # 0 => n - 1 \in 0..k
      OBVIOUS
    <3> QED BY <2>2, <3>1
  <2>5. IsGrown(k + 1, h)
    BY <2>3, <2>4
  <2> QED BY <2>5
<1>3. N \in K
  <2> HIDE DEF K, N
  <2> QED BY <1>0, <1>1, <1>2, UpTo
<1>4. grown = [n \in 0..Top + 1 |-> At_(grown, n)]
  BY <1>3
<1>5. Reach(next, start) = grown[Top + 1]
  BY DEF Reach
<1> HIDE DEF grown
<1>6. 0 \in L
  BY <1>0, <1>4
<1>7. ASSUME NEW k \in 0..N - 1, k \in L
      PROVE  k + 1 \in L
  <2>1. grown[k + 1] = add(grown[k])
    BY <1>0, <1>4
  <2> QED BY <1>7, <2>1
<1>8. N \in L
  <2> HIDE DEF L, N
  <2> QED BY <1>0, <1>6, <1>7, UpTo
<1> QED BY <1>5, <1>8

(* What the view of a function has to be.                                   *)
Overlap(p, q) == p < q /\ q < NextOf(img, p)

ViewIsSound(view) ==
    \A b \in DOMAIN view :
        /\ EdgeTargets(view[b].succs) \subseteq DOMAIN view
        /\ \A c \in DOMAIN view \ {b} :
              \/ ToSet(view[b].insns) \cap ToSet(view[c].insns) = {}
              \/ \E p, q \in ToSet(view[b].insns) \cup ToSet(view[c].insns) : Overlap(p, q)

LEMMA NativeViewsAreSound ==
    ASSUME Sized, \A a \in an.insns : IsSeq(EdgesAt(graph, a)), NEW f, NEW isolate,
           ~NativeView(img, an, graph, f, isolate).oversized
    PROVE  ViewIsSound(NativeView(img, an, graph, f, isolate).blocks)
<1> DEFINE reachable == Reachable(an, graph, f, isolate)
           starts == BlockStarts(img, an, graph, f, reachable)
           view == [b \in starts \cap reachable |-> NativeBlock(img, an, graph, starts, reachable, b)]
<1>1. NativeView(img, an, graph, f, isolate).blocks = view
  BY DEF NativeView, LimitError, View
<1>2. reachable \subseteq an.insns /\ (reachable # {} => f \in reachable)
  <2>1. CASE f \in an.insns
    <3> DEFINE next == [a \in an.insns |-> IF isolate THEN {}
                          ELSE Followed(an, EdgesAt(graph, a), f) \cap an.insns]
    <3>1. \A a \in an.insns \cap DOMAIN next : next[a] \subseteq an.insns
      OBVIOUS
    <3>2. reachable = Reach(next, f)
      BY <2>1 DEF Reachable
    <3> HIDE DEF next, reachable
    <3> QED BY <2>1, <3>1, <3>2, ReachStays
  <2>2. CASE f \notin an.insns
    BY <2>2 DEF Reachable
  <2> QED BY <2>1, <2>2
<1> HIDE DEF reachable
<1>3. reachable # {} => Splits(starts, reachable)
  <2> SUFFICES ASSUME reachable # {}
               PROVE  Splits(starts, reachable)
    OBVIOUS
  <2>1. starts \subseteq reachable
    BY <1>2 DEF BlockStarts
  <2>2. \A a \in reachable : IsBlockTerminator(img.at[a].flow) =>
            EdgeTargets(EdgesAt(graph, a)) \cap reachable \subseteq starts
    BY DEF BlockStarts
  <2> HIDE DEF starts
  <2> QED BY <1>2, <2>1, <2>2 DEF Splits
<1> HIDE DEF starts
<1>4. ASSUME NEW b \in DOMAIN view
      PROVE  b \in starts /\ Splits(starts, reachable) /\ IsChain(view[b], b, starts, reachable)
  BY <1>3, <1>4, BlocksAreChains
<1>5. DOMAIN view = starts \cap reachable
  OBVIOUS
<1> HIDE DEF view
<1>6. ViewIsSound(view)
  <2> SUFFICES ASSUME NEW b \in DOMAIN view
               PROVE  /\ EdgeTargets(view[b].succs) \subseteq DOMAIN view
                      /\ \A c \in DOMAIN view \ {b} :
                            \/ ToSet(view[b].insns) \cap ToSet(view[c].insns) = {}
                            \/ \E p, q \in ToSet(view[b].insns) \cup ToSet(view[c].insns) : Overlap(p, q)
    BY DEF ViewIsSound
  <2>1. EdgeTargets(view[b].succs) \subseteq DOMAIN view
    BY <1>4, <1>5 DEF IsChain
  <2>2. ASSUME NEW c \in DOMAIN view \ {b},
               ~ \E p, q \in ToSet(view[b].insns) \cup ToSet(view[c].insns) : Overlap(p, q)
        PROVE  ToSet(view[b].insns) \cap ToSet(view[c].insns) = {}
    <3>1. reachable \subseteq an.insns /\ reachable \subseteq Addr
      BY <1>2 DEF Sized
    <3>2. \A p, q \in ToSet(view[b].insns) \cup ToSet(view[c].insns) : ~(p < q /\ q < NextOf(img, p))
      BY <2>2 DEF Overlap
    <3>3. /\ b \in starts /\ IsChain(view[b], b, starts, reachable)
          /\ c \in starts /\ IsChain(view[c], c, starts, reachable) /\ b # c
      BY <1>4
    <3> QED BY <3>1, <3>2, <3>3, ChainsAreApart
  <2> QED BY <2>1, <2>2
<1> QED BY <1>1, <1>6

----------------------------------------------------------------------------
(* A native sweep *)

(* Decoded instructions have bytes.                                         *)
DecodedHaveBytes == \A a \in img.exec : img.at[a] # None => img.at[a].len \in Nat \ {0}

(* A native sweep looks for no pointers, keeps no extents while it walks,   *)
(* and its waves know of no functions.                                      *)
NativeLoop ==
    /\ main.early
    /\ main.pc \in {"top", "pop", "wave", "cookies", "views", "done"}
    /\ main.pc = "wave" => main.known = None
    /\ DOMAIN graph.completed = {}

(* Its walks have paths to take and nothing to finish.                      *)
ArePaths(tasks) == IsSeq(tasks) /\ \A t \in ToSet(tasks) : t.kind = "path"
NativeWalk == walk.known = None /\ walk.resume = FALSE /\ ArePaths(walk.tasks) /\ Due(walk) = {}

(* They walk executable instructions only, each with a list of edges.       *)
IsOrderly(a) == a \in img.exec /\ img.at[a] # None /\ IsSeq(EdgesAt(graph, a))
CodeIsOrderly == \A a \in an.insns : IsOrderly(a)

NativeSweep == ~graph.compat /\ main.pc # "pass" => NativeLoop /\ NativeWalk /\ CodeIsOrderly

ViewsAreSound == Done /\ ~graph.compat => \A f \in DOMAIN an.functions : ViewIsSound(an.functions[f])

NInv == DecodedHaveBytes /\ NativeSweep /\ ViewsAreSound

----------------------------------------------------------------------------
(* The steps of a native walk *)

(* Paths, alone and behind others.                                          *)
LEMMA SomePaths ==
    /\ ArePaths(<<>>)
    /\ \A targets : ArePaths(Paths(targets))
    /\ \A a : ArePaths(<<Path(a)>>)
    /\ \A s, t : ArePaths(s) /\ ArePaths(t) => ArePaths(s \o t)
<1>1. ArePaths(<<>>)
  BY Short DEF ArePaths
<1>2. ASSUME NEW t, t.kind = "path"
      PROVE  ArePaths(<<t>>)
  BY <1>2, Short DEF ArePaths
<1>3. \A targets : ArePaths(Paths(targets))
  BY <1>1, <1>2 DEF Paths, Batch
<1>4. \A a : ArePaths(<<Path(a)>>)
  BY <1>2 DEF Path
<1>5. ASSUME NEW s, NEW t, ArePaths(s), ArePaths(t)
      PROVE  ArePaths(s \o t)
  <2>1. IsSeq(s \o t) /\ ToSet(s \o t) = ToSet(s) \cup ToSet(t)
    BY <1>5, Concatenation DEF ArePaths
  <2> QED BY <1>5, <2>1 DEF ArePaths
<1> QED BY <1>1, <1>3, <1>4, <1>5

(* The steps of a native walk: it goes on with paths, or ends; one          *)
(* instruction becomes code at most, with a list of edges.                  *)
Plods ==
    /\ walk'.resume = FALSE /\ ArePaths(walk'.tasks)
    /\ \/ an'.insns = an.insns /\ graph'.succ = graph.succ
       \/ /\ an'.insns = an.insns \cup {walk.at} /\ walk.at \in img.exec /\ img.at[walk.at] # None
          /\ \E list : IsSeq(list) /\ graph'.succ = Insert(graph.succ, walk.at, list)

(* What is assumed of a state in which a native walk takes a step.          *)
Plodding == Inv /\ Walkable /\ walk.on /\ ~graph.compat /\ NativeWalk

(* Nothing but a path is taken.                                             *)
LEMMA OnlyPaths ==
    ASSUME Plodding, NEW kind, AtTask(kind)
    PROVE  kind = "path" /\ ArePaths(Rest)
<1>1. IsSeq(walk.tasks) /\ walk.tasks # <<>> /\ Head(walk.tasks).kind = kind
  BY DEF AtTask, Plodding, Walkable
<1>2. /\ Head(walk.tasks) \in ToSet(walk.tasks) /\ IsSeq(Rest)
      /\ ToSet(Rest) \subseteq ToSet(walk.tasks)
  BY <1>1, HeadAndTail DEF Rest
<1> QED BY <1>1, <1>2 DEF Plodding, NativeWalk, ArePaths

(* A path is taken, or ends before an instruction.                          *)
LEMMA PathsPlod ==
    ASSUME Plodding, TakePath \/ StopPath \/ RejectInstruction
    PROVE  Plods
<1>1. DOMAIN walk = WalkFields
  BY DEF Plodding, Walkable
<1>2. CASE TakePath
  <2>1. ~AtTask("opcode")
    BY OnlyPaths
  <2>2. AtTask("path") /\ ArePaths(Rest) /\ UNCHANGED <<an, graph>>
    BY <1>2, <2>1, OnlyPaths DEF TakePath
  <2> DEFINE tasks == Paths(Tail(Head(walk.tasks).list)) \o Rest
             at == Head(Head(walk.tasks).list)
  <2>3. walk' = [walk EXCEPT !.tasks = tasks, !.at = at, !.resume = FALSE]
    BY <1>2, <2>1 DEF TakePath
  <2>4. ArePaths(tasks)
    BY <2>2, SomePaths
  <2> HIDE DEF tasks, at
  <2>5. walk'.resume = FALSE /\ walk'.tasks = tasks
    BY <1>1, <2>3 DEF WalkFields
  <2> QED BY <2>2, <2>4, <2>5 DEF Plods
<1>3. CASE StopPath \/ RejectInstruction
  <2>1. \E failed : walk' = [walk EXCEPT !.at = None, !.failed = failed]
    BY <1>3 DEF StopPath, RejectInstruction
  <2>2. an'.insns = an.insns /\ graph' = graph
    BY <1>3, QuietPathKeeps DEF Plodding, StopPath, RejectInstruction
  <2>3. walk'.resume = walk.resume /\ walk'.tasks = walk.tasks
    BY <1>1, <2>1 DEF WalkFields
  <2> QED BY <2>2, <2>3 DEF Plods, Plodding, NativeWalk
<1> QED BY <1>2, <1>3

(* The arms that are resolved natively are a list.                          *)
LEMMA NativeArms ==
    ASSUME ~graph.compat, NEW a, NEW x
    PROVE  IsSeq(ArmsOf(a, x).targets)
<1> DEFINE op == img.at[a]
           none == [targets |-> None, xrefs |-> x.xrefs, diags |-> {}, locs |-> <<>>]
           scanned == [none EXCEPT !.targets = JumpTableTargets(img, op)]
           s == SwitchTargets(img, x, a, None)
           switched == [none EXCEPT !.targets = s.targets, !.locs = s.locs]
<1>1. ArmsOf(a, x) = IF s.targets = None THEN scanned ELSE switched
  BY Zenon DEF ArmsOf
<1>2. IsSeq(JumpTableTargets(img, op))
  BY AscendingHasAll DEF JumpTableTargets
<1>3. \A d, compare : LET g == GuardedTargets(img, x, d, compare, a, None)
                      IN  g.targets = None \/ IsSeq(g.targets)
  <2> SUFFICES ASSUME NEW d, NEW compare
               PROVE  LET g == GuardedTargets(img, x, d, compare, a, None)
                      IN  g.targets = None \/ IsSeq(g.targets)
    OBVIOUS
  <2> DEFINE g == GuardedTargets(img, x, d, compare, a, None)
  <2>1. g = Unresolved \/ \E ts : g = Resolution(Ascending(ToSet(ts)), <<>>)
    BY Zenon DEF GuardedTargets
  <2>2. \A ts, locs : Resolution(ts, locs).targets = ts
    BY DEF Resolution
  <2> HIDE DEF g
  <2>3. g.targets = None \/ \E ts : g.targets = Ascending(ToSet(ts))
    BY <2>1, <2>2 DEF Unresolved
  <2> QED BY <2>3, AscendingHasAll DEF g
<1>4. s.targets = None \/ IsSeq(s.targets)
  <2>1. \/ s = Unresolved
        \/ \E d, compare : s = GuardedTargets(img, x, d, compare, a, None)
    BY Zenon DEF SwitchTargets
  <2>2. Unresolved.targets = None
    BY DEF Unresolved, Resolution
  <2> HIDE DEF s
  <2> QED BY <1>3, <2>1, <2>2
<1>5. scanned.targets = JumpTableTargets(img, op) /\ switched.targets = s.targets
  <2> HIDE DEF s
  <2> QED OBVIOUS
<1> HIDE DEF scanned, switched, s
<1> QED BY <1>1, <1>2, <1>4, <1>5

(* A list of edges, one to each target.                                     *)
LEMMA EdgeLists ==
    ASSUME NEW ts, IsSeq(ts), NEW kind
    PROVE  IsSeq([i \in DOMAIN ts |-> Edge(ts[i], kind)])
<1> DEFINE edges == [i \in DOMAIN ts |-> Edge(ts[i], kind)]
<1>1. DOMAIN ts = 1..Len(ts) /\ Len(ts) \in Nat
  BY SeqOver DEF IsSeq
<1>2. edges \in [1..Len(ts) -> {Edge(t, kind) : t \in ToSet(ts)}]
  BY <1>1 DEF ToSet
<1>3. edges \in Seq({Edge(t, kind) : t \in ToSet(ts)})
  BY <1>1, <1>2
<1> HIDE DEF edges
<1>4. IsSeq(edges)
  BY <1>3, SeqOver
<1> QED BY <1>4 DEF edges

(* What is known of an instruction that is walked natively.                 *)
Plain(r) ==
    /\ Plodding /\ Recorded(r, walk.at)
    /\ walk.at \in img.exec /\ img.at[walk.at] # None

(* An instruction with its edges and the paths behind it.                   *)
LEMMA EdgesPlod ==
    ASSUME NEW r, Plain(r), NEW list, IsSeq(list), an'.insns = r.an.insns,
           graph'.succ = Insert(graph.succ, walk.at, list),
           walk'.resume = FALSE, ArePaths(walk'.tasks)
    PROVE  Plods
BY DEF Plain, Recorded, Plods

(* New paths come behind the others.                                        *)
LEMMA QueuedPaths ==
    ASSUME Plodding
    PROVE  ArePaths(walk.tasks) /\ \A targets : ArePaths(Queue(targets, walk.tasks))
BY SomePaths DEF Plodding, NativeWalk, Queue, Loose

(* The walk that goes on with other tasks.                                  *)
LEMMA GoesOnWith ==
    ASSUME Plodding, NEW at, NEW tasks
    PROVE  /\ DOMAIN GoOn(at, tasks) = WalkFields
           /\ GoOn(at, tasks).tasks = tasks /\ GoOn(at, tasks).resume = FALSE
BY DEF Plodding, Walkable, GoOn, Counted, WalkFields

(* An instruction that does not branch, or branches to targets.             *)
LEMMA StraightPlods ==
    ASSUME NEW r, Plain(r), NEW list, IsSeq(list), graph' = Edges(list),
           an' = r.an \/ \E x : an' = [r.an EXCEPT !.xrefs = x],
           NEW at, NEW tasks, tasks = walk.tasks \/ \E targets : tasks = Queue(targets, walk.tasks),
           walk' = GoOn(at, tasks) \/ \E waits : walk' = [GoOn(at, tasks) EXCEPT !.delayed = waits]
    PROVE  Plods
<1>1. DOMAIN r.an = AnalysisFields /\ DOMAIN graph = GraphFields
  BY DEF Plain, Plodding, Recorded, Carries, Inv, Fields
<1>2. an'.insns = r.an.insns
  BY <1>1 DEF AnalysisFields
<1>3. graph'.succ = Insert(graph.succ, walk.at, list)
  BY <1>1 DEF Edges, GraphFields
<1>4. walk'.resume = FALSE /\ walk'.tasks = tasks
  <2> DEFINE w == GoOn(at, tasks)
  <2>1. DOMAIN w = WalkFields /\ w.tasks = tasks /\ w.resume = FALSE
    BY GoesOnWith DEF Plain
  <2> HIDE DEF w
  <2> QED BY <2>1 DEF w, WalkFields
<1>5. ArePaths(tasks)
  BY QueuedPaths DEF Plain
<1> QED BY <1>2, <1>3, <1>4, <1>5, EdgesPlod

(* A call goes on behind itself: natively no callee is walked first.        *)
LEMMA CallPlods ==
    ASSUME NEW r, Plain(r), WalkCall(r)
    PROVE  Plods
<1> DEFINE a == walk.at
           list == IF EndsFlow(a) THEN <<>> ELSE <<Edge(NextOf(img, a), "fallthrough")>>
<1>1. ~Descends(a)
  BY DEF Descends, IsFirstKnown, Loose, Plain, Plodding, NativeWalk
<1>2. IsSeq(list)
  BY Short
<1>3. an'.insns = r.an.insns
  <2>1. DOMAIN r.an = AnalysisFields
    BY DEF Plain, Recorded, Carries
  <2>2. \E x, n, d : an' = [r.an EXCEPT !.xrefs = x, !.noretCalls = n, !.diags = d]
    BY Zenon DEF WalkCall
  <2> QED BY <2>1, <2>2 DEF AnalysisFields
<1>4. graph'.succ = Insert(graph.succ, a, list)
  <2>1. \E fns : graph' = [Edges(list) EXCEPT !.importFns = fns]
    BY Zenon DEF WalkCall
  <2>2. DOMAIN graph = GraphFields
    BY DEF Plain, Plodding, Inv, Fields
  <2>3. DOMAIN Edges(list) = GraphFields /\ Edges(list).succ = Insert(graph.succ, a, list)
    BY <2>2 DEF Edges, GraphFields
  <2> HIDE DEF list
  <2> QED BY <2>1, <2>3 DEF GraphFields
<1>5. walk'.resume = FALSE /\ walk'.tasks = walk.tasks
  <2>1. \E at, calls, known : walk' = [GoOn(at, walk.tasks) EXCEPT !.calls = calls, !.known = known]
    BY <1>1, Zenon DEF WalkCall
  <2>2. PICK at, calls, known : walk' = [GoOn(at, walk.tasks) EXCEPT !.calls = calls, !.known = known]
    BY <2>1
  <2> DEFINE w == GoOn(at, walk.tasks)
  <2>3. DOMAIN w = WalkFields /\ w.tasks = walk.tasks /\ w.resume = FALSE
    BY GoesOnWith DEF Plain
  <2> HIDE DEF w
  <2> QED BY <2>2, <2>3 DEF w, WalkFields
<1> HIDE DEF list
<1> QED BY <1>2, <1>3, <1>4, <1>5, EdgesPlod, QueuedPaths DEF Plain

(* The arms of an indirect jump are paths behind the others.                *)
LEMMA IndirectPlods ==
    ASSUME NEW r, Plain(r), WalkIndirect(r)
    PROVE  Plods
<1> DEFINE a == walk.at
           split(arms, x) == IF graph.compat THEN SplitAdjacentTables(img, x, graph, a, arms.targets)
                             ELSE Separation(x.xrefs, graph.succ, graph.completed, {})
<1>0. ~graph.compat /\ DOMAIN graph = GraphFields /\ DOMAIN r.an = AnalysisFields
  BY DEF Plain, Plodding, Inv, Fields, Recorded, Carries
<1>1. PICK arms, s : IsSeq(arms.targets) /\ s.succ = graph.succ /\ TakeArms(r, arms, s)
  <2>1. PICK arms \in {ArmsOf(a, r.an)} :
           \E s \in {split(arms, [r.an EXCEPT !.xrefs = arms.xrefs, !.diags = @ \cup arms.diags])} :
              TakeArms(r, arms, s)
    BY DEF WalkIndirect
  <2> DEFINE x == [r.an EXCEPT !.xrefs = arms.xrefs, !.diags = @ \cup arms.diags]
  <2>2. TakeArms(r, arms, split(arms, x))
    BY <2>1
  <2>3. split(arms, x).succ = graph.succ
    BY <1>0 DEF Separation
  <2>4. IsSeq(arms.targets)
    BY <1>0, <2>1, NativeArms
  <2> HIDE DEF split, x
  <2> QED BY <2>2, <2>3, <2>4
<1> DEFINE ts == arms.targets
           pointer == ts # <<>> /\ IsPointerJump(img, img.at[a])
           list == IF pointer THEN <<>> ELSE [i \in DOMAIN ts |-> Edge(ts[i], "table")]
<1>2. IsSeq(list)
  <2> DEFINE arcs == [i \in DOMAIN ts |-> Edge(ts[i], "table")]
  <2>1. IsSeq(arcs)
    BY <1>1, EdgeLists
  <2> HIDE DEF arcs, pointer
  <2>2. list = IF pointer THEN <<>> ELSE arcs
    BY DEF arcs
  <2> QED BY <2>1, <2>2, Short
<1>3. an'.insns = r.an.insns
  <2>1. \E x, d : an' = [r.an EXCEPT !.xrefs = x, !.diags = d]
    BY <1>1, Zenon DEF TakeArms
  <2> QED BY <1>0, <2>1 DEF AnalysisFields
<1>4. graph'.succ = Insert(graph.succ, a, list)
  <2>1. \E c, t : graph' = [graph EXCEPT !.succ = Insert(s.succ, a, list), !.completed = c, !.tables = t]
    BY <1>1, Zenon DEF TakeArms
  <2> HIDE DEF list
  <2> QED BY <1>0, <1>1, <2>1 DEF GraphFields
<1>5. walk'.resume = FALSE /\ walk'.tasks = Queue(ts, walk.tasks)
  <2>1. \E waits : walk' = [GoOn(None, Queue(ts, walk.tasks)) EXCEPT !.delayed = waits]
    BY <1>1, Zenon DEF TakeArms
  <2> DEFINE tasks == Queue(ts, walk.tasks)
             w == GoOn(None, tasks)
  <2> HIDE DEF tasks
  <2>2. DOMAIN w = WalkFields /\ w.tasks = tasks /\ w.resume = FALSE
    BY GoesOnWith DEF Plain
  <2> HIDE DEF w
  <2> QED BY <2>1, <2>2 DEF w, tasks, WalkFields
<1> HIDE DEF list, ts
<1> QED BY <1>2, <1>3, <1>4, <1>5, EdgesPlod, QueuedPaths DEF Plain

(* The seven kinds of flow.                                                 *)
LEMMA FlowPlods ==
    ASSUME NEW r, Plain(r), WalkFlow(r)
    PROVE  Plods
<1> DEFINE a == walk.at
<1>1. CASE WalkNext(r) \/ WalkThunk(r) \/ WalkReturn(r)
  <2>1. /\ an' = r.an
        /\ \E list : IsSeq(list) /\ graph' = Edges(list)
        /\ \E at : walk' = GoOn(at, walk.tasks)
    BY <1>1, Short DEF WalkNext, WalkThunk, WalkReturn
  <2> QED BY <2>1, StraightPlods
<1>2. CASE WalkConditional(r)
  <2> DEFINE op == img.at[a]
             next == NextOf(img, a)
             x == IF op.direct = None THEN r.an.xrefs ELSE PushXref(r.an.xrefs, op.direct, a)
             targets == IF op.direct = None THEN <<next>> ELSE <<next, op.direct>>
             list == IF op.direct = None THEN <<Edge(next, "fallthrough")>>
                     ELSE <<Edge(next, "fallthrough"), Edge(op.direct, "branch")>>
             delayed == IF graph.compat /\ op.direct # None
                        THEN DelayForBranches(walk.delayed, walk.tasks, {op.direct, next})
                        ELSE walk.delayed
  <2>1. /\ an' = [r.an EXCEPT !.xrefs = x] /\ graph' = Edges(list)
        /\ walk' = [GoOn(None, Queue(targets, walk.tasks)) EXCEPT !.delayed = delayed]
    BY <1>2 DEF WalkConditional
  <2>2. IsSeq(list)
    BY Short
  <2> HIDE DEF x, targets, list, delayed
  <2> QED BY <2>1, <2>2, StraightPlods
<1>3. CASE WalkJump(r)
  <2>1. CASE img.at[a].direct = None
    <3>1. an' = r.an /\ graph' = Edges(<<>>) /\ walk' = GoOn(None, walk.tasks)
      BY <1>3, <2>1 DEF WalkJump
    <3> QED BY <3>1, Short, StraightPlods
  <2>2. CASE img.at[a].direct # None
    <3> DEFINE t == img.at[a].direct
    <3>1. /\ an' = [r.an EXCEPT !.xrefs = PushXref(@, t, a)]
          /\ graph' = Edges(<<Edge(t, "branch")>>)
          /\ \E waits : walk' = [GoOn(None, Queue(<<t>>, walk.tasks)) EXCEPT !.delayed = waits]
      BY <1>3, <2>2, Zenon DEF WalkJump
    <3> DEFINE x == PushXref(r.an.xrefs, t, a)
               list == <<Edge(t, "branch")>>
               tasks == Queue(<<t>>, walk.tasks)
    <3>2. IsSeq(list) /\ an' = [r.an EXCEPT !.xrefs = x] /\ graph' = Edges(list)
          /\ \E waits : walk' = [GoOn(None, tasks) EXCEPT !.delayed = waits]
      BY <3>1, Short
    <3>3. \E targets : tasks = Queue(targets, walk.tasks)
      OBVIOUS
    <3> HIDE DEF x, list, tasks
    <3> QED BY <3>2, <3>3, StraightPlods
  <2> QED BY <2>1, <2>2
<1>4. CASE WalkCall(r)
  BY <1>4, CallPlods
<1>5. CASE WalkIndirect(r)
  BY <1>5, IndirectPlods
<1> QED BY <1>1, <1>2, <1>3, <1>4, <1>5 DEF WalkFlow

(* An instruction that is walked is executable and decoded.                 *)
LEMMA InstructionPlods ==
    ASSUME Plodding, WalkInstruction
    PROVE  Plods
<1> DEFINE r == Record(walk.at)
<1>1. Recorded(r, walk.at)
  BY RecordKeeps DEF Recorded, Plodding, Inv
<1>2. walk.at \in img.exec
  BY DEF WalkInstruction, Passes, IsBarrier, IsExecutable, Plodding, NativeWalk
<1>3. img.at[walk.at] # None
  BY DEF WalkInstruction, IsUndecodable
<1>4. SuspendOpcode(r) \/ WalkFlow(r)
  BY DEF WalkInstruction
<1> HIDE DEF r
<1>5. ~SuspendOpcode(r)
  BY <1>1 DEF SuspendOpcode, IsSuspended, Recorded, Plodding
<1> QED BY <1>1, <1>2, <1>3, <1>4, <1>5, FlowPlods DEF Plain

(* Every native step of a walk but its end.                                 *)
LEMMA NativeWalkPlods ==
    ASSUME Plodding, WalkStep, ~EndWalk, ~AbandonWalk
    PROVE  Plods
<1>1. ~AtTask("call") /\ ~AtTask("finish") /\ ~AtTask("callback") /\ ~AtTask("pointers")
      /\ ~AtTask("finalize") /\ ~AtTask("local") /\ ~AtTask("release")
  BY OnlyPaths
<1>2. TakePath \/ StopPath \/ RejectInstruction \/ WalkInstruction
  BY <1>1 DEF WalkStep, ResumeCall, FinishFunction, CallbackTarget, FollowPointers,
              FinalizeFunction, FlirtLocal, ReleaseDelayed
<1> QED BY <1>2, PathsPlod, InstructionPlods

----------------------------------------------------------------------------
(* The sweep keeps the invariant *)

(* The code stays orderly when nothing or one instruction is added.         *)
LEMMA PlodsOrderly ==
    ASSUME KeepsImage, CodeIsOrderly, Plods
    PROVE  CodeIsOrderly'
<1>1. CASE an'.insns = an.insns /\ graph'.succ = graph.succ
  BY <1>1 DEF KeepsImage, CodeIsOrderly, IsOrderly, EdgesAt
<1>2. ASSUME NEW list, IsSeq(list), an'.insns = an.insns \cup {walk.at},
             walk.at \in img.exec, img.at[walk.at] # None,
             graph'.succ = Insert(graph.succ, walk.at, list)
      PROVE  CodeIsOrderly'
  <2>1. EdgesAt(graph', walk.at) = list
        /\ \A a : a # walk.at => EdgesAt(graph', a) = EdgesAt(graph, a)
    BY <1>2 DEF EdgesAt, Insert
  <2>2. ASSUME NEW a \in an'.insns
        PROVE  a \in img'.exec /\ img'.at[a] # None /\ IsSeq(EdgesAt(graph', a))
    BY <1>2, <2>1 DEF KeepsImage, CodeIsOrderly, IsOrderly
  <2> QED BY <2>2 DEF CodeIsOrderly, IsOrderly
<1> QED BY <1>1, <1>2 DEF Plods

(* Nothing is due when only paths are left.                                 *)
LEMMA NothingDue ==
    ASSUME NEW w, ArePaths(w.tasks), DOMAIN w.delayed = {}
    PROVE  Due(w) = {}
BY DEF ArePaths, Due, Finishers

(* No walk is one that has nothing to do.                                   *)
LEMMA NoWalkIsNative ==
    /\ NoWalk.known = None /\ NoWalk.resume = FALSE /\ ArePaths(NoWalk.tasks) /\ Due(NoWalk) = {}
<1>1. /\ NoWalk.known = None /\ NoWalk.resume = FALSE /\ NoWalk.tasks = <<>>
      /\ DOMAIN NoWalk.delayed = {}
  BY DEF NoWalk
<1> QED BY <1>1, SomePaths, NothingDue

(* A walk that begins natively has one path.                                *)
LEMMA WalksBegin ==
    ASSUME ~graph.compat, NEW a, NEW caller, walk' = Walk(a, None, caller)
    PROVE  NativeWalk'
<1> DEFINE tasks == <<Path(a)>>
<1>1. walk' = [NoWalk EXCEPT !.on = TRUE, !.start = a, !.known = None, !.caller = caller,
                             !.tasks = tasks]
  BY DEF Walk
<1>2. ArePaths(tasks)
  BY SomePaths
<1> HIDE DEF tasks
<1>3. walk'.known = None /\ walk'.resume = FALSE /\ walk'.tasks = tasks /\ DOMAIN walk'.delayed = {}
  BY <1>1 DEF NoWalk
<1> QED BY <1>2, <1>3, NothingDue DEF NativeWalk

(* A step of a walk.                                                        *)
LEMMA WalkKeepsNative ==
    ASSUME Inv, QInv, NInv, WalkStep
    PROVE  NInv'
<1>1. Keeps /\ KeepsMain /\ walk.on /\ Fields
  BY WalkKeeps DEF Inv
<1>2. DecodedHaveBytes' /\ ~Done' /\ main.pc # "pass"
  BY <1>1 DEF NInv, DecodedHaveBytes, Keeps, KeepsImage, KeepsMain, Done, Inv, Control, QInv, Shapes
<1>3. NativeSweep'
  <2> SUFFICES ASSUME ~graph.compat
               PROVE  NativeLoop' /\ NativeWalk' /\ CodeIsOrderly'
    BY <1>1 DEF NativeSweep, Keeps, KnownGrows
  <2>1. NativeLoop /\ NativeWalk /\ CodeIsOrderly
    BY <1>2 DEF NInv, NativeSweep
  <2>2. CASE EndWalk \/ AbandonWalk
    <3>1. /\ an'.insns = an.insns /\ graph'.succ = graph.succ /\ walk' = NoWalk
          /\ graph' = graph \/ graph' = [graph EXCEPT !.delayed = @ \cup DOMAIN walk.delayed]
      BY <2>2, EndWalkKeeps DEF EndWalk, AbandonWalk, ReturnCalls
    <3>2. \E pending, at : main' = [main EXCEPT !.pending = pending, !.known = walk.known,
                                                !.waved = Waved, !.at = at]
      BY <2>2, Zenon DEF EndWalk, AbandonWalk, ReturnCalls
    <3>3. CodeIsOrderly'
      BY <1>1, <2>1, <3>1 DEF Keeps, KeepsImage, CodeIsOrderly, IsOrderly, EdgesAt
    <3>4. NativeWalk'
      BY <3>1, NoWalkIsNative DEF NativeWalk
    <3>5. graph'.completed = graph.completed
      BY <1>1, <3>1 DEF Fields, GraphFields
    <3>6. main'.early = main.early /\ main'.pc = main.pc /\ main'.known = walk.known
      BY <1>1, <3>2 DEF Fields, MainFields
    <3>7. NativeLoop'
      BY <2>1, <3>5, <3>6 DEF NativeLoop, NativeWalk
    <3> QED BY <3>3, <3>4, <3>7
  <2>3. CASE ~EndWalk /\ ~AbandonWalk
    <3>1. Walkable
      BY DEF Inv, QInv, Shapes, Walkable
    <3>2. Owes /\ Plods
      BY <1>1, <2>1, <2>3, <3>1, WalkOwes, NativeWalkPlods DEF Plodding
    <3>3. CodeIsOrderly'
      BY <1>1, <2>1, <3>2, PlodsOrderly DEF Keeps
    <3>4. walk'.known = None /\ DOMAIN walk'.delayed = {} /\ DOMAIN graph'.completed = {}
          /\ main' = main
      BY <2>1, <3>2 DEF Owes, NativeWalk, NativeLoop
    <3>5. NativeWalk'
      BY <3>2, <3>4, NothingDue DEF NativeWalk, Plods
    <3>6. NativeLoop'
      BY <2>1, <3>4 DEF NativeLoop
    <3> QED BY <3>3, <3>5, <3>6
  <2> QED BY <2>2, <2>3
<1> QED BY <1>2, <1>3 DEF NInv, ViewsAreSound

(* A step of the loop inside a pass.                                        *)
LEMMA LoopKeepsNative ==
    ASSUME Inv, QInv, NInv, SweepStep, ~StartPass, ~EndSweep
    PROVE  NInv'
<1>1. StaysInPass /\ Keeps /\ Fields /\ ~walk.on /\ walk = NoWalk
  <2>1. ~walk.on
    BY DEF SweepStep, EndPlt, WalkPlt, LoopTop, PopStart, BeginNext, TryCandidate, EndBatch,
           EndEarly, WalkFragment, EndWave, GoWave, CookieWave, EmptyQueue, At
  <2> QED BY <2>1, SweepStays DEF Inv, QInv, Shapes
<1>2. DecodedHaveBytes' /\ ~Done' /\ main.pc # "pass"
  BY <1>1 DEF NInv, DecodedHaveBytes, Keeps, KeepsImage, StaysInPass, GoesOn, Done, PassSteps
<1>3. NativeSweep'
  <2> SUFFICES ASSUME ~graph.compat
               PROVE  NativeLoop' /\ NativeWalk' /\ CodeIsOrderly'
    BY <1>1 DEF NativeSweep, Keeps, KnownGrows
  <2>1. NativeLoop /\ NativeWalk /\ CodeIsOrderly
    BY <1>2 DEF NInv, NativeSweep
  <2>2. an'.insns = an.insns /\ graph'.succ = graph.succ /\ graph'.completed = graph.completed
    BY <1>1 DEF StaysInPass, Annotated, Fields, GraphFields
  <2>3. CodeIsOrderly'
    BY <1>1, <2>1, <2>2 DEF Keeps, KeepsImage, CodeIsOrderly, IsOrderly, EdgesAt
  <2>4. LoopTop \/ PopStart \/ WalkFragment \/ EndWave \/ GoWave \/ CookieWave \/ EmptyQueue
    BY <2>1 DEF SweepStep, NativeLoop, EndPlt, WalkPlt, BeginNext, TryCandidate, EndBatch,
                EndEarly, At
  <2>5. NativeWalk'
    <3>1. walk' = walk => NativeWalk'
      BY <2>1 DEF NativeWalk, Due
    <3>2. CASE PopStart
      <4>1. walk' = walk \/ \E a : walk' = Walk(a, None, "main")
        BY <3>2, Zenon DEF PopStart
      <4> QED BY <3>1, <4>1, WalksBegin
    <3>3. CASE WalkFragment
      <4>1. walk' = walk \/ \E a : walk' = Walk(a, main.known, "import")
        BY <3>3, Zenon DEF WalkFragment
      <4>2. main.known = None
        BY <2>1, <3>3 DEF NativeLoop, WalkFragment, At
      <4> QED BY <3>1, <4>1, <4>2, WalksBegin
    <3>4. CASE LoopTop \/ EndWave \/ GoWave \/ CookieWave \/ EmptyQueue
      BY <3>1, <3>4 DEF LoopTop, EndWave, GoWave, CookieWave, EmptyQueue
    <3> QED BY <2>4, <3>2, <3>3, <3>4
  <2>6. NativeLoop'
    <3> SUFFICES /\ main'.early
                 /\ main'.pc \in {"top", "pop", "wave", "cookies", "views", "done"}
                 /\ main'.pc = "wave" => main'.known = None
      BY <2>1, <2>2 DEF NativeLoop
    <3>0. DOMAIN main = MainFields /\ main.early /\ main.then \in {"pop", "cookies"}
      BY <2>1 DEF NativeLoop, Inv, Fields, Control
    <3>1. CASE LoopTop
      <4>1. main' = Goto("pop")
        BY <3>0, <3>1 DEF LoopTop, IsEarly
      <4> QED BY <3>0, <4>1 DEF Goto, MainFields
    <3>2. CASE PopStart
      <4> DEFINE a == Head(main.pending)
                 popped == [main EXCEPT !.pc = "top", !.pending = Tail(@),
                                        !.skipped = IF IsWalkedPattern(a) THEN @ \cup {a} ELSE @]
      <4>1. \/ main' = popped
            \/ main' = [popped EXCEPT !.told = TRUE]
            \/ \E starts, isolated :
                  main' = [popped EXCEPT !.starts = starts, !.isolated = isolated]
        BY <3>2, Zenon DEF PopStart
      <4>2. DOMAIN popped = MainFields /\ popped.pc = "top" /\ (popped.early <=> main.early)
        BY <3>0 DEF MainFields
      <4> HIDE DEF popped
      <4> QED BY <3>0, <4>1, <4>2 DEF MainFields
    <3>3. CASE WalkFragment
      <4>1. main' = [main EXCEPT !.todo = Tail(@)] /\ main.pc = "wave"
        BY <3>3 DEF WalkFragment, At
      <4> QED BY <2>1, <3>0, <4>1 DEF NativeLoop, MainFields
    <3>4. CASE EndWave
      BY <3>0, <3>4 DEF EndWave, Goto, MainFields
    <3>5. CASE GoWave
      <4>1. \E pending, todo : main' = [main EXCEPT !.late = TRUE, !.pending = pending, !.pc = "wave",
                                                    !.todo = todo, !.known = None, !.then = "cookies"]
        <5> DEFINE found == /\ img.gomain # None /\ img.entry \in DOMAIN graph.succ
                            /\ ~BuildFunctionView(img, an, graph, img.entry, FALSE).oversized
                            /\ IsExecutable(img, img.gomain)
                   isNew == img.gomain \notin DOMAIN an.seeds
                   pending == IF found /\ isNew THEN <<img.gomain>> ELSE <<>>
                   queued == [main EXCEPT !.late = TRUE, !.pending = pending]
        <5>1. main' = [queued EXCEPT !.pc = "wave", !.todo = FragmentStarts, !.known = None,
                                     !.then = "cookies"]
          BY <3>5 DEF GoWave
        <5> HIDE DEF pending
        <5> QED BY <5>1
      <4> QED BY <3>0, <4>1 DEF MainFields
    <3>6. CASE CookieWave
      <4>1. \E pending : main' = [main EXCEPT !.pc = "top", !.pending = pending]
        BY <3>6, Zenon DEF CookieWave
      <4> QED BY <3>0, <4>1 DEF MainFields
    <3>7. CASE EmptyQueue
      <4>1. main' = Goto("views")
        BY <3>7 DEF EmptyQueue
      <4> QED BY <3>0, <4>1 DEF Goto, MainFields
    <3> QED BY <2>4, <3>1, <3>2, <3>3, <3>4, <3>5, <3>6, <3>7
  <2> QED BY <2>3, <2>5, <2>6
<1> QED BY <1>2, <1>3 DEF NInv, ViewsAreSound

(* A native pass begins with the queue and without code.                    *)
LEMMA StartKeepsNative ==
    ASSUME Inv, QInv, NInv, StartPass
    PROVE  NInv'
<1>1. /\ Fields /\ UNCHANGED <<img, walk>> /\ walk = NoWalk
      /\ graph' = EmptyGraph(img, main.noreturn)
      /\ \E seeds : an' = EmptyAnalysis(seeds)
  BY DEF Inv, QInv, Shapes, StartPass, At
<1>2. /\ graph'.compat = IsCompatible(img) /\ DOMAIN graph'.completed = {} /\ an'.insns = {}
  BY <1>1 DEF EmptyGraph, EmptyAnalysis
<1>3. main'.pc \in {"plt", "top"} /\ (~IsCompatible(img) => main'.early /\ main'.pc = "top")
  <2> DEFINE m(compat, pending, at) ==
               [main EXCEPT !.pc = IF compat /\ img.format = "elf" THEN "plt" ELSE "top",
                            !.pending = pending,
                            !.starts = {}, !.isolated = {}, !.late = FALSE, !.told = FALSE,
                            !.early = ~compat, !.known = {}, !.todo = img.plt,
                            !.skipped = {}, !.waved = {}, !.at = at]
  <2>1. \E pending, at : main' = m(IsCompatible(img), pending, at)
    BY Zenon DEF StartPass
  <2>2. ASSUME NEW compat, NEW pending, NEW at
        PROVE  LET x == m(compat, pending, at)
               IN  x.pc \in {"plt", "top"} /\ (~compat => x.early /\ x.pc = "top")
    BY <1>1 DEF Fields, MainFields
  <2> HIDE DEF m
  <2> QED BY <2>1, <2>2
<1>4. DecodedHaveBytes' /\ ViewsAreSound'
  BY <1>1, <1>3 DEF NInv, DecodedHaveBytes, ViewsAreSound, Done
<1>5. NativeWalk'
  BY <1>1, NoWalkIsNative DEF NativeWalk
<1>6. CodeIsOrderly'
  BY <1>2 DEF CodeIsOrderly
<1>7. ~graph'.compat => NativeLoop'
  BY <1>2, <1>3 DEF NativeLoop
<1> QED BY <1>4, <1>5, <1>6, <1>7 DEF NInv, NativeSweep

(* The functions of a native sweep are the views of its starts.             *)
LEMMA SweptViews ==
    ASSUME ~graph.compat, DOMAIN graph.completed = {}, NEW starts
    PROVE  \A f \in DOMAIN WithCaptured(WithFragments(ViewsOf(starts))) :
              \E isolate : LET view == NativeView(img, an, graph, f, isolate)
                           IN  /\ ~view.oversized
                               /\ WithCaptured(WithFragments(ViewsOf(starts)))[f] = view.blocks
<1> DEFINE all == [f \in starts |-> BuildFunctionView(img, an, graph, f, f \in main.isolated)]
           views == ViewsOf(starts)
<1>1. views = [f \in {g \in starts : ~all[g].oversized} |-> all[f].blocks]
  BY DEF ViewsOf
<1>2. \A f \in starts : all[f] = NativeView(img, an, graph, f, f \in main.isolated)
  BY DEF BuildFunctionView
<1> HIDE DEF all, views
<1>3. DOMAIN WithCaptured(WithFragments(views)) = DOMAIN views
      /\ \A f \in DOMAIN views : WithCaptured(WithFragments(views))[f] = views[f]
  BY DEF WithCaptured, WithFragments
<1>4. ASSUME NEW f \in DOMAIN views
      PROVE  LET view == NativeView(img, an, graph, f, f \in main.isolated)
             IN  ~view.oversized /\ WithCaptured(WithFragments(views))[f] = view.blocks
  BY <1>1, <1>2, <1>3
<1>5. \A f \in DOMAIN WithCaptured(WithFragments(views)) :
         \E isolate : LET view == NativeView(img, an, graph, f, isolate)
                      IN  ~view.oversized /\ WithCaptured(WithFragments(views))[f] = view.blocks
  BY <1>3, <1>4
<1> QED BY <1>5 DEF views

(* A sweep that ends changes the functions, not the code.                   *)
LEMMA SweepResult ==
    ASSUME Fields, EndSweep
    PROVE  /\ an'.insns = an.insns
           /\ an'.functions = WithCaptured(WithFragments(ViewsOf(Swept)))
           /\ \/ main' = Goto("done")
              \/ \E pass, next : main' = [main EXCEPT !.pc = "pass", !.pass = pass, !.noreturn = next]
<1> DEFINE fs(functions) == WithCaptured(functions)
           ds(views) == an.diags \cup {<<f, "oversized">> : f \in Swept \ DOMAIN views}
           swept(views, functions) == [an EXCEPT !.functions = fs(functions), !.diags = ds(views)]
           Pairs(x, next) ==
             \/ /\ an' = [x EXCEPT !.noreturn = PublishedSet(next), !.callees = Callees(x.functions)]
                /\ main' = Goto("done")
             \/ /\ an' = x
                /\ main' = [main EXCEPT !.pc = "pass", !.pass = @ + 1, !.noreturn = next]
<1>1. \E views \in {ViewsOf(Swept)} : \E functions \in {WithFragments(views)} :
         \E next \in {IF graph.compat THEN graph.known
                      ELSE Propagate(img, [an EXCEPT !.functions = functions])} :
            Pairs(swept(views, functions), next)
  BY DEF EndSweep
<1> DEFINE x == swept(ViewsOf(Swept), WithFragments(ViewsOf(Swept)))
<1>2. PICK next : Pairs(x, next)
  <2> HIDE DEF swept, Pairs
  <2> QED BY <1>1
<1>3. /\ DOMAIN x = AnalysisFields /\ x.insns = an.insns
      /\ x.functions = fs(WithFragments(ViewsOf(Swept)))
  <2> HIDE DEF fs, ds
  <2> QED BY DEF Fields, AnalysisFields
<1> HIDE DEF x
<1>4. an'.functions = x.functions /\ an'.insns = x.insns
  BY <1>2, <1>3 DEF AnalysisFields
<1>5. \/ main' = Goto("done")
      \/ \E pass, n : main' = [main EXCEPT !.pc = "pass", !.pass = pass, !.noreturn = n]
  BY <1>2
<1> QED BY <1>3, <1>4, <1>5

(* The end of a sweep.                                                      *)
LEMMA EndSweepKeepsNative ==
    ASSUME Inv, QInv, NInv, EndSweep
    PROVE  NInv'
<1>1. /\ main.pc = "views" /\ UNCHANGED <<img, graph, walk>> /\ Fields
  BY DEF EndSweep, At, Inv
<1>2. /\ an'.insns = an.insns
      /\ an'.functions = WithCaptured(WithFragments(ViewsOf(Swept)))
      /\ \/ main' = Goto("done")
         \/ \E pass, next : main' = [main EXCEPT !.pc = "pass", !.pass = pass, !.noreturn = next]
  BY <1>1, SweepResult
<1>3. /\ main'.pc \in {"done", "pass"} /\ (main'.early <=> main.early)
  BY <1>1, <1>2 DEF Fields, Goto, MainFields
<1>4. DecodedHaveBytes'
  BY <1>1 DEF NInv, DecodedHaveBytes
<1>5. CASE graph.compat
  BY <1>1, <1>4, <1>5 DEF NInv, NativeSweep, ViewsAreSound
<1>6. CASE ~graph.compat
  <2>1. NativeLoop /\ NativeWalk /\ CodeIsOrderly
    BY <1>1, <1>6 DEF NInv, NativeSweep
  <2>2. main'.pc # "pass" => NativeLoop' /\ NativeWalk' /\ CodeIsOrderly'
    BY <1>1, <1>2, <1>3, <2>1 DEF NativeLoop, NativeWalk, Due, CodeIsOrderly, IsOrderly
  <2>3. Sized
    BY <1>1, <2>1 DEF Sized, NInv, DecodedHaveBytes, CodeIsOrderly, IsOrderly, Fields
  <2>4. \A a \in an.insns : IsSeq(EdgesAt(graph, a))
    BY <2>1 DEF CodeIsOrderly, IsOrderly
  <2>5. ASSUME NEW f \in DOMAIN an'.functions
        PROVE  ViewIsSound(an'.functions[f])
    <3>1. PICK isolate : LET view == NativeView(img, an, graph, f, isolate)
                         IN  ~view.oversized /\ an'.functions[f] = view.blocks
      <4> DEFINE swept == WithCaptured(WithFragments(ViewsOf(Swept)))
      <4>1. DOMAIN graph.completed = {}
        BY <2>1 DEF NativeLoop
      <4>2. \A g \in DOMAIN swept :
               \E isolate : LET view == NativeView(img, an, graph, g, isolate)
                            IN  ~view.oversized /\ swept[g] = view.blocks
        BY <1>6, <4>1, SweptViews
      <4>3. an'.functions = swept
        BY <1>2
      <4> HIDE DEF swept
      <4> QED BY <4>2, <4>3
    <3> QED BY <2>3, <2>4, <3>1, NativeViewsAreSound
  <2>6. ViewsAreSound'
    BY <1>1, <2>5 DEF ViewsAreSound, ViewIsSound, Overlap, NextOf
  <2> QED BY <1>4, <2>2, <2>6 DEF NInv, NativeSweep
<1> QED BY <1>5, <1>6

(* Nothing is walked at first.                                              *)
LEMMA InitNative ==
    ASSUME Init
    PROVE  NInv
<1>1. main.pc = "pass" /\ img \in Images
  BY DEF Init
<1> QED BY <1>1, ImagesAssumption DEF NInv, DecodedHaveBytes, NativeSweep, ViewsAreSound, Done

(* Every step keeps it.                                                     *)
LEMMA NextNative ==
    ASSUME Inv, QInv, NInv, [Next]_vars
    PROVE  NInv'
<1>1. CASE WalkStep
  BY <1>1, WalkKeepsNative
<1>2. CASE StartPass
  BY <1>2, StartKeepsNative
<1>3. CASE EndSweep
  BY <1>3, EndSweepKeepsNative
<1>4. CASE SweepStep /\ ~StartPass /\ ~EndSweep
  BY <1>4, LoopKeepsNative
<1>5. CASE UNCHANGED vars
  <2>1. UNCHANGED <<img, an, graph, walk, main>>
    BY <1>5 DEF vars
  <2>2. DecodedHaveBytes'
    BY <2>1 DEF NInv, DecodedHaveBytes
  <2>3. NativeSweep'
    BY <2>1 DEF NInv, NativeSweep, NativeLoop, NativeWalk, Due, CodeIsOrderly, IsOrderly
  <2>4. ViewsAreSound'
    <3>1. CASE Done /\ ~graph.compat
      <4>1. ASSUME NEW f \in DOMAIN an'.functions
            PROVE  ViewIsSound(an'.functions[f])
        BY <2>1, <3>1 DEF NInv, ViewsAreSound
      <4>2. img' = img
        BY <2>1
      <4> QED BY <4>1, <4>2 DEF ViewsAreSound, ViewIsSound, Overlap, NextOf
    <3>2. CASE ~(Done /\ ~graph.compat)
      BY <2>1, <3>2 DEF ViewsAreSound, Done
    <3> QED BY <3>1, <3>2
  <2> QED BY <2>2, <2>3, <2>4 DEF NInv
<1> QED BY <1>1, <1>2, <1>3, <1>4, <1>5 DEF Next, SweepStep, Finished

(* Sound views are what the property asks for.                              *)
LEMMA ViewsAreBlocks ==
    ASSUME ViewsAreSound
    PROVE  NativeBlocksAreSound
<1> SUFFICES ASSUME Done, ~graph.compat, NEW f \in DOMAIN an.functions, NEW b \in DOMAIN an.functions[f]
             PROVE  /\ EdgeTargets(an.functions[f][b].succs) \subseteq DOMAIN an.functions[f]
                    /\ \/ Overlapping(f)
                       \/ \A c \in DOMAIN an.functions[f] \ {b} :
                            ToSet(an.functions[f][b].insns) \cap ToSet(an.functions[f][c].insns) = {}
  BY DEF NativeBlocksAreSound
<1> DEFINE view == an.functions[f]
<1>1. ViewIsSound(view)
  BY DEF ViewsAreSound
<1>2. \A c \in DOMAIN view : ToSet(view[c].insns) \subseteq InsnsOf(f)
  BY DEF InsnsOf
<1> HIDE DEF view
<1>3. \A c \in DOMAIN view \ {b} :
         \/ ToSet(view[b].insns) \cap ToSet(view[c].insns) = {}
         \/ Overlapping(f)
  BY <1>1, <1>2 DEF ViewIsSound, Overlapping, Overlap, view
<1> QED BY <1>1, <1>3 DEF ViewIsSound, view

(* For every image and every bound: when a native recovery is done, the     *)
(* edges of a block lead to blocks of the same function, and two blocks     *)
(* share no instruction unless two of their function's instructions overlap *)
(* (build_function_view).                                                   *)
THEOREM NativeBlocks == Spec => []NativeBlocksAreSound
<1>1. Init => QInv /\ NInv
  BY InitQueue, InitNative
<1>2. Inv /\ QInv /\ NInv /\ [Next]_vars => QInv' /\ NInv'
  BY NextQueue, NextNative
<1>3. NInv => NativeBlocksAreSound
  BY ViewsAreBlocks DEF NInv
<1> QED BY <1>1, <1>2, <1>3, Invariance, PTL DEF Spec
=============================================================================
