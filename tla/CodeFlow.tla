------------------------------ MODULE CodeFlow ------------------------------
(* discover_flow: one walk over the code that a start reaches, as a stack   *)
(* of tasks, and the seeds that decide which starts are walked.             *)
(*                                                                          *)
(*   img     the loaded image, with its base seeds; aliases may be added    *)
(*   an      the Analysis under construction                                *)
(*   graph   DirectFlowGraph                                                *)
(*   ptr     pointers::Discovery                                            *)
(*   walk    the locals of discover_flow; tasks: the front comes first      *)
(*   main    the locals of recover_functions and of the loop over passes    *)
EXTENDS JumpTables

CONSTANT MaxFunctions     \* MAX_FUNCTIONS

ASSUME CodeFlowAssumption == MaxFunctions \in Nat

VARIABLES img, an, graph, ptr, walk, main

vars == <<img, an, graph, ptr, walk, main>>

----------------------------------------------------------------------------
(* Seeds *)

AuthoritativeKinds ==
    {"entry", "export", "tls", "safeseh", "unwind", "symbol", "init", "fini", "initarray",
     "finiarray", "libcmain", "gomain", "cookie", "macho"}
IsAuthoritative(kinds) == kinds \cap AuthoritativeKinds # {}

(* The kinds that only a byte pattern supports. *)
SignatureKinds == {"signature", "prologue"}
HeuristicKinds == SignatureKinds \cup {"sweep"}
OnlyKinds(seeds, a, kinds) == a \in DOMAIN seeds /\ seeds[a] \subseteq kinds

SeedPriority(kinds, compat) ==
    CASE IsAuthoritative(kinds) -> 0
      [] OTHER ->
         IF "call" \in kinds THEN 1
         ELSE IF "sweep" \in kinds THEN (IF compat THEN 4 ELSE 1)
         ELSE IF kinds \cap SignatureKinds = {} THEN 2 ELSE 3

(* pe.py registers the entry point, exports, SafeSEH and the rest in turn. *)
RootOrder(image, seeds, a, compat) ==
    IF ~compat \/ image.format # "pe" \/ a = image.entry THEN 0
    ELSE IF "export" \in seeds[a] THEN 1
    ELSE IF "safeseh" \in seeds[a] THEN 2 ELSE 3

InitialQueue(image, seeds, compat) ==
    LET key(a) == <<SeedPriority(seeds[a], compat), RootOrder(image, seeds, a, compat), a>>
        before(a, b) == \E i \in 1..3 : /\ key(a)[i] < key(b)[i]
                                        /\ \A j \in 1..i - 1 : key(a)[j] = key(b)[j]
        in == DOMAIN seeds \cap Addr
        place(a) == Cardinality({b \in in : b = a \/ before(b, a)})
    IN  [i \in 1..Cardinality(in) |-> CHOOSE a \in in : place(a) = i]

ShouldIsolate(image, seeds, start, discovered) ==
    /\ discovered
    /\ start \notin DOMAIN image.fallback
    /\ "reloc" \in KindsAt(seeds, start)
    /\ KindsAt(seeds, start) \cap {"call", "sweep"} = {}
    /\ ~IsAuthoritative(KindsAt(seeds, start))

(* What a native analysis keeps of the collected seeds; both backends add   *)
(* their fallback seeds.                                                    *)
BaseSeeds(image) ==
    LET dropped(a) == IF image.compat THEN {}
                      ELSE {"emulated"} \cup (IF image.format = "pe" /\ ~image.arm
                                                 /\ a \notin image.plausible
                                              THEN {"reloc"} ELSE {})
        kept == {a \in DOMAIN image.seeds : image.seeds[a] \ dropped(a) # {}}
    IN  [a \in kept \cup DOMAIN image.fallback |->
            KindsAt(image.fallback, a) \cup
            (IF a \in kept THEN image.seeds[a] \ dropped(a) ELSE {})]

----------------------------------------------------------------------------
(* Initial values *)

EmptyAnalysis(seeds) ==
    [seeds |-> seeds, insns |-> {}, order |-> <<>>, xrefs |-> <<>>, drefs |-> <<>>,
     functions |-> <<>>, forder |-> <<>>, noretCalls |-> {}, diags |-> {},
     analysisCounts |-> <<>>, flirtCounts |-> <<>>, locationCounts |-> <<>>,
     noreturn |-> {}, callees |-> {}]

(* Candidates are evaluated, and functions completed as they are walked, on *)
(* x86 in compatibility mode.                                               *)
IsCompatible(image) == image.compat /\ ~image.arm

EmptyGraph(image, noreturn) ==
    [compat |-> IsCompatible(image), succ |-> <<>>, completed |-> <<>>,
     known |-> noreturn, delayed |-> {}, importFns |-> {}, tables |-> <<>>,
     recognized |-> {}]

NoWalk == [on |-> FALSE, start |-> None, tasks |-> <<>>, calls |-> {}, n |-> 0,
           delayed |-> <<>>, released |-> {}, retyping |-> {}, failed |-> {},
           blocks |-> <<>>, known |-> None, at |-> None, resume |-> FALSE,
           caller |-> "main"]

Task(kind, a) == [kind |-> kind, a |-> a]
Pointers(operands) == [kind |-> "pointers", operands |-> operands]

(* Tasks of one kind that are pushed together form one task with a list. *)
Batch(kind, list) == IF list = <<>> THEN <<>> ELSE <<[kind |-> kind, list |-> list]>>
Paths(targets) == Batch("path", targets)
Path(a) == [kind |-> "path", list |-> <<a>>]

(* discover_flow(start, known): loose code has no FinishFunction of its own. *)
Walk(start, known, caller) ==
    [NoWalk EXCEPT !.on = TRUE, !.start = start, !.known = known, !.caller = caller,
                   !.tasks = IF graph.compat /\ known = None
                             THEN <<Path(start), Task("finish", start)>>
                             ELSE <<Path(start)>>]

IsActive(tasks, f) == \E i \in DOMAIN tasks : tasks[i] = Task("finish", f)

(* The innermost active function is the one that is finished first. *)
Active(tasks) == {i \in DOMAIN tasks : tasks[i].kind = "finish"}
Innermost(tasks) == tasks[Min(Active(tasks))].a

Add(map, key, set) == Insert(map, key, set \cup (IF key \in DOMAIN map THEN map[key] ELSE {}))

(* Start a task for a callee: walk it, then finish it. *)
Descend(target, tasks) == <<Path(target), Task("finish", target)>> \o tasks

\* Mutant: a function waits for itself.
DelayForBranches_Self(delayed, tasks, targets) ==
    LET entered == {t \in targets : IsActive(tasks, t)}
    IN  IF entered = {} THEN delayed ELSE Add(delayed, Innermost(tasks), entered)

(* delay_function_for_branch, for each target of an instruction: the        *)
(* innermost active function waits for an active ancestor, or the loose     *)
(* root, that it branches into.                                             *)
DelayForBranches(delayed, tasks, targets) ==
    LET loose(t) == walk.known # None /\ walk.start = t
        entered == {t \in targets : /\ t # Innermost(tasks)
                                    /\ loose(t) \/ IsActive(tasks, t)}
    IN  IF Active(tasks) = {} \/ entered = {} THEN delayed
        ELSE Add(delayed, Innermost(tasks), entered)

At(pc) == main.pc = pc /\ ~walk.on

----------------------------------------------------------------------------
(* discover_flow: tasks *)

Remaining(tasks) == [walk EXCEPT !.tasks = tasks]
Rest == Tail(walk.tasks)

AtTask(kind) ==
    walk.on /\ walk.at = None /\ walk.tasks # <<>> /\ Head(walk.tasks).kind = kind

TakePath ==
    /\ \/ /\ AtTask("path")
          /\ walk' = [walk EXCEPT !.tasks = Paths(Tail(Head(walk.tasks).list)) \o Rest,
                                  !.at = Head(Head(walk.tasks).list), !.resume = FALSE]
       \/ /\ AtTask("opcode")
          /\ walk' = [walk EXCEPT !.tasks = Rest, !.at = Head(walk.tasks).a, !.resume = TRUE]
    /\ UNCHANGED <<img, an, graph, ptr, main>>

(* The procedural target of a call: an indirect one through a pointer that  *)
(* is not an import only in compatibility.                                  *)
CallTarget(a) ==
    LET op == img.at[a]
        read == IF op.mem = None THEN None ELSE ReadPointer(img, op.mem)
    IN  IF op.flow = "call" THEN op.direct
        ELSE IF graph.compat /\ op.mem \notin img.imports /\ ~op.index
                /\ read \in img.exec \ img.uninit
             THEN read ELSE None

(* A call whose callee was walked first resumes, unless the callee turned   *)
(* out never to return.  What the task holds (target and continuation) is   *)
(* settled by the instruction: the image stays as it is during a walk.      *)
ResumeCall ==
    LET a == Head(walk.tasks).a IN
    /\ AtTask("call")
    /\ IF CallTarget(a) \in graph.known
       THEN /\ an' = [an EXCEPT !.noretCalls = @ \cup {a},
                                !.xrefs = RemoveCodeReference(@, a, CallTarget(a))]
            /\ graph' = [graph EXCEPT !.succ = Insert(@, a, <<>>)]
            /\ walk' = Remaining(Rest)
       ELSE /\ walk' = Remaining(<<Path(NextOf(img, a))>> \o Rest)
            /\ UNCHANGED <<an, graph>>
    /\ UNCHANGED <<img, ptr, main>>

(* Blocks are installed in address order up to a start that was deleted.    *)
Deleted(r, f) ==
    LET seen == IF f \in DOMAIN r.blocks THEN r.blocks[f] ELSE {}
    IN  {a \in seen : InstructionLocation(img, r.an, a) = None /\ ~InData(r.ptr.data, a)}

Installed(blocks, deleted) ==
    IF deleted = {} THEN blocks
    ELSE [b \in {c \in DOMAIN blocks : c < Min(deleted)} |-> blocks[b]]

(* The extent of a function, recorded once. *)
WithExtent(r, f, view) ==
    IF view.oversized
    THEN [r EXCEPT !.an = Diagnose(@, f, "extent not preserved")]
    ELSE LET put(blocks, gone) ==
               [r EXCEPT !.an = [r.an EXCEPT !.functions = Insert(@, f, blocks),
                                          !.diags = @ \cup {<<a, "deleted block">> : a \in gone}],
                         !.graph = [r.graph EXCEPT !.completed = IF f \in DOMAIN @ THEN @
                                                           ELSE Insert(@, f, blocks)]]
         IN  put(Installed(view.blocks, Deleted(r, f)),
                 IF Deleted(r, f) = {} THEN {} ELSE {Min(Deleted(r, f))})

(* Register jumps that calling analysis met are resolved as switches. *)
Switches(xrefs, succ, tables, arms) ==
    [xrefs |-> xrefs, succ |-> succ, tables |-> tables, arms |-> arms]

ResolveSwitches(an1, xrefs, branches) ==
    LET resolve(q, a) ==
          LET put(s) ==
                IF s.targets = None THEN q
                ELSE Switches(FoldLeft(LAMBDA x, t : PushXref(x, t, a), q.xrefs, s.targets),
                              Insert(q.succ, a, [i \in DOMAIN s.targets |-> Edge(s.targets[i], "table")]),
                              q.tables \o s.locs, q.arms \o s.targets)
          IN  put(SwitchTargets(img, [an1 EXCEPT !.xrefs = q.xrefs], a, graph.known))
    IN  FoldLeft(resolve, Switches(xrefs, graph.succ, graph.tables, <<>>), branches)

(* calling analysis of a completed function, with the tasks it leaves. *)
AnalyzeCalls(r, f) ==
    LET found(d) ==
          LET tasks(q) ==
                 Batch("callback", d.targets) \o <<Pointers(d.operands)>>
                 \o (IF q.arms = <<>> THEN <<Task("finalize", f)>>
                     ELSE Paths(q.arms) \o <<Task("finish", f)>>)
              done(q) == [r EXCEPT
                 !.an = [r.an EXCEPT !.xrefs = q.xrefs, !.diags = @ \cup d.diags],
                 !.graph = [r.graph EXCEPT !.succ = q.succ, !.tables = q.tables,
                                     !.completed = IF q.arms = <<>> THEN @ ELSE Without(@, f)],
                 !.ptr = d.p,
                 !.tasks = tasks(q) \o @]
          IN  done(ResolveSwitches(r.an, d.xrefs, d.switches))
    IN  IF graph.compat /\ CallingEnabled(img)
        THEN found(Discover(img, r.an, r.ptr, f, graph.known))
        ELSE [r EXCEPT !.tasks = <<Task("finalize", f)>> \o @]

BlocksSeen(f) == IF f \in DOMAIN walk.blocks THEN walk.blocks[f] ELSE {}

CompleteFunction(r, f, view) ==
    LET padded(q) == [q EXCEPT !.ptr = FunctionCompleted(img, q.an, q.ptr, f)]
    IN  AnalyzeCalls(padded(WithExtent(r, f, view)), f)

(* FinishFunction: prepare the locations, retype a pointer and walk on, or  *)
(* take the blocks and analyse the calls.                                   *)
Ordered(f) == [an EXCEPT !.forder = IF Contains(@, f) THEN @ ELSE Append(@, f)]

Finishing(an1, p, blocks) ==
    [an |-> an1, graph |-> graph, ptr |-> p, tasks |-> Rest, blocks |-> blocks,
     retyping |-> walk.retyping]

FinishPrepared(f, w) ==
    LET r == Finishing(Prepared(Ordered(f), w), w.p, Insert(walk.blocks, f, w.seen))
    IN  IF w.result = "retype"
        THEN [r EXCEPT !.retyping = @ \cup {f},
                       !.tasks = <<Path(w.at), Task("finish", f)>> \o @]
        ELSE CompleteFunction(r, f, IF w.result = "failed" THEN View(<<>>)
                                    ELSE BuildFunctionView(img, r.an, graph, f, FALSE))

FinishFunction ==
    LET f == Head(walk.tasks).a
        unprepared == [Preparation(f, an, ptr, BlocksSeen(f)) EXCEPT !.result = "failed"]
        prepared == IF f \in walk.failed THEN unprepared
                    ELSE PrepareFunctionCode(img, Ordered(f), graph, ptr, f, BlocksSeen(f))
    IN
    /\ AtTask("finish")
    /\ IF f \in DOMAIN walk.delayed \/ f \in DOMAIN graph.completed
       THEN walk' = Remaining(Rest) /\ UNCHANGED <<an, graph, ptr>>
       ELSE \E r \in {FinishPrepared(f, prepared)} :
              /\ an' = r.an /\ graph' = r.graph /\ ptr' = r.ptr
              /\ walk' = [walk EXCEPT !.tasks = r.tasks, !.blocks = r.blocks,
                                      !.retyping = r.retyping, !.failed = @ \ {f}]
    /\ UNCHANGED <<img, main>>

(* A callee or callback found by calling analysis, with its kind of seed. *)
CallbackTarget ==
    LET found == Head(walk.tasks).list
        t == found[1][1]
        seed == found[1][2]
        later == Batch("callback", Tail(found)) \o Rest
    IN
    /\ AtTask("callback")
    /\ IF \/ seed = "callback" /\ Covered(img, an, t)
          \/ t \in DOMAIN graph.completed
          \/ IsActive(Rest, t)
       THEN walk' = Remaining(later) /\ UNCHANGED an
       ELSE /\ an' = [an EXCEPT !.seeds = AddSeed(@, t, seed)]
            /\ walk' = [walk EXCEPT !.calls = @ \cup {t}, !.tasks = Descend(t, later)]
    /\ UNCHANGED <<img, graph, ptr, main>>

(* FollowPointers, one operand. *)
FollowPointers ==
    LET ops == Head(walk.tasks).operands
        seen == ObserveInstruction(img, an, ptr, ops[1][1], FALSE).p
        later == IF Len(ops) = 1 THEN Rest ELSE <<Pointers(Tail(ops))>> \o Rest
    IN
    /\ AtTask("pointers")
    /\ IF ops = <<>>
       THEN walk' = Remaining(Rest) /\ UNCHANGED <<an, ptr>>
       ELSE \E r \in {FollowObservedPointer(img, an, seen, ops[1][2], graph.known)} :
              /\ an' = r.an /\ ptr' = r.p
              /\ IF r.target = None \/ r.target \in DOMAIN graph.completed
                    \/ IsActive(Rest, r.target)
                 THEN walk' = Remaining(later)
                 ELSE walk' = [walk EXCEPT
                         !.calls = @ \cup {r.target},
                         !.tasks = Descend(r.target, <<Pointers(Tail(ops))>> \o Rest)]
    /\ UNCHANGED <<img, graph, main>>

(* flirt::Discovery::function_completed: undefined local symbols of the     *)
(* signature that recognises a function, img.locals.                        *)
FlirtLocals(f) ==
    IF f \notin DOMAIN img.locals \cap DOMAIN an.functions \/ f \in graph.recognized THEN {}
    ELSE {a \in img.locals[f] : /\ a \notin DOMAIN an.functions
                                /\ ~Covered(img, an, a)
                                /\ IsExecutable(img, a)}

NeverReturns(f) ==
    /\ graph.compat
    /\ f \in DOMAIN graph.completed
    /\ CompletedNeverReturns(img, an, f, graph.completed[f], graph.known)

\* Mutant: the set is derived again from the functions completed so far.
Learned_Derived(f) ==
    IF NeverReturns(f) THEN {g \in DOMAIN graph.completed : NeverReturns(g)} ELSE graph.known

Learned(f) == IF NeverReturns(f) THEN graph.known \cup {f} ELSE graph.known

FinalizeFunction ==
    LET f == Head(walk.tasks).a
        locals == Ascending(FlirtLocals(f))
        release == IF f \in walk.released THEN <<>> ELSE <<Task("release", f)>>
    IN
    /\ AtTask("finalize")
    /\ graph' = [graph EXCEPT !.known = Learned(f),
                              !.recognized = @ \cup ({f} \cap DOMAIN img.locals)]
    /\ an' = [an EXCEPT !.flirtCounts = Insert(@, f, Len(an.forder)),
                        !.locationCounts = Insert(@, f, Len(an.order))]
    /\ walk' = [walk EXCEPT
                  !.released = @ \ {f},
                  !.tasks = [i \in DOMAIN locals |-> Task("local", locals[i])] \o release \o Rest]
    /\ UNCHANGED <<img, ptr, main>>

FlirtLocal ==
    LET f == Head(walk.tasks).a IN
    /\ AtTask("local")
    /\ IF InstructionLocation(img, an, f) = None /\ f \notin DOMAIN graph.completed
       THEN /\ an' = [an EXCEPT !.seeds = AddSeed(@, f, "local")]
            /\ walk' = [walk EXCEPT !.calls = @ \cup {f}, !.tasks = Descend(f, Rest)]
       ELSE walk' = Remaining(Rest) /\ UNCHANGED an
    /\ UNCHANGED <<img, graph, ptr, main>>

(* Functions that waited only for this one are finished; their own release  *)
(* is not repeated.                                                         *)
ReleaseDelayed ==
    LET f == Head(walk.tasks).a
        waits == [g \in DOMAIN walk.delayed |-> walk.delayed[g] \ {f}]
        ready == {g \in DOMAIN waits : waits[g] = {}}
        order == Ascending(ready)
    IN
    /\ AtTask("release")
    /\ an' = [an EXCEPT !.analysisCounts = Insert(@, f, Len(an.forder))]
    /\ walk' = [walk EXCEPT
                  !.delayed = [g \in DOMAIN waits \ ready |-> waits[g]],
                  !.released = @ \cup ready,
                  !.tasks = [i \in DOMAIN order |-> Task("finish", order[i])] \o Rest]
    /\ UNCHANGED <<img, graph, ptr, main>>

----------------------------------------------------------------------------
(* discover_flow: instructions *)

Walking == walk.on /\ walk.at # None
Loose == walk.known # None

(* What ends a path before it decodes: data, a pointer, an import, code     *)
(* walked before, or memory that is not executable.                         *)
IsBarrier(a) ==
    \/ InData(ptr.barriers, a)
    \/ a \in DOMAIN graph.succ
    \/ ~IsExecutable(img, a)
    \/ /\ graph.compat
       /\ \/ PointerLocation(img, an, ptr, a) # None
          \/ InImport(img, a)
          \/ InstructionLocation(img, an, a) # None

(* A path that reaches an orphaned pointer while its function is retyped    *)
(* fails the block analysis of that function.                               *)
OrphanReached(a) ==
    /\ graph.compat /\ OrphanPointer(img, an, ptr, a)
    /\ Active(walk.tasks) # {}
    /\ Innermost(walk.tasks) \in walk.retyping

FailedBy(a) == IF OrphanReached(a) THEN {Innermost(walk.tasks)} ELSE {}

Noted(a) == IF OrphanReached(a) THEN Diagnose(an, a, "orphan pointer") ELSE an

StopPath ==
    /\ Walking
    /\ ~walk.resume /\ IsBarrier(walk.at)
    /\ an' = Noted(walk.at)
    /\ walk' = [walk EXCEPT !.at = None, !.failed = @ \cup FailedBy(walk.at)]
    /\ UNCHANGED <<img, graph, ptr, main>>

Passes == Walking /\ (walk.resume \/ ~IsBarrier(walk.at))

(* Bytes that do not decode, and privileged instructions natively. *)
IsUndecodable(a) == IF img.at[a] = None THEN TRUE ELSE ~graph.compat /\ img.at[a].priv

RejectInstruction ==
    /\ Passes /\ walk.n < MaxInsns
    /\ IsUndecodable(walk.at)
    /\ an' = Diagnose(Noted(walk.at), walk.at, "not decoded")
    /\ walk' = [walk EXCEPT !.at = None, !.failed = @ \cup FailedBy(walk.at)]
    /\ UNCHANGED <<img, graph, ptr, main>>

(* The instruction becomes a location and its operands references; in       *)
(* compatibility a pointer it reads is typed and may be followed.           *)
Record(a) ==
    LET op == img.at[a]
        mem(x) == IF op.mem = None THEN x ELSE PushXref(x, op.mem, a)
        imms(x) == IF graph.compat
                   THEN FoldLeft(LAMBDA y, t : IF t \in img.mapped THEN PushXref(y, t, a) ELSE y,
                                 x, op.imms)
                   ELSE x
        an1 == [Noted(a) EXCEPT !.drefs = imms(mem(@)), !.insns = @ \cup {a},
                                !.order = IF Contains(@, a) THEN @ ELSE Append(@, a)]
        observe(o) == IF o.target = None THEN Followed_(an1, o.p, None)
                      ELSE FollowObservedPointer(img, an1, o.p, o.target, graph.known)
    IN  IF graph.compat /\ ~walk.resume
        THEN observe(ObserveInstruction(img, an1, MarkCode(ptr, a, NextOf(img, a)), a, TRUE))
        ELSE Followed_(an1, ptr, None)

IsSuspended(r) ==
    /\ r.target # None
    /\ ~Contains(an.forder, r.target)
    /\ ~IsActive(walk.tasks, r.target)

Counted == [walk EXCEPT !.n = @ + 1, !.failed = @ \cup FailedBy(walk.at)]

(* makeOpcode follows the pointer before the instruction's own edges. *)
SuspendOpcode(r) ==
    /\ IsSuspended(r)
    /\ walk' = [Counted EXCEPT !.calls = @ \cup {r.target}, !.at = None,
                   !.tasks = Descend(r.target, <<Task("opcode", walk.at)>> \o @)]
    /\ an' = r.an
    /\ UNCHANGED graph

(* Successor edges of the instruction, and where the walk goes next: `at`   *)
(* is None when the path ends.                                              *)
Edges(list) == [graph EXCEPT !.succ = Insert(@, walk.at, list)]
GoOn(at, tasks) == [Counted EXCEPT !.at = at, !.tasks = tasks, !.resume = FALSE]

(* New paths go in front of everything in compatibility and in loose code,  *)
(* behind it natively.                                                      *)
Queue(targets, tasks) ==
    IF graph.compat \/ Loose THEN Paths(targets) \o tasks ELSE tasks \o Paths(targets)

WalkNext(r) ==
    /\ img.at[walk.at].flow = "next"
    /\ graph' = Edges(<<Edge(NextOf(img, walk.at), "fallthrough")>>)
    /\ walk' = GoOn(NextOf(img, walk.at), walk.tasks)
    /\ an' = r.an

IsProcedural(a) == CallTarget(a) # None /\ CallTarget(a) # NextOf(img, a)
EndsFlow(a) == IsProcedural(a) /\ CallTarget(a) \in graph.known

(* Whether the callee is walked before the caller goes on: the first time   *)
(* it is met, unless it is finished or still active.                        *)
NotStarted(t) == ~Contains(an.forder, t) /\ ~IsActive(walk.tasks, t)
IsFirstKnown(t) == Loose /\ Cardinality(walk.known) < MaxFunctions /\ t \notin walk.known
Descends(a) ==
    /\ IsProcedural(a) /\ IsExecutable(img, CallTarget(a))
    /\ IsFirstKnown(CallTarget(a)) \/ (graph.compat /\ ~Loose)
    /\ NotStarted(CallTarget(a))

WalkCall(r) ==
    LET a == walk.at
        op == img.at[a]
        t == CallTarget(a)
        next == NextOf(img, a)
        resume == IF EndsFlow(a) THEN <<>> ELSE <<Task("call", a)>>
        linked == IF op.flow = "call" /\ t # None THEN PushXref(r.an.xrefs, t, a) ELSE r.an.xrefs
        unresolved == op.flow = "icall" /\ t = None /\ op.mem \notin img.imports
        known == IF Loose /\ IsProcedural(a) /\ IsExecutable(img, t) /\ IsFirstKnown(t)
                 THEN walk.known \cup {t} ELSE walk.known
    IN
    /\ op.flow \in {"call", "icall"}
    /\ an' = [r.an EXCEPT
                !.xrefs = IF EndsFlow(a) THEN RemoveCodeReference(linked, a, t) ELSE linked,
                !.noretCalls = IF EndsFlow(a) THEN @ \cup {a} ELSE @,
                !.diags = IF unresolved THEN @ \cup {<<a, "unresolved call">>} ELSE @]
    /\ graph' = [Edges(IF EndsFlow(a) THEN <<>> ELSE <<Edge(next, "fallthrough")>>)
                   EXCEPT !.importFns = IF Loose /\ Descends(a) THEN @ \cup {t} ELSE @]
    /\ walk' = [(IF Descends(a) THEN GoOn(None, Descend(t, resume \o walk.tasks))
                 ELSE GoOn(IF EndsFlow(a) THEN None ELSE next, walk.tasks))
                 EXCEPT !.calls = IF IsProcedural(a) THEN @ \cup {t} ELSE @, !.known = known]

WalkConditional(r) ==
    LET a == walk.at
        op == img.at[a]
        next == NextOf(img, a)
        delayed == IF graph.compat /\ op.direct # None
                   THEN DelayForBranches(walk.delayed, walk.tasks, {op.direct, next})
                   ELSE walk.delayed
        targets == IF op.direct = None THEN <<next>> ELSE <<next, op.direct>>
    IN
    /\ op.flow = "cond"
    /\ an' = [r.an EXCEPT !.xrefs = IF op.direct = None THEN @ ELSE PushXref(@, op.direct, a)]
    /\ graph' = Edges(IF op.direct = None THEN <<Edge(next, "fallthrough")>>
                      ELSE <<Edge(next, "fallthrough"), Edge(op.direct, "branch")>>)
    /\ walk' = [GoOn(None, Queue(targets, walk.tasks)) EXCEPT !.delayed = delayed]

WalkJump(r) ==
    LET a == walk.at
        t == img.at[a].direct
    IN
    /\ img.at[a].flow = "jmp"
    /\ IF t = None
       THEN an' = r.an /\ graph' = Edges(<<>>) /\ walk' = GoOn(None, walk.tasks)
       ELSE /\ an' = [r.an EXCEPT !.xrefs = PushXref(@, t, a)]
            /\ graph' = Edges(<<Edge(t, "branch")>>)
            /\ walk' = [GoOn(None, Queue(<<t>>, walk.tasks)) EXCEPT
                          !.delayed = IF graph.compat THEN DelayForBranches(@, walk.tasks, {t}) ELSE @]

(* The arms of an indirect branch: a table, a proved switch, or nothing.    *)
(* With calling analysis a register switch is left to it.                   *)
ArmsOf(a, an1) ==
    LET op == img.at[a]
        none == [targets |-> None, xrefs |-> an1.xrefs, diags |-> {}, locs |-> <<>>]
        arms(s) == [none EXCEPT !.targets = s.targets, !.xrefs = s.xrefs, !.diags = s.diags]
        scanned == IF graph.compat
                   THEN arms(JumpTableTargetsCompat(img, an1, a, graph.known))
                   ELSE [none EXCEPT !.targets = JumpTableTargets(img, op)]
        switched(s) == IF s.targets = None THEN scanned
                       ELSE [none EXCEPT !.targets = s.targets, !.locs = s.locs]
    IN  IF graph.compat /\ ((op.mem # None /\ op.index) \/ CallingEnabled(img)) THEN scanned
        ELSE switched(SwitchTargets(img, an1, a, IF graph.compat THEN graph.known ELSE None))

(* `jmp [import]` is the tail of a thunk. *)
WalkThunk(r) ==
    /\ img.at[walk.at].flow = "ijmp" /\ img.at[walk.at].mem \in img.imports
    /\ an' = r.an
    /\ graph' = Edges(<<>>)
    /\ walk' = GoOn(None, walk.tasks)

(* A pointer jump has no edges of its own; the slots of a table are data.   *)
TakeArms(r, arms, s) ==
    LET a == walk.at
        op == img.at[a]
        ts == arms.targets
        pointer == ts # <<>> /\ IsPointerJump(img, op)
        slots == IF graph.compat /\ ts # <<>> /\ ~pointer THEN TableSlots(img, op, ts) ELSE <<>>
    IN
    /\ an' = [r.an EXCEPT
                !.xrefs = FoldLeft(LAMBDA x, t : PushXref(x, t, a), s.xrefs, ts),
                !.diags = @ \cup arms.diags \cup s.diags
                            \cup (IF ts = <<>> THEN {<<a, "unresolved jump">>} ELSE {})]
    /\ graph' = [graph EXCEPT
                   !.succ = Insert(s.succ, a, IF pointer THEN <<>>
                                              ELSE [i \in DOMAIN ts |-> Edge(ts[i], "table")]),
                   !.completed = [f \in DOMAIN @ |-> s.completed[f]],
                   !.tables = @ \o arms.locs \o slots]
    /\ walk' = [GoOn(None, Queue(ts, walk.tasks)) EXCEPT
                  !.delayed = IF graph.compat
                              THEN DelayForBranches(@, walk.tasks, ToSet(ts))
                              ELSE @]

WalkIndirect(r) ==
    LET a == walk.at
        op == img.at[a]
        split(arms, an2) == IF graph.compat
                            THEN SplitAdjacentTables(img, an2, graph, a, arms.targets)
                            ELSE Separation(an2.xrefs, graph.succ, graph.completed, {})
    IN
    /\ op.flow = "ijmp" /\ op.mem \notin img.imports
    /\ \E arms \in {ArmsOf(a, r.an)} :
         \E s \in {split(arms, [r.an EXCEPT !.xrefs = arms.xrefs, !.diags = @ \cup arms.diags])} :
            TakeArms(r, arms, s)

WalkReturn(r) ==
    /\ img.at[walk.at].flow \in {"ret", "term"}
    /\ an' = r.an
    /\ graph' = Edges(<<>>)
    /\ walk' = GoOn(None, walk.tasks)

WalkFlow(r) ==
    \/ WalkNext(r)
    \/ WalkCall(r)
    \/ WalkConditional(r)
    \/ WalkJump(r)
    \/ WalkThunk(r)
    \/ WalkIndirect(r)
    \/ WalkReturn(r)

WalkInstruction ==
    /\ Passes /\ walk.n < MaxInsns
    /\ ~IsUndecodable(walk.at)
    /\ \E r \in {Record(walk.at)} :
          /\ SuspendOpcode(r) \/ (~IsSuspended(r) /\ WalkFlow(r))
          /\ ptr' = r.p
    /\ UNCHANGED <<img, main>>

----------------------------------------------------------------------------
(* What the caller of discover_flow does with the call targets it returns:  *)
(* the loop and the wave queue executable ones in front, elfplt all behind. *)
Promotion(seeds, pending) == [seeds |-> seeds, pending |-> pending]

\* Mutant: a target is queued only when no seed knew it.
Requeues_NewOnly(caller, t) == t \notin DOMAIN an.seeds

\* Mutant: the import-call wave queues only what is walked again, no new target.
Requeues_WaveDropsNew(caller, t) ==
    \/ t \notin DOMAIN an.seeds /\ caller # "import"
    \/ /\ caller = "main" => t \notin main.starts
       /\ \/ t \in DOMAIN graph.completed
          \/ caller = "main" /\ OnlyKinds(an.seeds, t, HeuristicKinds)

Requeues(caller, t) ==
    \/ t \notin DOMAIN an.seeds
    \/ /\ caller = "main" => t \notin main.starts
       /\ \/ t \in DOMAIN graph.completed
          \/ caller = "main" /\ OnlyKinds(an.seeds, t, HeuristicKinds)

Promote(caller, calls) ==
    LET targets == IF caller = "plt" THEN calls ELSE {t \in calls : IsExecutable(img, t)}
        queued == {t \in targets : Requeues(caller, t)}
    IN  Promotion(AddSeeds(an.seeds, targets, "call"),
                  IF caller = "plt" THEN main.pending \o Ascending(targets)
                  ELSE Ascending(queued) \o main.pending)

(* elfplt goes on behind the location it walked. *)
After(a) == LET loc == InstructionLocation(img, an, a)
            IN  IF loc = None THEN a + 1 ELSE NextOf(img, loc)

(* A history variable: what the walks of the import-call wave returned.  No *)
(* step reads it.                                                           *)
Waved == main.waved \cup (IF walk.caller = "import" THEN walk.calls ELSE {})

ReturnCalls ==
    \E r \in {Promote(walk.caller, walk.calls)} :
        /\ an' = [an EXCEPT !.seeds = r.seeds]
        /\ main' = [main EXCEPT !.pending = r.pending, !.known = walk.known, !.waved = Waved,
                                !.at = IF walk.caller = "plt" THEN After(walk.start) ELSE @]
        /\ walk' = NoWalk

EndWalk ==
    /\ walk.on /\ walk.at = None /\ walk.tasks = <<>>
    /\ ReturnCalls
    /\ graph' = [graph EXCEPT !.delayed = @ \cup DOMAIN walk.delayed]
    /\ UNCHANGED <<img, ptr>>

(* A walk past its budget keeps the callees it found. *)
AbandonWalk ==
    /\ Passes /\ walk.n >= MaxInsns
    /\ \E r \in {Promote(walk.caller, walk.calls)} :
          /\ an' = [Diagnose(Noted(walk.at), walk.start, "abandoned") EXCEPT !.seeds = r.seeds]
          /\ main' = [main EXCEPT !.pending = r.pending, !.known = walk.known, !.waved = Waved,
                                  !.at = IF walk.caller = "plt" THEN After(walk.start) ELSE @]
    /\ walk' = NoWalk
    /\ UNCHANGED <<img, graph, ptr>>

(* discover_flow, one task or one instruction at a time. *)
WalkStep ==
    \/ TakePath
    \/ ResumeCall
    \/ FinishFunction
    \/ CallbackTarget
    \/ FollowPointers
    \/ FinalizeFunction
    \/ FlirtLocal
    \/ ReleaseDelayed
    \/ StopPath
    \/ RejectInstruction
    \/ WalkInstruction
    \/ EndWalk
    \/ AbandonWalk
=============================================================================
