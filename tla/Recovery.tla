------------------------------ MODULE Recovery ------------------------------
(* Code recovery: passes over an image (analyze_seeded_image), each a queue *)
(* of function starts that waves feed while it is drained                   *)
(* (recover_functions).  A walk of CodeFlow runs inside it to its end.      *)
EXTENDS CodeFlow

CONSTANTS
    Images,          \* the images explored
    MaxPasses        \* noreturn::MAX_PASSES

ASSUME RecoveryAssumption == MaxPasses \in Nat \ {0}

(* An image has these fields among others, its code is in its memory, and   *)
(* a decoded instruction has bytes.                                         *)
ASSUME ImagesAssumption ==
    \A image \in Images : /\ {"at", "exec", "imports", "noretApis"} \subseteq DOMAIN image
                           /\ image.exec \subseteq Addr
                           /\ \A a \in image.exec : image.at[a] # None =>
                                                     image.at[a].len \in Nat \ {0}

(* Strings, padding and relocated slots are in its memory; a size counts    *)
(* bytes, and operands and dispatch tables have addresses.                  *)
ASSUME LocationsAssumption ==
    \A image \in Images :
        /\ {"mapped", "text", "padding", "relocs", "dispatch"} \subseteq DOMAIN image
        /\ image.mapped \cup DOMAIN image.text \cup DOMAIN image.padding \subseteq Addr
        /\ image.text \in [DOMAIN image.text -> Nat]
        /\ image.padding \in [DOMAIN image.padding -> Nat]
        /\ image.relocs \in Seq(Addr)
        /\ \A b \in Addr : image.at[b] # None => /\ image.at[b].size \in Nat
                                                /\ image.at[b].mem \in Nat \cup {None}
        /\ \A b \in DOMAIN image.dispatch : image.dispatch[b].table \in Nat

Init ==
    /\ img \in Images
    /\ an = EmptyAnalysis(BaseSeeds(img))
    /\ graph = EmptyGraph(img, img.noretApis)
    /\ ptr = NewDiscovery(img, <<>>, FALSE)
    /\ walk = NoWalk
    /\ main = [pc |-> "pass", pass |-> 0, noreturn |-> img.noretApis, pending |-> <<>>,
               starts |-> {}, isolated |-> {}, late |-> FALSE, early |-> FALSE,
               told |-> FALSE, at |-> 0, todo |-> <<>>, known |-> None, then |-> "pop",
               skipped |-> {}, waved |-> {}]

Goto(pc) == [main EXCEPT !.pc = pc]

StartPass ==
    LET compat == IsCompatible(img)
        base == BaseSeeds(img)
        seeds == IF compat THEN KeptSeeds(base) ELSE base
    IN
    /\ At("pass")
    /\ an' = EmptyAnalysis(seeds)
    /\ graph' = EmptyGraph(img, main.noreturn)
    /\ ptr' = NewDiscovery(img, base, compat)
    /\ main' = [main EXCEPT !.pc = IF compat /\ img.format = "elf" THEN "plt" ELSE "top",
                            !.pending = InitialQueue(img, seeds, compat),
                            !.starts = {}, !.isolated = {}, !.late = FALSE, !.told = FALSE,
                            !.early = ~compat, !.known = {}, !.todo = img.plt,
                            !.skipped = {}, !.waved = {},
                            !.at = IF img.plt = <<>> THEN 0 ELSE img.plt[1][1]]
    /\ UNCHANGED <<img, walk>>

----------------------------------------------------------------------------
(* elf.elfplt: undefined PLT bytes are walked as loose code. *)

EndPlt ==
    /\ At("plt") /\ main.todo = <<>>
    /\ main' = Goto("top")
    /\ UNCHANGED <<img, an, graph, ptr, walk>>

WalkPlt ==
    LET loc == InstructionLocation(img, an, main.at) IN
    /\ At("plt") /\ main.todo # <<>>
    /\ IF main.at >= Head(main.todo)[2]
       THEN /\ main' = [main EXCEPT !.todo = Tail(@),
                                    !.at = IF Len(main.todo) > 1 THEN main.todo[2][1] ELSE @]
            /\ UNCHANGED walk
       ELSE IF loc # None
       THEN main' = [main EXCEPT !.at = NextOf(img, loc)] /\ UNCHANGED walk
       ELSE walk' = Walk(main.at, main.known, "plt") /\ UNCHANGED main
    /\ UNCHANGED <<img, an, graph, ptr>>

----------------------------------------------------------------------------
(* The loop over the queue *)

(* Pointers and emulation come before the starts that only a pattern        *)
(* supports.                                                                *)
IsEarly ==
    /\ ~main.early
    /\ \/ main.pending = <<>>
       \/ img.format = "pe" /\ OnlyKinds(an.seeds, Head(main.pending), HeuristicKinds)

LoopTop ==
    /\ At("top")
    /\ ptr' = FoldLeft(LAMBDA p, loc : MarkData(p, loc[1], loc[2]), ptr, graph.tables)
    /\ graph' = [graph EXCEPT !.tables = <<>>]
    /\ main' = Goto(IF IsEarly THEN "next" ELSE "pop")
    /\ UNCHANGED <<img, an, walk>>

\* Mutant: any start inside code that was walked is passed over.
SkipsStart_Discovered(a) ==
    a \in graph.delayed \/ a \in main.starts \/ a \in an.insns \/ ~IsExecutable(img, a)

(* A start that only a pattern supports, in code that was walked.           *)
IsWalkedPattern(a) ==
    /\ OnlyKinds(an.seeds, a, SignatureKinds)
    /\ a \in an.insns \/ (graph.compat /\ Covered(img, an, a))

SkipsStart(a) ==
    \/ a \in graph.delayed
    \/ a \in main.starts
    \/ IsWalkedPattern(a)
    \/ ~IsExecutable(img, a)

(* skipped is a history variable: the patterns that were popped in walked   *)
(* code.  No step reads it.                                                 *)
PopStart ==
    LET a == Head(main.pending)
        popped == [main EXCEPT !.pc = "top", !.pending = Tail(@),
                               !.skipped = IF IsWalkedPattern(a) THEN @ \cup {a} ELSE @]
        full == Cardinality(main.starts) >= MaxFunctions
    IN
    /\ At("pop") /\ main.pending # <<>>
    /\ \/ /\ SkipsStart(a)
          /\ main' = popped
          /\ UNCHANGED <<an, walk>>
       \/ /\ ~SkipsStart(a) /\ full
          /\ main' = [popped EXCEPT !.told = TRUE]
          /\ an' = IF main.told THEN an ELSE Diagnose(an, a, "function budget")
          /\ UNCHANGED walk
       \/ /\ ~SkipsStart(a) /\ ~full
          /\ main' = [popped EXCEPT
                        !.starts = @ \cup {a},
                        !.isolated = IF ShouldIsolate(img, an.seeds, a, a \in an.insns)
                                     THEN @ \cup {a} ELSE @]
          /\ walk' = Walk(a, None, "main")
          /\ UNCHANGED an
    /\ UNCHANGED <<img, graph, ptr>>

----------------------------------------------------------------------------
(* pointers::Discovery::next; the loop takes what it finds. *)

Found(a) ==
    IF main.early THEN [main EXCEPT !.pending = Append(@, a), !.pc = "top"]
                  ELSE [main EXCEPT !.pending = <<a>> \o @, !.pc = "pop"]
NotFound == Goto(IF main.early THEN "views" ELSE "locals")

(* next_emulated pops up to the first address that is still undefined. *)
TakeEmulated(p, a) ==
    /\ an' = [an EXCEPT !.seeds = AddSeed(@, a, "emulated")]
    /\ ptr' = [p EXCEPT !.ready = {b \in @ : b > a}]
    /\ main' = Found(a)

(* The instructions are collected again when the relocations are through    *)
(* and the batch is used up; a limit hit since then is reported.            *)
Collects(p) == p.reloc > Len(img.relocs) /\ (~p.scanned \/ p.cand = {})

BeginNext ==
    LET collects == Collects(ptr) IN
    /\ At("next")
    /\ \/ /\ StillFree(img, an, ptr) # {}
          /\ TakeEmulated(ptr, Min(StillFree(img, an, ptr)))
       \/ /\ StillFree(img, an, ptr) = {}
          /\ \E p \in {IF collects THEN Collect(img, an, [ptr EXCEPT !.ready = {}])
                       ELSE [ptr EXCEPT !.ready = {}]} :
             LET stop == Cardinality(p.tried) >= MaxCandidates
                 told == IF collects /\ p.full THEN Diagnose(an, 0, "candidate limit") ELSE an
             IN
             /\ ptr' = [p EXCEPT !.full = @ /\ ~collects, !.cand = IF stop THEN {} ELSE @]
             /\ an' = IF stop /\ p.cand # {} THEN Diagnose(told, 0, "candidates") ELSE told
             /\ main' = IF stop THEN NotFound ELSE Goto("candidate")
    /\ UNCHANGED <<img, graph, walk>>

(* What the loop takes next: the discovery and the analysis after taking    *)
(* it, with the candidate or None when a slot is passed over.               *)
Taken(p, a, cand) == [p |-> p, an |-> a, cand |-> cand]

TakeSlot(p, slot, target) ==
    IF Covered(img, an, slot) \/ InData(p.data, slot) THEN Taken(p, an, None)
    ELSE IF target = None THEN Taken(MarkData(p, slot, Width), an, None)
    ELSE Taken(MarkData(p, slot, Width), [an EXCEPT !.drefs = PushXref(@, target, slot)],
               <<"pointer", target>>)

Take(s) ==
    CASE s[1] = "reloc" ->
           TakeSlot([ptr EXCEPT !.reloc = @ + 1], s[2], ReadPointer(img, s[2]))
      [] s[1] = "table" -> TakeSlot([ptr EXCEPT !.tables = Tail(@)], s[2], img.word[s[2]])
      [] s[1] = "late" -> TakeSlot([ptr EXCEPT !.late = Tail(@)], s[2], img.word[s[2]])
      [] OTHER -> Taken([ptr EXCEPT !.cand = @ \ {s}], an, s)

(* An unreadable last relocation ends the batch. *)
EndsBatch(s) ==
    IF s = None THEN TRUE
    ELSE /\ s[1] = "reloc" /\ ptr.reloc = Len(img.relocs)
         /\ ~Covered(img, an, s[2]) /\ ~InData(ptr.data, s[2])
         /\ ReadPointer(img, s[2]) = None

\* Mutant: an unchanged number of instructions counts as new ones.
MoreToCollect_OrEqual == ~ptr.scanned \/ ptr.collected <= Cardinality(an.insns)

MoreToCollect == ~ptr.scanned \/ ptr.collected < Cardinality(an.insns)

(* The last slot, when one ends the batch, still becomes data. *)
Closed(s) == IF s = None THEN ptr ELSE Take(s).p

EndBatch ==
    /\ At("candidate")
    /\ \E s \in {NextSource(img, ptr)} : EndsBatch(s) /\ \E p \in {Closed(s)} :
         \E free \in {StillFree(img, an, p)} :
            \/ free # {} /\ TakeEmulated(p, Min(free))
            \/ /\ free = {}
               /\ ptr' = [p EXCEPT !.ready = {}]
               /\ main' = IF MoreToCollect THEN Goto("next") ELSE NotFound
               /\ UNCHANGED an
    /\ UNCHANGED <<img, graph, walk>>

IsRejected(p, kind, a) ==
    \/ <<kind, a>> \in p.tried
    \/ Covered(img, an, a) \/ InData(p.data, a) \/ InImport(img, a)
    \/ kind = "emulated" /\ a \in img.dead

(* The verdict on a candidate that is not rejected at once: "string" and    *)
(* "data" where the bytes are not executed.                                 *)
VerdictOn(an1, p, kind, a) ==
    IF (kind = "pointer" \/ ~IsExecutable(img, a)) /\ StringSize(img, an1, p, a) # 0
    THEN "string"
    ELSE IF ~IsExecutable(img, a) THEN "data"
    ELSE IF kind = "pointer" /\ "signature" \in KindsAt(an.seeds, a) THEN "code"
    ELSE EvaluateCandidate(img, an1, a, graph.known, p.data)

Again == UNCHANGED main

Judge(an1, p, kind, a, verdict) ==
    LET text == StringSize(img, an1, p, a)
        typed == IF text # 0 /\ (verdict = "string" \/ kind = "emulated")
                 THEN MarkNoncode(p, a, text) ELSE p
    IN
    \/ /\ verdict = "code" /\ kind = "emulated"
       /\ ptr' = [p EXCEPT !.ready = @ \cup {a}] /\ an' = an1 /\ Again
    \/ /\ verdict = "code" /\ kind = "pointer"
       /\ ptr' = p /\ an' = [an1 EXCEPT !.seeds = AddSeed(@, a, kind)]
       /\ main' = Found(a)
    \/ /\ verdict = "inconclusive"
       /\ ptr' = typed /\ an' = Diagnose(an1, a, "inconclusive") /\ Again
    \/ /\ verdict \in {"string", "data", "notcode"}
       /\ ptr' = IF verdict = "data" THEN p ELSE typed
       /\ an' = an1 /\ Again

TryCandidate ==
    /\ At("candidate")
    /\ \E s \in {NextSource(img, ptr)} : ~EndsBatch(s) /\ \E t \in {Take(s)} :
         IF t.cand = None THEN ptr' = t.p /\ an' = t.an /\ Again
         ELSE LET kind == t.cand[1]
                  a == t.cand[2]
                  p == IF kind = "pointer" THEN AddCandidate(img, t.an, t.p, a, "emulated") ELSE t.p
                  tried == [p EXCEPT !.tried = @ \cup {<<kind, a>>}]
              IN  IF Cardinality(p.tried) >= MaxCandidates
                  THEN /\ an' = Diagnose(t.an, a, "candidates")
                       /\ ptr' = [p EXCEPT !.cand = {}]
                       /\ main' = NotFound
                  ELSE IF IsRejected(p, kind, a) THEN ptr' = tried /\ an' = t.an /\ Again
                  ELSE \E v \in {VerdictOn(t.an, tried, kind, a)} :
                          Judge(t.an, tried, kind, a, v)
    /\ UNCHANGED <<img, graph, walk>>

----------------------------------------------------------------------------
(* FLIRT before the pattern scan, then the import-call wave *)

(* The views of all starts so far, without the oversized ones. *)
ViewsOf(starts) ==
    LET fitting(view) == [f \in {g \in starts : ~view[g].oversized} |-> view[f].blocks]
    IN  fitting([f \in starts |-> BuildFunctionView(img, an, graph, f, f \in main.isolated)])

(* identify_with_local_starts: undefined local symbols of every function    *)
(* that a signature recognises.                                             *)
LocalStarts(functions) ==
    {a \in UNION {img.locals[f] : f \in DOMAIN img.locals \cap DOMAIN functions} :
        a \notin DOMAIN functions /\ ~Covered(img, an, a) /\ IsExecutable(img, a)}

(* fragment_starts: `call [import]` in bytes that nothing defines.  Width   *)
(* bytes of pointer follow the opcode; a pointer is skipped whole.          *)
DefinedEnd(a) ==
    LET slots == {s \in ToSet(img.relocs) : s <= a /\ a < s + Width}
    IN  IF Covered(img, an, a) THEN NextOf(img, Max({b \in an.insns : b <= a}))
        ELSE IF graph.compat /\ slots # {} THEN Max(slots) + Width ELSE None

IsImportCall(a) == /\ img.at[a] # None
                   /\ img.at[a].flow = "icall"
                   /\ img.at[a].mem \in img.imports
                   /\ img.at[a].len = Width + 1

FragmentStarts ==
    LET end(a) == IF a < Top + 1 - 2 * Width THEN DefinedEnd(a) ELSE None
        pointers[a \in 0..Top + Width + 1] ==
          LET go(e) == IF e # None THEN pointers[e]
                       ELSE IF a >= Top + 1 - 2 * Width THEN {}
                       ELSE IF ReadPointer(img, a) \notin img.mapped THEN pointers[a + 1]
                       ELSE {a} \cup pointers[a + Width]
          IN  go(end(a))
        found == {a \in Addr : /\ a + 1 \in pointers[0]
                               /\ ReadPointer(img, a + 1) \in img.imports
                               /\ IsImportCall(a)}
    IN  IF img.x86 THEN Ascending(found) ELSE <<>>

BeginWave(known, then) ==
    [main EXCEPT !.pc = "wave", !.todo = FragmentStarts, !.known = known, !.then = then]

EndEarly ==
    LET signed == img.format = "pe"
        others == [f \in DOMAIN an.functions \ main.starts |-> an.functions[f]]
    IN
    /\ At("locals")
    /\ \E functions \in {IF signed THEN ViewsOf(main.starts) @@ others ELSE an.functions} :
       \E fresh \in {IF signed THEN LocalStarts(functions) \ main.starts ELSE {}} :
       IF fresh # {} /\ Cardinality(main.starts) < MaxFunctions
       THEN /\ an' = [an EXCEPT !.functions = functions,
                          !.seeds = AddSeeds(@, fresh, "local")]
            /\ main' = [main EXCEPT !.pc = "top", !.pending = Ascending(fresh) \o @]
            /\ UNCHANGED ptr
       ELSE /\ an' = [an EXCEPT !.functions = functions]
            /\ ptr' = FinishEmucode(ptr)
            /\ main' = [BeginWave(main.starts, "pop") EXCEPT !.early = TRUE]
    /\ UNCHANGED <<img, graph, walk>>

WalkFragment ==
    LET a == Head(main.todo)
        passed == [main EXCEPT !.todo = Tail(@)]
    IN
    /\ At("wave") /\ main.todo # <<>>
    /\ main' = passed
    /\ walk' = IF a \in DOMAIN graph.succ \/ ~IsExecutable(img, a) THEN walk
               ELSE Walk(a, main.known, "import")
    /\ UNCHANGED <<img, an, graph, ptr>>

EndWave ==
    /\ At("wave") /\ main.todo = <<>>
    /\ main' = Goto(main.then)
    /\ UNCHANGED <<img, an, graph, ptr, walk>>

----------------------------------------------------------------------------
(* The late waves, once, when the queue first runs empty *)

(* i386.golang: img.gomain is what the blocks of the entry function spell.  *)
GoWave ==
    LET found == /\ img.gomain # None /\ img.entry \in DOMAIN graph.succ
                 /\ ~BuildFunctionView(img, an, graph, img.entry, FALSE).oversized
                 /\ IsExecutable(img, img.gomain)
        isNew == img.gomain \notin DOMAIN an.seeds
        queued == [main EXCEPT !.late = TRUE,
                               !.pending = IF found /\ isNew THEN <<img.gomain>> ELSE <<>>]
    IN
    /\ At("pop") /\ main.pending = <<>> /\ ~main.late
    /\ an' = [an EXCEPT !.seeds = IF found THEN AddSeed(@, img.gomain, "gomain") ELSE @]
    /\ main' = IF graph.compat THEN [queued EXCEPT !.pc = "cookies"]
               ELSE [queued EXCEPT !.pc = "wave", !.todo = FragmentStarts, !.known = None,
                                   !.then = "cookies"]
    /\ UNCHANGED <<img, graph, ptr, walk>>

(* code_block_start: the block written last; natively the nearest address   *)
(* behind which a block must begin.                                         *)
CompletedBlocks(a) ==
    {x \in (DOMAIN graph.completed) \X Addr :
        /\ x[2] \in DOMAIN graph.completed[x[1]]
        /\ graph.completed[x[1]][x[2]].insns # <<>>
        /\ x[2] <= a /\ a < NextOf(img, LastInsn(graph.completed[x[1]][x[2]]))}

CodeBlockStart(a) ==
    LET held == CompletedBlocks(a)
        last == CHOOSE x \in held : \A y \in held :
                   \/ OrderOf(an, y[1]) < OrderOf(an, x[1])
                   \/ OrderOf(an, y[1]) = OrderOf(an, x[1]) /\ y[2] <= x[2]
        back[b \in Addr] ==
          LET prior == Previous(img, an, b)
          IN  IF b \notin an.insns THEN None
              ELSE IF b \in DOMAIN an.xrefs \/ prior = None THEN b
              ELSE IF IsBlockTerminator(img.at[prior].flow) \/ prior \notin DOMAIN graph.succ THEN b
              ELSE back[prior]
    IN  IF ~graph.compat THEN back[a]
        ELSE IF held = {} THEN None ELSE last[2]

CookieBlocks ==
    LET cookies == {img.cookies[f] : f \in main.starts \cap DOMAIN img.cookies \cap an.insns}
        sources == UNION {ToSet(an.drefs[c]) : c \in cookies \cap DOMAIN an.drefs}
    IN  {CodeBlockStart(a) : a \in {b \in sources \cap an.insns : img.at[b].mnemonic = "mov"}}

(* ms.msvcfunc and the AArch64 stub aliases. *)
CookieWave ==
    LET blocks == IF img.format # "pe" THEN {}
                  ELSE {b \in CookieBlocks \ (main.starts \cup {None}) : IsExecutable(img, b)}
        stubs == IF ~img.arm THEN {}
                 ELSE {a \in an.insns : NextOf(img, a) \in an.insns /\ img.got[a] \in img.imports}
    IN
    /\ At("cookies")
    /\ an' = [an EXCEPT !.seeds = AddSeeds(@, blocks, "cookie")]
    /\ main' = [main EXCEPT !.pc = "top",
                            !.pending = Reverse(Ascending(blocks)) \o @]
    /\ img' = [img EXCEPT !.imports = @ \cup stubs,
                          !.noretApis = @ \cup {a \in stubs : img.got[a] \in @}]
    /\ UNCHANGED <<graph, ptr, walk>>

(* The queue is empty for good, unless pointers still find a start. *)
EmptyQueue ==
    /\ At("pop") /\ main.pending = <<>> /\ main.late
    /\ main' = Goto(IF graph.compat THEN "next" ELSE "views")
    /\ UNCHANGED <<img, an, graph, ptr, walk>>

----------------------------------------------------------------------------
(* The functions of a sweep, and the next pass *)

(* Views of the starts; import-call fragments keep what was captured.  The  *)
(* no-return decision of a native sweep is taken on these.                  *)
Swept == main.starts \ graph.delayed

WithFragments(views) ==
    LET kept == graph.importFns \cap DOMAIN graph.completed
    IN  [f \in kept \cup DOMAIN views |-> IF f \in kept THEN graph.completed[f] ELSE views[f]]

(* Captured extents win where a function is kept. *)
WithCaptured(functions) ==
    [f \in DOMAIN functions |-> IF f \in DOMAIN graph.completed THEN graph.completed[f]
                                                               ELSE functions[f]]

Callees(functions) ==
    UNION {{<<f, img.at[a].direct>> :
              a \in {b \in UNION {ToSet(functions[f][c].insns) : c \in DOMAIN functions[f]} :
                        img.at[b].flow = "call" /\ img.at[b].direct # None}} :
             f \in DOMAIN functions}

\* Mutant: compatibility publishes the set it began with.
PublishedSet_Initial(next) == main.noreturn

PublishedSet(next) == IF graph.compat THEN next ELSE main.noreturn

(* The passes end when the set is stable or they are used up; x86           *)
(* compatibility takes one.                                                 *)
EndSweep ==
    /\ At("views")
    /\ \E views \in {ViewsOf(Swept)} : \E functions \in {WithFragments(views)} :
       \E next \in {IF graph.compat THEN graph.known
                    ELSE Propagate(img, [an EXCEPT !.functions = functions])} :
         LET last == graph.compat \/ next = main.noreturn \/ main.pass + 1 = MaxPasses
             swept == [an EXCEPT !.functions = WithCaptured(functions),
                                 !.diags = @ \cup {<<f, "oversized">> : f \in Swept \ DOMAIN views}]
         IN
         IF last
         THEN /\ an' = [swept EXCEPT !.noreturn = PublishedSet(next), !.callees = Callees(swept.functions)]
              /\ main' = Goto("done")
         ELSE /\ an' = swept
              /\ main' = [main EXCEPT !.pc = "pass", !.pass = @ + 1, !.noreturn = next]
    /\ UNCHANGED <<img, graph, ptr, walk>>

Done == main.pc = "done"

Finished == Done /\ UNCHANGED vars

SweepStep ==
    \/ StartPass
    \/ EndPlt
    \/ WalkPlt
    \/ LoopTop
    \/ PopStart
    \/ BeginNext
    \/ TryCandidate
    \/ EndBatch
    \/ EndEarly
    \/ WalkFragment
    \/ EndWave
    \/ GoWave
    \/ CookieWave
    \/ EmptyQueue
    \/ EndSweep

Next == WalkStep \/ SweepStep \/ Finished

(* One thread runs the recovery and takes a step whenever one is left:      *)
(* WF_vars(Next) with its enabling condition, ~Done, written out.           *)
Fairness == []<>Done \/ []<><<TRUE>>_vars

Spec == Init /\ [][Next]_vars /\ Fairness

----------------------------------------------------------------------------
(* Properties *)

(* A budget was hit, and a diagnostic says so. *)
Limited == \E d \in an.diags : d[2] \in {"function budget", "abandoned", "oversized"}

InsnsOf(f) == UNION {ToSet(an.functions[f][b].insns) : b \in DOMAIN an.functions[f]}
CallsExecutable(a) == /\ img.at[a].flow = "call"
                      /\ img.at[a].direct \in img.exec \ {NextOf(img, a)}

(* Recovery ends: the queue that the waves, callees and pointers feed while *)
(* it is drained runs empty, every walk consumes its tasks, and the passes  *)
(* stop (recover_functions, analyze_seeded_image).                          *)
Terminates == <>Done

(* A start that only a pattern supports was popped when its bytes were      *)
(* walked already, and is not taken up again for the Go wave, nor for a     *)
(* call that a walk of the import-call wave returned.                       *)
PassedOver(t) ==
    /\ t \in main.skipped
    /\ OnlyKinds(an.seeds, t, SignatureKinds \cup {"call", "gomain"})
    /\ "gomain" \in an.seeds[t] \/ t \in main.waved

(* The function at t has more code than the limits allow to store.          *)
TooLarge(t) == <<t, "extent not preserved">> \in an.diags

(* A start found late is still analysed: whatever a walked instruction      *)
(* calls in executable memory is a function, however the target was known   *)
(* before the call was seen, and be the caller part of a function or not    *)
(* (the requeue rules of recover_functions).  The exceptions are functions  *)
(* that wait for good, those that are noted as too large, and patterns that *)
(* were passed over.                                                        *)
CallGraphIsClosed ==
    Done /\ ~Limited =>
        \A a \in an.insns : CallsExecutable(a) =>
            LET t == img.at[a].direct
            IN  t \in DOMAIN an.functions \cup graph.delayed \/ TooLarge(t) \/ PassedOver(t)

(* No start that was taken from the queue, and no executable extent that a  *)
(* walk captured, is missing from the result.  The exception are functions  *)
(* that a walk left waiting for good: they stay out even when a later walk  *)
(* completes them.                                                          *)
NothingIsLost ==
    Done /\ ~Limited =>
        (main.starts \cup (DOMAIN graph.completed \cap img.exec)) \ graph.delayed
            \subseteq DOMAIN an.functions

(* The calls that were cut and the published no-return set agree: natively  *)
(* they are exactly the calls into the set of the last pass, in             *)
(* compatibility every cut call goes into it.                               *)
CutCallsMatchTheSet ==
    LET calls == {a \in an.insns \cap DOMAIN graph.succ : CallsExecutable(a)}
        into == {a \in calls : img.at[a].direct \in an.noreturn}
    IN  Done => /\ an.noretCalls \cap calls \subseteq into
                /\ ~graph.compat => into \subseteq an.noretCalls

(* Within a pass a function that was found never to return stays one, and a *)
(* call that was cut stays cut: paths that were given up are not walked     *)
(* later (known_noreturn, noreturn_calls).                                  *)
DecisionsAreFinal ==
    [][At("pass") \/ (graph.known \subseteq graph'.known /\ an.noretCalls \subseteq an'.noretCalls)]_vars

(* Native blocks of a function have edges to blocks of the same function    *)
(* and, unless its instructions overlap, share none (build_function_view).  *)
Overlapping(f) == \E a, b \in InsnsOf(f) : a < b /\ b < NextOf(img, a)

NativeBlocksAreSound ==
    Done /\ ~graph.compat =>
        \A f \in DOMAIN an.functions : LET view == an.functions[f] IN
            \A b \in DOMAIN view :
               /\ EdgeTargets(view[b].succs) \subseteq DOMAIN view
               /\ Overlapping(f) \/ \A c \in DOMAIN view \ {b} : ToSet(view[b].insns) \cap ToSet(view[c].insns) = {}

(* When a walk ends, a function is left waiting only for the root of loose  *)
(* code, for a function that waits itself, or for one that had waited and   *)
(* was finished by the release of another, which releases nobody.           *)
NobodyIsLeftWaiting ==
    walk.on /\ walk.at = None /\ walk.tasks = <<>> =>
        \A g \in DOMAIN walk.delayed : \A f \in walk.delayed[g] \ {IF Loose THEN walk.start ELSE None} :
            /\ f # g
            /\ f \in DOMAIN walk.delayed \cup (DOMAIN an.flirtCounts \ DOMAIN an.analysisCounts)

(* The interval lists of typed locations stay sorted, disjoint and maximal, *)
(* as the binary searches of pointers.rs presume, however pointers, strings *)
(* and code replace each other.                                             *)
TypedLocationsAreDisjoint == IsIntervalList(ptr.data) /\ IsIntervalList(ptr.barriers)
=============================================================================
