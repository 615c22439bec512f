---------------------------- MODULE JumpTables -----------------------------
(* The tables that indirect branches dispatch on (switch.rs, the jump       *)
(* tables of recovery.rs), and the preparation of a function's locations    *)
(* before its blocks are taken.                                             *)
(*                                                                          *)
(* Which registers the instructions of a dispatch use is settled by their   *)
(* encoding alone: img.dispatch maps a jump to what its instructions spell, *)
(*   form      "absolute" (pointers), "rva" or "relative" (offsets)         *)
(*   limit, inclusive   the bound that the compare and the guard state      *)
(*   table     the address of the table;  remap: selector bytes or <<>>     *)
(*   based     the base is the image base, proved by constant_before from   *)
(*             the compare when `carried`                                   *)
(*   loose     the shape that compatibility accepts without a guard         *)
EXTENDS Callbacks

CONSTANTS MaxCases, MaxDispatch     \* MAX_CASES, MAX_DISPATCH_INSNS

ASSUME SwitchAssumption == MaxCases \in Nat /\ MaxDispatch \in Nat

HasEntry(an, a) == a \in DOMAIN an.xrefs \/ a \in DOMAIN an.seeds

(* The instruction that ends where this address begins. *)
Previous(img, an, a) ==
    LET below == {b \in an.insns : b < a}
    IN  IF below = {} THEN None
        ELSE IF NextOf(img, Max(below)) = a THEN Max(below) ELSE None

(* guarded_sequence: straight back to a conditional branch over the jump,   *)
(* with no way in between; the compare lies before the branch.              *)
Guard(img, an, branch) ==
    LET back[n \in 0..MaxDispatch - 1] ==
          LET from(a) ==
                IF a = None THEN None
                ELSE IF n > 0 /\ img.at[a].flow = "cond" THEN a
                ELSE IF HasEntry(an, a) \/ (n > 0 /\ img.at[a].flow # "next") THEN None
                ELSE Previous(img, an, a)
          IN  from(IF n = 0 THEN branch ELSE back[n - 1])
        found(a) == IF a = None THEN None
                    ELSE IF img.at[a].flow = "cond" THEN a ELSE None
    IN  found(back[MaxDispatch - 1])

Compare(img, an, branch) ==
    LET of(g) ==
          IF g = None THEN None
          ELSE IF \/ HasEntry(an, g) \/ img.at[g].direct = None
                  \/ img.at[g].direct \in NextOf(img, g)..branch
               THEN None
          ELSE IF Previous(img, an, g) = None THEN None
          ELSE IF img.at[Previous(img, an, g)].flow # "next" THEN None
          ELSE Previous(img, an, g)
    IN  of(Guard(img, an, branch))

(* constant_before: the value of the base register at an address, when      *)
(* every definition that reaches it loads the same constant.                *)
Predecessors(img, an, a) ==
    LET prior == Previous(img, an, a)
        falls == IF prior = None THEN {}
                 ELSE IF /\ img.at[prior].flow \in {"next", "call", "icall", "cond"}
                         /\ prior \notin an.noretCalls
                      THEN {prior} ELSE {}
        sources == IF a \in DOMAIN an.xrefs THEN ToSet(an.xrefs[a]) ELSE {}
    IN  falls \cup {s \in sources \cap an.insns : img.at[s].flow \notin {"call", "icall"}}

IsClobbered(img, b) == img.at[b].flow \in {"call", "icall"}
Defines(img, b) == img.at[b].sets # "keep"
IsConstant(img, b) == img.at[b].lea /\ img.at[b].rip

ConstantBefore(img, an, a) ==
    LET unwritten(b) == {c \in Predecessors(img, an, b) :
                            ~Defines(img, c) /\ ~IsClobbered(img, c)}
        value(defs) == IF Cardinality(defs) = 1 THEN CHOOSE v \in defs : TRUE ELSE None
        reaching(priors) ==
            IF \/ {} \in priors
               \/ \E b \in UNION priors : \/ IsClobbered(img, b)
                                          \/ Defines(img, b) /\ ~IsConstant(img, b)
            THEN None
            ELSE value({img.at[b].value : b \in {c \in UNION priors : Defines(img, c)}})
        visited == Reach([b \in 0..Top + 1 |-> unwritten(b)], a)
    IN  reaching({Predecessors(img, an, b) : b \in visited})

CaseCount(d) ==
    LET count == IF d.inclusive THEN d.limit + 1 ELSE d.limit
    IN  IF count > 0 /\ count <= MaxCases THEN count ELSE None

----------------------------------------------------------------------------
(* `known` is the no-return set of a compatibility walk, None natively. *)
Slot(d, i) == d.table + i * Width
IsReferenced(an, slot) == slot \in DOMAIN an.xrefs \/ slot \in DOMAIN an.drefs

Arm(img, an, target, known) ==
    IF target = None THEN "notcode"
    ELSE EvaluateCandidate(img, an, target, known, <<>>)

(* How many entries a compatibility table has: up to the first slot that    *)
(* something else refers to, or the first arm that is not code.  A slot     *)
(* that cannot be read before that rejects the table.                       *)
Prefix(img, an, d, known, count, signatures) ==
    LET ends(i) ==
          LET t == ReadPointer(img, Slot(d, i))
          IN  \/ signatures /\ i > 0 /\ IsReferenced(an, Slot(d, i))
              \/ t = None
              \/ /\ ~(signatures /\ "signature" \in KindsAt(an.seeds, t))
                 /\ Arm(img, an, t, known) # "code"
        read(n) == IF n = count THEN n
                   ELSE IF signatures /\ n > 0 /\ IsReferenced(an, Slot(d, n)) THEN n
                   ELSE IF ReadPointer(img, Slot(d, n)) = None THEN None ELSE n
    IN  read(Min({i \in 0..count - 1 : ends(i)} \cup {count}))

AbsoluteTargets(img, an, d, known) ==
    LET of(count) == IF count = None THEN None
                     ELSE [i \in 1..count |-> ReadPointer(img, Slot(d, i - 1))]
        whole(ts) == IF ts = None THEN None
                     ELSE IF \E i \in DOMAIN ts : ts[i] = None THEN None ELSE ts
    IN  IF CaseCount(d) = None THEN None
        ELSE IF known = None THEN whole(of(CaseCount(d)))
        ELSE of(Prefix(img, an, d, known, CaseCount(d), TRUE))

(* x64_targets: a selector may go through a table of bytes.  Compatibility  *)
(* tests consecutive entries whether the selector can reach them or not.    *)
RvaTargets(img, an, d, known) ==
    LET selectors == IF d.remap = <<>> THEN [i \in 1..CaseCount(d) |-> i - 1]
                     ELSE SubSeq(d.remap, 1, CaseCount(d))
        kept(n) == IF n = None THEN None ELSE SelectSeq(selectors, LAMBDA i : i < n)
        read(is) == IF is = None THEN None
                    ELSE IF \E i \in DOMAIN is : ReadPointer(img, Slot(d, is[i])) = None
                    THEN None ELSE [i \in DOMAIN is |-> ReadPointer(img, Slot(d, is[i]))]
        limit == Max(ToSet(selectors)) + 1
    IN  IF CaseCount(d) = None \/ (known # None /\ (d.form = "relative" \/ ~d.based)) THEN None
        ELSE IF known = None THEN read(selectors)
        ELSE read(kept(Prefix(img, an, d, known, limit, FALSE)))

(* compatibility_rva_targets: no guard, so the table ends at a reference,   *)
(* at a word that is not executable, or at an arm that is not code.         *)
LooseTargets(img, an, d, known) ==
    LET ends(i) == \/ i > 0 /\ IsReferenced(an, Slot(d, i))
                   \/ ReadPointer(img, Slot(d, i)) \notin img.exec
                   \/ i < MaxCases
                      /\ Arm(img, an, ReadPointer(img, Slot(d, i)), known) # "code"
        upTo(stops) == IF stops = {} THEN None
                       ELSE Distinct([i \in 1..Min(stops) |-> ReadPointer(img, Slot(d, i - 1))])
    IN  upTo({i \in 0..MaxCases : ends(i)})

(* An arm may not go back behind the compare. *)
IsSound(img, compare, branch, targets) ==
    \A i \in DOMAIN targets :
        /\ targets[i] \notin NextOf(img, compare)..branch
        /\ targets[i] \in img.exec
        /\ img.at[targets[i]] # None

Base(img, an, compare, d) == ~d.carried \/ ConstantBefore(img, an, compare) # None

(* Result: the targets, or None, and the table locations to mark as data.   *)
Resolution(targets, locs) == [targets |-> targets, locs |-> locs]

Unresolved == Resolution(None, <<>>)

GuardedTargets(img, an, d, compare, branch, known) ==
    LET raw == IF d.form = "absolute" THEN AbsoluteTargets(img, an, d, known)
               ELSE IF Base(img, an, compare, d) THEN RvaTargets(img, an, d, known) ELSE None
        locs == IF known # None /\ d.form = "rva" /\ d.based
                THEN <<<<d.table, Width>>>> ELSE <<>>
        checked(ts) == IF ts = None THEN Unresolved
                       ELSE IF ~IsSound(img, compare, branch, ts) THEN Unresolved
                       ELSE IF known # None THEN Resolution(Distinct(ts), locs)
                       ELSE Resolution(Ascending(ToSet(ts)), <<>>)
    IN  IF compare = None THEN Unresolved ELSE checked(raw)

SwitchTargets(img, an, branch, known) ==
    LET d == img.dispatch[branch]
        orLoose(r) == IF r.targets # None \/ known = None \/ ~d.loose \/ img.x86 THEN r
                      ELSE Resolution(LooseTargets(img, an, d, known), <<<<d.table, Width>>>>)
    IN  IF branch \notin DOMAIN img.dispatch THEN Unresolved
        ELSE orLoose(GuardedTargets(img, an, d, Compare(img, an, branch), branch, known))

----------------------------------------------------------------------------
(* Tables without a guard *)

(* A plain memory jump dereferences one pointer; an indexed one selects.    *)
IsPointerJump(img, op) == ~img.arm /\ op.mem # None /\ ~op.index

(* scan_jump_table: up to the first word that is not an executable address. *)
ScanJumpTable(img, op) ==
    LET scan[i \in 0..Top + 1] ==
          LET t == ReadPointer(img, op.mem + i * Width)
          IN  IF (IsPointerJump(img, op) /\ i = 1) \/ t \notin img.exec
              THEN <<>> ELSE <<t>> \o scan[i + 1]
    IN  IF op.mem = None \/ (~img.arm /\ op.index /\ op.scale # 4) THEN <<>> ELSE scan[0]

JumpTableTargets(img, op) == Ascending(ToSet(ScanJumpTable(img, op)))

(* jump_table_targets_compat: each arm is recorded as a reference before    *)
(* the next one is evaluated.                                               *)
Arms(targets, xrefs, diags) == [targets |-> targets, xrefs |-> xrefs, diags |-> diags]

JumpTableTargetsCompat(img, an, a, noreturn) ==
    LET op == img.at[a]
        found == ScanJumpTable(img, op)
        take[i \in 0..Len(found)] ==
          LET more(r) ==
                LET t == found[i]
                    slot == op.mem + (i - 1) * Width
                    now == [an EXCEPT !.xrefs = r.xrefs]
                    judge(verdict) ==
                      CASE verdict = "code" ->
                             Arms(Append(r.targets, t), PushXref(r.xrefs, t, a), r.diags)
                        [] verdict = "inconclusive" ->
                             [r EXCEPT !.diags = @ \cup {<<a, "arm inconclusive">>}]
                        [] OTHER -> r
                IN  IF Len(r.targets) < i - 1 \/ (i > 1 /\ IsReferenced(now, slot)) THEN r
                    ELSE judge(IF "signature" \in KindsAt(an.seeds, t) \/ Contains(r.targets, t)
                               THEN "code" ELSE EvaluateCandidate(img, now, t, noreturn, <<>>))
          IN  IF i = 0 THEN Arms(<<>>, an.xrefs, {}) ELSE more(take[i - 1])
        distinct(r) == [r EXCEPT !.targets = Distinct(@)]
    IN  IF IsPointerJump(img, op) THEN Arms(JumpTableTargets(img, op), an.xrefs, {})
        ELSE distinct(take[Len(found)])

(* split_adjacent_tables: an earlier indexed dispatch whose scan ran into   *)
(* this table loses the arms; the functions that held them are rebuilt.     *)
PreviousDispatches(img, an, a, targets) ==
    IF targets = <<>> \/ img.at[a].mem = None \/ Head(targets) \notin DOMAIN an.xrefs THEN {}
    ELSE {s \in ToSet(an.xrefs[Head(targets)]) \cap an.insns :
            /\ s # a
            /\ img.at[s].flow = "ijmp" /\ img.at[s].index
            /\ img.at[s].mem # None /\ img.at[s].mem < img.at[a].mem}

OrderOf(an, f) == IF Contains(an.forder, f)
                  THEN CHOOSE i \in DOMAIN an.forder : an.forder[i] = f ELSE 1

HoldsAny(blocks, sources) == \E b \in DOMAIN blocks : ToSet(blocks[b].insns) \cap sources # {}

(* The function completed last among those with a block at the target; the  *)
(* highest address wins a tie.                                              *)
OwnerOf(an, completed, target) ==
    LET held == {f \in DOMAIN completed : target \in DOMAIN completed[f]}
    IN  IF held = {} THEN None
        ELSE CHOOSE f \in held : \A g \in held :
               \/ OrderOf(an, g) < OrderOf(an, f)
               \/ OrderOf(an, g) = OrderOf(an, f) /\ g <= f

(* Result: the references, edges and extents after it, and diagnostics. *)
Separation(xrefs, succ, completed, diags) ==
    [xrefs |-> xrefs, succ |-> succ, completed |-> completed, diags |-> diags]

SplitAdjacentTables(img, an, graph, a, targets) ==
    LET split(previous) ==
          LET arms == ToSet(targets)
              strip(edges) == SelectSeq(edges, LAMBDA e : e.target \notin arms)
              unlinked == [t \in DOMAIN an.xrefs |->
                              IF t \in arms
                              THEN SelectSeq(an.xrefs[t], LAMBDA s : s \notin previous)
                              ELSE an.xrefs[t]]
              stripped == [s \in DOMAIN graph.succ |->
                              IF s \in previous THEN strip(graph.succ[s]) ELSE graph.succ[s]]
              disown(completed, t) ==
                  LET f == OwnerOf(an, completed, t)
                  IN  IF f = None THEN completed
                      ELSE [completed EXCEPT ![f] = Without(@, t)]
              affected == {f \in DOMAIN graph.completed :
                              HoldsAny(graph.completed[f], previous)}
              rebuild(r, f) ==
                  LET put(v) == IF v.oversized THEN [r EXCEPT !.diags = @ \cup {<<f, "not rebuilt">>}]
                                ELSE [r EXCEPT !.completed[f] = v.blocks]
                  IN  put(BuildFunctionView(img, [an EXCEPT !.xrefs = r.xrefs],
                                            [graph EXCEPT !.succ = r.succ, !.completed = r.completed],
                                            f, FALSE))
          IN  FoldLeft(rebuild,
                       Separation(unlinked, stripped, FoldLeft(disown, graph.completed, targets), {}),
                       SetToSortSeq(affected, <))
        of(previous) == IF previous = {} THEN Separation(an.xrefs, graph.succ, graph.completed, {})
                        ELSE split(previous)
    IN  of(PreviousDispatches(img, an, a, targets))

(* The table slots that a resolved indexed dispatch types as pointers. *)
TableSlots(img, op, targets) ==
    LET slot(i) == op.mem + (i - 1) * Width
        runs == {n \in 0..Top + 1 : \A i \in 1..n : ReadPointer(img, slot(i)) \in ToSet(targets)}
    IN  IF op.mem = None THEN <<>> ELSE [i \in 1..Max(runs) |-> <<slot(i), Width>>]

----------------------------------------------------------------------------
(* prepare_function_code: walk the locations of a function as its blocks    *)
(* will be taken.  A pointer in the way is turned back into code ("retype", *)
(* at the address) unless an instruction already covers its start, which is *)
(* deleted instead (it is `gone`); an orphan found again fails the function. *)
Preparation(start, an, p, seen) ==
    [todo |-> <<start>>, done |-> {}, at |-> None, block |-> None, gone |-> {},
     xrefs |-> an.xrefs, diags |-> {}, p |-> p, seen |-> seen, result |-> "open"]

(* The analysis as the preparation leaves it. *)
Prepared(an, w) ==
    [an EXCEPT !.insns = @ \ w.gone, !.xrefs = w.xrefs, !.diags = @ \cup w.diags]

MeetPointer(img, an, w, pointer) ==
    LET opcode == InstructionLocation(img, Prepared(an, w), pointer)
        forget(xrefs) ==
          LET left == [t \in DOMAIN xrefs |-> SelectSeq(xrefs[t], LAMBDA s : s # pointer)]
          IN  [t \in {u \in DOMAIN left : left[u] # <<>>} |-> left[t]]
    IN  IF opcode # None
        THEN [w EXCEPT !.at = None, !.p = RemovePointerReference(@, pointer),
                       !.gone = @ \cup {opcode}, !.xrefs = forget(@),
                       !.diags = @ \cup {<<w.at, "overlapping pointer">>}]
        ELSE IF OrphanPointer(img, Prepared(an, w), w.p, w.at) THEN [w EXCEPT !.result = "failed"]
        ELSE [w EXCEPT !.result = "retype", !.p = MarkCode(@, pointer, @.ptrs[pointer])]

PassLocation(img, an, graph, w, loc) ==
    LET next == w.at + img.at[loc].len
        out == Branches(graph, w.at)
        queued == [w EXCEPT !.todo = @ \o [i \in DOMAIN out |-> out[i].target]]
    IN  IF img.at[w.at] = None THEN [w EXCEPT !.seen = @ \ {w.block}, !.at = None]
        ELSE IF ~FallsThrough(img, an, loc) THEN [queued EXCEPT !.at = None]
        ELSE IF out # <<>> \/ next \in DOMAIN w.xrefs
             THEN [queued EXCEPT !.todo = Append(@, next), !.at = None]
        ELSE [w EXCEPT !.at = next]

PrepareStep(img, an, graph, w) ==
    LET now == Prepared(an, w)
        loc == InstructionLocation(img, now, IF w.at = None THEN Last(w.todo) ELSE w.at)
        pointer == PointerLocation(img, now, w.p, w.at)
        enter(a) == [w EXCEPT !.todo = Front(@), !.done = @ \cup {a}, !.at = a, !.block = a,
                              !.seen = IF loc # None THEN @ \cup {a} ELSE @]
    IN  IF w.result # "open" THEN w
        ELSE IF w.at = None /\ w.todo = <<>> THEN [w EXCEPT !.result = "ready"]
        ELSE IF w.at = None
             THEN IF Last(w.todo) \in w.done THEN [w EXCEPT !.todo = Front(@)]
                                             ELSE enter(Last(w.todo))
        ELSE IF loc # None THEN PassLocation(img, an, graph, w, loc)
        ELSE IF pointer # None THEN MeetPointer(img, an, w, pointer)
        ELSE [w EXCEPT !.at = None]

(* A location is passed or a start taken; a location queues its branches.   *)
PrepareFuel == 2 * MaxInsns + Top

PrepareFunctionCode(img, an, graph, p, start, seen) ==
    LET run[n \in 0..PrepareFuel] ==
          IF n = 0 THEN Preparation(start, an, p, seen)
          ELSE LET one(w) == PrepareStep(img, an, graph, w) IN one(run[n - 1])
    IN  run[PrepareFuel]
=============================================================================
