----------------------------- MODULE Pointers ------------------------------
(* Addresses that may be starts of functions: the verdict on one, and       *)
(* pointers.rs, the pointers, data and candidates found while code is       *)
(* walked.  `p` is the Discovery record:                                    *)
(*   cand      candidates <<kind, address>> not yet evaluated               *)
(*   ready     accepted by emulation, not yet functions                     *)
(*   tables    sources in pointer arrays; late: the other sources           *)
(*   tried     candidates evaluated;  seen: instructions examined           *)
(*   collected how many instructions the last collection saw                *)
(*   fns       functions whose padding was examined                         *)
(*   scanned, active   raw scan done, emulation wave still running          *)
(*   data, barriers    interval lists;  ptrs: slot |-> end;  orphans        *)
(*   full      a candidate was refused at the limit;  reloc: next slot      *)
EXTENDS FunctionViews

CONSTANTS
    MaxSteps, MaxPaths,    \* emucode: MAX_STEPS, MAX_PATHS
    MaxCandidates,         \* MAX_CANDIDATES
    TableMinLen,           \* POINTER_TABLE_MIN_LEN
    MinPadding             \* the five bytes of a hot-patch pad

ASSUME PointersAssumption ==
    /\ MaxSteps \in Nat /\ MaxPaths \in Nat
    /\ MaxCandidates \in Nat /\ TableMinLen \in Nat /\ MinPadding \in Nat \ {0}

----------------------------------------------------------------------------
(* evaluate_candidate: does the code at an address look like a function?    *)
(* A bounded walk over every path from the address.  The machine state of a *)
(* path is cut down to one register, `acc`: instructions may set it, calls  *)
(* clobber it, and computed transfers read it.                              *)

(* State::operand of operand 0 of a transfer.  An import slot reads as a    *)
(* taint, and so does memory whose index is unknown.                        *)
Operand(img, a, acc) ==
    LET op == img.at[a]
    IN  IF op.direct # None THEN op.direct
        ELSE IF op.mem = None THEN acc
        ELSE IF op.index \/ op.mem \in img.imports THEN None
        ELSE ReadPointer(img, op.mem)

(* State::step; None when the instruction is not supported. *)
StepAcc(img, a, acc) == IF img.at[a].sets = "keep" THEN acc ELSE img.at[a].value

(* State::clobber_call *)
ClobberCall(acc) == None

(* A registered ELF PIC thunk: its bytes, and an ADD behind its first       *)
(* caller.                                                                  *)
IsRegisterThunk(img, an, t) ==
    /\ img.format = "elf"
    /\ img.x86
    /\ t \in DOMAIN an.functions
    /\ t \in img.thunkBytes
    /\ t \in DOMAIN an.xrefs
    /\ an.xrefs[t] # <<>>
    /\ LET caller == an.xrefs[t][1]
       IN  img.at[caller] # None /\ NextOf(img, caller) \in img.adds

(* looksgood: no mnemonic is two thirds of a trace longer than four. *)
GoodDistribution(img, traced) ==
    LET total == Cardinality(traced)
        count(m) == Cardinality({a \in traced : img.at[a].mnemonic = m})
    IN  \/ total <= 4
        \/ \A a \in traced :
             (count(img.at[a].mnemonic) * 1000 + (total \div 2)) \div total < 670

IsTable(op) == op.mem # None /\ op.index /\ op.scale = 4

(* The last insn of a block ends at: *)
InSomeBlock(img, an, t) ==
    \E f \in DOMAIN an.functions : \E b \in DOMAIN an.functions[f] :
        LET insns == an.functions[f][b].insns
        IN  b <= t /\ insns # <<>> /\ t < NextOf(img, Last(insns))

(* Targets already recorded for an indirect branch, lowest first; arms of a *)
(* table only where a block covers them.                                    *)
References(an, a) == {t \in DOMAIN an.xrefs : Contains(an.xrefs[t], a)}
Resolved(img, an, a) ==
    SetToSortSeq({t \in References(an, a) : IsTable(img.at[a]) => InSomeBlock(img, an, t)}, <)

(* The words of an unresolved table, up to the first that is not mapped.    *)
TableWords(img, base) ==
    LET scan[i \in 0..MaxPaths + 1] ==
          LET t == ReadPointer(img, base + i * Width)
          IN  IF i > MaxPaths \/ t \notin img.mapped \/ base + i * Width \in img.imports
              THEN <<>> ELSE <<t>> \o scan[i + 1]
    IN  scan[0]

Distinct(seq) == FoldLeft(LAMBDA out, t : IF Contains(out, t) THEN out ELSE Append(out, t),
                          <<>>, seq)

Fork(targets, acc) == [i \in DOMAIN targets |-> <<targets[i], acc>>]

----------------------------------------------------------------------------
(* A walk: `todo` is the stack of queued paths, `at` the address about to   *)
(* be visited or None between paths.                                        *)
Begin(start) ==
    [todo |-> <<<<start, None>>>>, at |-> None, acc |-> None, seen |-> {},
     incomplete |-> FALSE, verdict |-> "open"]

Decide(w, v) == [w EXCEPT !.verdict = v]
Accept(img, w) ==
    Decide(w, IF GoodDistribution(img, w.seen \cap img.mapped) THEN "code" ELSE "notcode")
GoTo(w, a, acc) == [w EXCEPT !.at = a, !.acc = acc]
EndPath(w) == [w EXCEPT !.at = None]

NextPath(w) ==
    IF w.todo = <<>>
    THEN Decide(w, IF w.incomplete THEN "inconclusive" ELSE "notcode")
    ELSE [w EXCEPT !.todo = Front(@), !.at = Last(w.todo)[1], !.acc = Last(w.todo)[2]]

EvalCall(img, an, noreturn, w, a, op) ==
    LET target == Operand(img, a, w.acc)
    IN  IF op.fault = "unsupported" THEN EndPath([w EXCEPT !.incomplete = TRUE])
        ELSE IF target \in Addr /\ IsRegisterThunk(img, an, target)
             THEN GoTo(w, target, w.acc)
        ELSE IF target \in noreturn THEN Accept(img, w)
        ELSE IF op.hook = "lost" THEN EndPath(w)
        ELSE GoTo(w, NextOf(img, a), ClobberCall(w.acc))

EvalBranch(img, an, w, a, op) ==
    LET known == Resolved(img, an, a)
        words == Distinct(TableWords(img, op.mem))
        computed == Operand(img, a, w.acc)
        follow == IF computed = None THEN EndPath(w) ELSE GoTo(w, computed, w.acc)
    IN  IF op.far THEN GoTo(w, NextOf(img, a), w.acc)
        ELSE IF op.flow = "ijmp" /\ (op.mem = None \/ op.index) /\ known # <<>>
             THEN EndPath([w EXCEPT !.todo = @ \o Fork(known, w.acc)])
        ELSE IF op.flow = "ijmp" /\ IsTable(op) /\ References(an, a) = {}
             THEN IF Len(TableWords(img, op.mem)) > MaxPaths THEN Decide(w, "inconclusive")
                  ELSE IF Len(TableWords(img, op.mem)) > 1
                       THEN EndPath([w EXCEPT !.todo = @ \o Fork(words, w.acc)])
                  ELSE follow
        ELSE follow

EvalInstruction(img, an, noreturn, w, a, op) ==
    IF op.bad THEN Decide(w, "notcode")
    ELSE IF op.flow = "ret" \/ a \in noreturn \/ op.exits THEN Accept(img, w)
    ELSE CASE op.flow \in {"call", "icall"} -> EvalCall(img, an, noreturn, w, a, op)
           [] op.flow = "cond" ->
                LET queued == [w EXCEPT !.todo = Append(@, <<NextOf(img, a), w.acc>>)]
                IN  IF op.direct = None THEN EndPath(queued)
                                        ELSE GoTo(queued, op.direct, w.acc)
           [] op.flow \in {"jmp", "ijmp"} -> EvalBranch(img, an, w, a, op)
           [] op.flow = "next" ->
                IF op.fault = "anomaly" THEN Decide(w, "notcode")
                ELSE IF op.fault = "unsupported"
                     THEN EndPath([w EXCEPT !.incomplete = TRUE])
                     ELSE GoTo(w, NextOf(img, a), StepAcc(img, a, w.acc))
           [] OTHER -> EndPath(w)

Visit(img, an, noreturn, data, w) ==
    LET a == w.at
        entered == [w EXCEPT !.seen = @ \cup {a}]
    IN  IF a \in w.seen THEN EndPath(w)
        ELSE IF Cardinality(w.seen) + 1 > MaxSteps \/ Len(w.todo) > MaxPaths
             THEN Decide(w, "inconclusive")
        ELSE IF ~IsMapped(img, a) THEN EndPath(entered)
        ELSE IF InData(data, a) \/ InImport(img, a) \/ img.at[a] = None
             THEN Decide(w, "notcode")
        ELSE EvalInstruction(img, an, noreturn, entered, a, img.at[a])

(* A step visits an address or takes a queued path.  At most MaxSteps + 1   *)
(* addresses are new, and each of them queues at most MaxPaths + 1 paths    *)
(* that are still taken: Fuel steps end every walk.                         *)
Fuel == (MaxSteps + 1) * (MaxPaths + 2)

EvaluateCandidate(img, an, start, noreturn, data) ==
    LET one(w) == IF w.verdict # "open" THEN w
                  ELSE IF w.at = None THEN NextPath(w)
                  ELSE Visit(img, an, noreturn, data, w)
        run[n \in 0..Fuel] == IF n = 0 THEN Begin(start) ELSE one(run[n - 1])
    IN  IF InData(data, start) \/ InImport(img, start) THEN "notcode"
        ELSE run[Fuel].verdict

----------------------------------------------------------------------------
(* pointers.rs *)

(* callbacks::enabled *)
CallingEnabled(img) == img.format \in {"pe", "elf"}

(* Discovery::new: seeds that are only candidates are taken out of the map. *)
Candidates(img, seeds) ==
    {<<"pointer", a>> : a \in {b \in DOMAIN seeds : "reloc" \in seeds[b] /\ img.relocs = <<>>}}
    \cup {<<"emulated", a>> : a \in {b \in DOMAIN seeds : "emulated" \in seeds[b]}}

KeptSeeds(seeds) ==
    LET kept(a) == seeds[a] \ {"reloc", "emulated"}
    IN  [a \in {b \in DOMAIN seeds : kept(b) # {}} |-> kept(a)]

NewDiscovery(img, seeds, enabled) ==
    [cand |-> IF enabled THEN Candidates(img, seeds) ELSE {},
     ready |-> {}, tables |-> <<>>, late |-> <<>>, tried |-> {}, seen |-> {},
     collected |-> 0, fns |-> {}, scanned |-> ~enabled, active |-> enabled,
     data |-> <<>>, barriers |-> <<>>, ptrs |-> <<>>, orphans |-> {},
     full |-> FALSE, reloc |-> 1]

FinishEmucode(p) ==
    [p EXCEPT !.active = FALSE, !.cand = {c \in @ : c[1] # "emulated"}]

AddCandidate(img, an, p, target, kind) ==
    IF /\ kind = "emulated" => p.active /\ target \notin img.dead
       /\ target \in img.readable
       /\ ~Covered(img, an, target)
       /\ <<kind, target>> \notin p.tried
    THEN IF Cardinality(p.cand) >= MaxCandidates
         THEN [p EXCEPT !.full = TRUE]
         ELSE [p EXCEPT !.cand = @ \cup {<<kind, target>>}]
    ELSE p

(* Candidates for emulation from a list of values, None where none is read; *)
(* only the candidates and the refusal change.                              *)
AddCandidates(img, an, p, values) ==
    LET all == FoldLeft(LAMBDA q, t : IF t = None THEN q ELSE AddCandidate(img, an, q, t, "emulated"),
                        p, values)
    IN  [p EXCEPT !.cand = all.cand, !.full = all.full]

Without(f, a) == [x \in DOMAIN f \ {a} |-> f[x]]

(* mark_code: a pointer that starts here is deleted whole. *)
MarkCode(p, start, end) ==
    LET stop == IF start \in DOMAIN p.ptrs THEN Max({end, p.ptrs[start]}) ELSE end
    IN  [p EXCEPT !.ptrs = Without(@, start), !.data = CutLocation(@, start, stop)]

(* The start of the pointer location at an address, or None. *)
PointerLocation(img, an, p, a) ==
    LET below == {s \in DOMAIN p.ptrs : s <= a}
    IN  IF Covered(img, an, a) \/ ~InData(p.data, a) \/ below = {} THEN None
        ELSE IF a < p.ptrs[Max(below)] THEN Max(below) ELSE None

OrphanPointer(img, an, p, a) == PointerLocation(img, an, p, a) \in p.orphans

RemovePointerReference(p, start) == [p EXCEPT !.orphans = @ \cup {start}]

MarkData(p, start, size) ==
    [p EXCEPT !.orphans = @ \ {start}, !.data = InsertLocation(@, start, size),
              !.ptrs = Insert(@, start, start + size)]

MarkNoncode(p, start, size) ==
    [p EXCEPT !.data = InsertLocation(@, start, size),
              !.barriers = InsertLocation(@, start, size)]

(* string_size: img.text[a] is how long a terminated string the bytes at a  *)
(* spell, zero for none; a string does not run over other locations.        *)
StringSize(img, an, p, a) ==
    IF a \in DOMAIN img.text
       /\ \A o \in 1..img.text[a] - 1 :
            ~(Covered(img, an, a + o) \/ InData(p.data, a + o) \/ InImport(img, a + o))
    THEN img.text[a] ELSE 0

(* seh3_scope_table: a level and two pointers, or a diagnostic. *)
Seh3ScopeTable(img, an, p, a) ==
    IF Covered(img, an, a) \/ InData(p.data, a) \/ ~(a..a + 3 * Width - 1 \subseteq img.mapped)
    THEN p
    ELSE AddCandidates(img, an, MarkNoncode(p, a, 3 * Width),
                       <<ReadPointer(img, a + Width), ReadPointer(img, a + 2 * Width)>>)

----------------------------------------------------------------------------
(* observe_instruction, once per instruction: its immediates are candidates *)
(* for emulation, the slot it reads becomes a pointer, a string or a        *)
(* number.  `target` is the value of a pointer just typed.                  *)
Observed(p, target) == [p |-> p, target |-> target]

TypeSlot(img, an, p, op) ==
    LET slot == op.mem
        size == op.size
        text == StringSize(img, an, p, slot)
        value == IF size = Width THEN ReadPointer(img, slot) ELSE None
    IN  IF Covered(img, an, slot) \/ InData(p.data, slot) \/ slot \in img.imports
           \/ size = 0 \/ slot \notin img.mapped
        THEN Observed(p, None)
        ELSE IF op.flow \in {"icall", "ijmp"} THEN Observed(MarkData(p, slot, Width), None)
        ELSE IF text # 0 THEN Observed(MarkNoncode(p, slot, text), None)
        ELSE IF value \in img.mapped
             THEN Observed(AddCandidate(img, an, MarkData(p, slot, size), value, "pointer"), value)
        ELSE Observed(MarkNoncode(p, slot, size), None)

ObserveInstruction(img, an, p, a, duringFlow) ==
    LET op == img.at[a]
        marked == [p EXCEPT !.seen = @ \cup {a}]
        imms(q) == AddCandidates(img, an, q, op.imms)
        lea(q) == IF op.lea /\ op.rip THEN AddCandidate(img, an, q, op.mem, "emulated") ELSE q
        slot(q) == IF op.mem = None \/ op.index THEN Observed(q, None)
                   ELSE IF op.lea /\ ~img.x86 THEN Observed(lea(q), None)
                   ELSE TypeSlot(img, an, lea(q), op)
    IN  IF (duringFlow /\ img.x86 /\ op.lea) \/ a \in p.seen
        THEN Observed(p, None)
        ELSE slot(imms(marked))

(* follow_observed_pointer: a pointer just typed is evaluated at once. *)
Followed_(an, p, target) == [an |-> an, p |-> p, target |-> target]

FollowObservedPointer(img, an, p, target, noreturn) ==
    LET taken == [p EXCEPT !.cand = @ \ {<<"pointer", target>>}]
        added == AddCandidate(img, an, taken, target, "emulated")
        tried == [added EXCEPT !.tried = @ \cup {<<"pointer", target>>}]
        text == StringSize(img, an, tried, target)
        judge(verdict) ==
          CASE verdict = "code" ->
                 Followed_([an EXCEPT !.seeds = AddSeed(@, target, "pointer")], tried, target)
            [] verdict = "inconclusive" ->
                 Followed_(Diagnose(an, target, "inconclusive"), tried, None)
            [] OTHER -> Followed_(an, tried, None)
    IN  IF <<"pointer", target>> \notin p.cand THEN Followed_(an, p, None)
        ELSE IF Cardinality(p.tried) >= MaxCandidates
             THEN Followed_(Diagnose(an, target, "candidates"), taken, None)
        ELSE IF \/ <<"pointer", target>> \in p.tried
                \/ Covered(img, an, target) \/ InData(p.data, target) \/ InImport(img, target)
             THEN Followed_(an, tried, None)
        ELSE IF text # 0 THEN Followed_(an, MarkNoncode(tried, target, text), None)
        ELSE judge(IF "signature" \in KindsAt(an.seeds, target) THEN "code"
                   ELSE EvaluateCandidate(img, an, target, noreturn, tried.data))

(* function_completed (PE): img.padding[f] filler bytes before a function. *)
FunctionCompleted(img, an, p, f) ==
    IF img.format # "pe" \/ f \in p.fns THEN p
    ELSE LET done == [p EXCEPT !.fns = @ \cup {f}]
             n == IF f \in DOMAIN img.padding THEN img.padding[f] ELSE 0
         IN  IF n >= MinPadding /\ ~Covered(img, an, f - n)
             THEN MarkNoncode(done, f - n, n) ELSE done

----------------------------------------------------------------------------
(* The scan of an ELF image for words that are mapped addresses: a source   *)
(* that is one takes the scan a whole word further.                         *)
FreeSource(img, an, p, a) ==
    ~(Covered(img, an, a) \/ a \in img.imports \/ InData(p.data, a))

Sources(img, an, p) ==
    LET found[a \in 0..Top + Width] ==
          IF a > Top THEN {}
          ELSE IF a \in DOMAIN img.word /\ FreeSource(img, an, p, a)
                  /\ img.word[a] \in img.mapped
               THEN {a} \cup found[a + Width]
               ELSE found[a + 1]
    IN  Ascending(found[0])

(* A source belongs to a table when its run of adjacent sources is longer   *)
(* than TableMinLen.                                                        *)
InTable(sources, a) ==
    \E first \in ToSet(sources) :
        /\ first <= a
        /\ \E n \in TableMinLen + 1..Len(sources) :
             /\ \A i \in 0..n - 1 : Contains(sources, first + i * Width)
             /\ \E i \in 0..n - 1 : a = first + i * Width

WithScan(img, an, p) ==
    LET split(found) ==
          LET kept == SubSeq(found, 1, Min({Len(found), MaxCandidates}))
              arrays == {a \in ToSet(kept) : InTable(kept, a)}
          IN  [p EXCEPT !.tables = @ \o Ascending(arrays),
                        !.late = @ \o Ascending(ToSet(kept) \ arrays),
                        !.full = @ \/ Len(found) > MaxCandidates]
    IN  IF ~p.scanned /\ img.format = "elf" THEN split(Sources(img, an, p)) ELSE p

(* collect: the scan once, then every instruction not examined before. *)
Collect(img, an, p) ==
    LET observe(q, a) == ObserveInstruction(img, an, q, a, CallingEnabled(img)).p
        all == FoldLeft(observe, [WithScan(img, an, p) EXCEPT !.scanned = TRUE],
                        Ascending(an.insns))
    IN  [all EXCEPT !.collected = Cardinality(an.insns)]

(* next_emulated: the lowest accepted address that is still undefined. *)
StillFree(img, an, p) == {a \in p.ready : ~Covered(img, an, a) /\ ~InData(p.data, a)}

(* The candidate the loop of next takes, as <<kind, address, source>>: a    *)
(* relocated slot, then pointers, tables, late sources, emulation.          *)
NextSource(img, p) ==
    IF p.reloc <= Len(img.relocs) THEN <<"reloc", img.relocs[p.reloc]>>
    ELSE IF \E c \in p.cand : c[1] = "pointer"
         THEN <<"pointer", Min({c[2] : c \in {d \in p.cand : d[1] = "pointer"}})>>
    ELSE IF p.tables # <<>> THEN <<"table", Head(p.tables)>>
    ELSE IF ~p.active /\ p.late # <<>> THEN <<"late", Head(p.late)>>
    ELSE IF p.cand # {} THEN <<"emulated", Min({c[2] : c \in p.cand})>>
    ELSE None
=============================================================================
