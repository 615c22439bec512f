----------------------------- MODULE Callbacks -----------------------------
(* callbacks::discover: the calling-analysis walk of a completed function.  *)
(* It finds callees and callbacks that static flow did not see, pointers    *)
(* that the function reads, and register jumps that may be switches.  It    *)
(* restores code references and may type a scope table, so the result       *)
(* carries the references, the pointer discovery and diagnostics.           *)
EXTENDS Pointers

CONSTANT MaxThunks     \* MAX_THUNKS

ASSUME CallbacksAssumption == MaxThunks \in Nat

(* import_at: an import, possibly behind direct jump thunks. *)
ImportAt(img, target) ==
    LET hop(a) == IF img.at[a].flow = "jmp" THEN img.at[a].direct
                  ELSE IF img.at[a].flow = "ijmp" /\ ~img.at[a].index THEN img.at[a].mem
                  ELSE None
        at[n \in 0..MaxThunks] ==
          IF n = 0 THEN target
          ELSE LET go(a) == IF a \in img.imports THEN a
                            ELSE IF a \notin Addr THEN None
                            ELSE IF img.at[a] = None THEN None
                            ELSE hop(a)
               IN  go(at[n - 1])
    IN  IF at[MaxThunks] \in img.imports THEN at[MaxThunks] ELSE None

CallImport(img, a, acc) ==
    ImportAt(img, IF img.at[a].mem # None /\ ~img.at[a].index
                  THEN img.at[a].mem ELSE Operand(img, a, acc))

Discovery(start, an, p) ==
    [todo |-> <<<<start, None>>>>, at |-> None, acc |-> None, seen |-> {},
     targets |-> <<>>, operands |-> <<>>, switches |-> <<>>,
     xrefs |-> an.xrefs, p |-> p, diags |-> {}, over |-> FALSE]

Stop(w) == [w EXCEPT !.at = None]
Budget(w, a) == [w EXCEPT !.over = TRUE, !.diags = @ \cup {<<a, "callback budget">>}]
HasTarget(targets, t) == \E i \in DOMAIN targets : targets[i][1] = t

(* A pointer the instruction reads, for FollowPointers. *)
ObserveOperand(img, w, a, op) ==
    IF /\ op.mem # None /\ ~op.index
       /\ op.flow \notin {"icall", "ijmp"}
       /\ op.size = Width \/ (op.lea /\ img.x86)
       /\ ReadPointer(img, op.mem) # None
    THEN [w EXCEPT !.operands = Append(@, <<a, ReadPointer(img, op.mem)>>)]
    ELSE w

RestoreReference(w, a, op) ==
    IF op.direct = None THEN w ELSE [w EXCEPT !.xrefs = PushXref(@, op.direct, a)]

(* The scope table that a call of the SEH prologue is given. *)
TypeScopeTable(img, an, w, a, op) ==
    IF img.x86 /\ op.direct \in img.seh3 /\ op.args # <<>> /\ op.args[1] \in img.mapped
    THEN [w EXCEPT !.p = Seh3ScopeTable(img, an, @, op.args[1]),
                   !.diags = @ \cup
                     IF \/ Covered(img, an, op.args[1]) \/ InData(w.p.data, op.args[1])
                        \/ op.args[1]..op.args[1] + 3 * Width - 1 \subseteq img.mapped
                     THEN {} ELSE {<<op.args[1], "scope table">>}]
    ELSE w

AddCallee(img, an, w, start, a) ==
    LET t == Operand(img, a, w.acc)
    IN  IF /\ CallImport(img, a, w.acc) = None
           /\ t \notin {None, start, NextOf(img, a)}
           /\ IsExecutable(img, t)
           /\ ~Contains(an.forder, t)
           /\ ~HasTarget(w.targets, t)
        THEN [w EXCEPT !.targets = Append(@, <<t, "call">>)]
        ELSE w

(* Function-pointer arguments of a callback API.  A target found before is  *)
(* retyped.                                                                 *)
AddCallbacks(img, an, w, a, op) ==
    LET add(ts, t) ==
          IF ~IsExecutable(img, t) \/ Covered(img, an, t) THEN ts
          ELSE IF HasTarget(ts, t)
               THEN [i \in DOMAIN ts |-> IF ts[i][1] = t THEN <<t, "callback">> ELSE ts[i]]
               ELSE Append(ts, <<t, "callback">>)
    IN  IF CallImport(img, a, w.acc) \in img.callbackApis
        THEN [w EXCEPT !.targets = FoldLeft(add, @, op.args)] ELSE w

DiscoverCall(img, an, noreturn, w, start, a, op) ==
    LET noted == AddCallbacks(img, an,
                    AddCallee(img, an,
                       TypeScopeTable(img, an, RestoreReference(w, a, op), a, op),
                       start, a),
                    a, op)
        thunk == Operand(img, a, w.acc) \in Addr
                 /\ IsRegisterThunk(img, [an EXCEPT !.xrefs = w.xrefs], Operand(img, a, w.acc))
        cut == a # start /\ (a \in noreturn \/ a \in an.noretCalls)
    IN  IF thunk THEN Stop(w)
        ELSE IF cut \/ op.hook = "lost" THEN Stop(noted)
        ELSE [noted EXCEPT !.at = NextOf(img, a), !.acc = ClobberCall(@)]

(* A jump: known references first, then an unresolved table, then a         *)
(* computed target.  A register jump without references may be a switch.    *)
DiscoverBranch(img, an, w, a, op) ==
    LET now == [an EXCEPT !.xrefs = w.xrefs]
        known == Resolved(img, now, a)
        words == TableWords(img, op.mem)
        target == Operand(img, a, w.acc)
        noted == IF op.flow = "ijmp" /\ ~img.x86 /\ op.mem = None
                 THEN [w EXCEPT !.switches = Append(@, a)] ELSE w
        computed == IF target = None THEN Stop(noted) ELSE [noted EXCEPT !.at = target]
    IN  IF op.far THEN [w EXCEPT !.at = NextOf(img, a)]
        ELSE IF op.flow = "ijmp" /\ known # <<>>
             THEN Stop([w EXCEPT !.todo = @ \o Fork(known, w.acc)])
        ELSE IF op.flow = "ijmp" /\ IsTable(op) /\ References(now, a) = {} /\ Len(words) > 1
             THEN IF Len(words) > MaxPaths THEN Budget(w, a)
                  ELSE Stop([w EXCEPT !.todo = @ \o Fork(Distinct(words), w.acc)])
        ELSE computed

DiscoverInstruction(img, an, noreturn, w, start, a, op) ==
    CASE op.flow \in {"call", "icall"} -> DiscoverCall(img, an, noreturn, w, start, a, op)
      [] op.flow = "cond" ->
           [w EXCEPT !.todo = Append(@, <<NextOf(img, a), w.acc>>), !.at = op.direct]
      [] op.flow \in {"jmp", "ijmp"} -> DiscoverBranch(img, an, w, a, op)
      [] op.flow = "next" ->
           IF op.fault # "no" THEN Stop([w EXCEPT !.diags = @ \cup {<<a, "callback trace">>}])
           ELSE IF a # start /\ a \in noreturn THEN Stop(w)
           ELSE [w EXCEPT !.at = NextOf(img, a), !.acc = StepAcc(img, a, @)]
      [] OTHER -> Stop(w)

DiscoverStep(img, an, noreturn, w, start) ==
    LET a == w.at
        entered == [w EXCEPT !.seen = @ \cup {a}]
    IN  IF w.over \/ (a = None /\ w.todo = <<>>) THEN w
        ELSE IF a = None
             THEN [w EXCEPT !.todo = Front(@), !.at = Last(w.todo)[1], !.acc = Last(w.todo)[2]]
        ELSE IF a \in w.seen THEN Stop(w)
        ELSE IF Cardinality(w.seen) + 1 > MaxSteps \/ Len(w.todo) > MaxPaths THEN Budget(w, a)
        ELSE IF a \notin img.mapped \/ a \in img.uninit THEN Stop(entered)
        ELSE IF img.at[a] = None
             THEN Stop([entered EXCEPT !.diags = @ \cup {<<a, "calling trace">>}])
        ELSE IF img.at[a].bad THEN Stop(entered)
        ELSE DiscoverInstruction(img, an, noreturn,
                                 ObserveOperand(img, entered, a, img.at[a]), start, a, img.at[a])

Discover(img, an, p, start, noreturn) ==
    LET run[n \in 0..Fuel] ==
          IF n = 0 THEN Discovery(start, an, p)
          ELSE LET one(w) == DiscoverStep(img, an, noreturn, w, start) IN one(run[n - 1])
    IN  run[Fuel]
=============================================================================
