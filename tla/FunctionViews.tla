--------------------------- MODULE FunctionViews ---------------------------
(* What recovery makes of the instructions it walked: the basic blocks of a *)
(* function, and whether the function can return.                           *)
(*                                                                          *)
(* A view maps block starts to records: the addresses of the instructions,  *)
(* in order, and the edges out of the block.  The graph of a sweep has the  *)
(* successor edges of every walked instruction in `succ`.                   *)
EXTENDS CodeImage

CONSTANT MaxInsns     \* MAX_INSNS_PER_FUNCTION

ASSUME ViewsAssumption == MaxInsns \in Nat

Edge(target, kind) == [target |-> target, kind |-> kind]
EdgesAt(graph, a) == IF a \in DOMAIN graph.succ THEN graph.succ[a] ELSE <<>>
EdgeTargets(edges) == {edges[i].target : i \in DOMAIN edges}

(* RecoveryError::Limit *)
LimitError == [oversized |-> TRUE, blocks |-> <<>>]
View(blocks) == [oversized |-> FALSE, blocks |-> blocks]

IsBlockTerminator(flow) == flow \notin {"next", "call", "icall"}

----------------------------------------------------------------------------
(* The native view: instructions reached from the start over recorded       *)
(* edges.  Falling into another unwind entry does not merge two functions.  *)
Followed(an, edges, start) ==
    {edges[i].target : i \in {j \in DOMAIN edges :
        ~ /\ edges[j].kind = "fallthrough"
          /\ edges[j].target # start
          /\ "unwind" \in KindsAt(an.seeds, edges[j].target)}}

Reachable(an, graph, start, isolate) ==
    LET next == [a \in an.insns |->
                    IF isolate THEN {}
                    ELSE Followed(an, EdgesAt(graph, a), start) \cap an.insns]
    IN  IF start \in an.insns THEN Reach(next, start) ELSE {}

\* Mutant: only references start a block, not the code behind a branch.
BlockStarts_NoEdges(img, an, graph, start, reachable) ==
    {start} \cup (reachable \cap DOMAIN an.xrefs)

BlockStarts(img, an, graph, start, reachable) ==
    {start} \cup (reachable \cap DOMAIN an.xrefs)
            \cup UNION {EdgeTargets(EdgesAt(graph, a)) \cap reachable :
                          a \in {b \in reachable : IsBlockTerminator(img.at[b].flow)}}

(* The edges into a set of addresses, in order. *)
EdgesInto(edges, set) ==
    LET in == {i \in DOMAIN edges : edges[i].target \in set}
    IN  [n \in 1..Cardinality(in) |-> edges[CHOOSE i \in in : Place(in, i) = n]]

(* One block, by walking from its start to the next block or terminator. *)
NativeBlock(img, an, graph, starts, reachable, first) ==
    LET walk[a \in 0..Top + Width] ==
          LET next == NextOf(img, a)
              kept == EdgesInto(EdgesAt(graph, a), reachable)
          IN  IF a \notin an.insns THEN [insns |-> <<>>, succs |-> <<>>]
              ELSE IF IsBlockTerminator(img.at[a].flow)
                   THEN [insns |-> <<a>>, succs |-> kept]
              ELSE IF next # first /\ next \in starts
                   THEN [insns |-> <<a>>, succs |-> <<Edge(next, "fallthrough")>>]
              ELSE IF next \notin reachable
                   THEN [insns |-> <<a>>, succs |-> <<>>]
              ELSE LET behind(b) == [insns |-> <<a>> \o b.insns, succs |-> b.succs]
                   IN  behind(walk[next])
    IN  walk[first]

NativeView(img, an, graph, start, isolate) ==
    LET blocks(reachable, starts) ==
            [b \in starts \cap reachable |->
                NativeBlock(img, an, graph, starts, reachable, b)]
        view(reachable) ==
            IF Cardinality(reachable) > MaxInsns THEN LimitError
            ELSE View(blocks(reachable,
                             BlockStarts(img, an, graph, start, reachable)))
    IN  view(Reachable(an, graph, start, isolate))

----------------------------------------------------------------------------
(* The compatibility view advances by the size of the location at each      *)
(* address, even inside another instruction, then decodes the interval.     *)
FallsThrough(img, an, loc) ==
    img.at[loc].flow \notin EndsPath /\ loc \notin an.noretCalls

Branches(graph, a) == SelectSeq(EdgesAt(graph, a), LAMBDA e : e.kind # "fallthrough")

(* Where the interval of a block ends, with its edges, the starts it puts   *)
(* on the stack and how many locations it counted.                          *)
Interval(img, an, graph, start, first) ==
    LET kept == IF start \in DOMAIN graph.completed
                     /\ first \in DOMAIN graph.completed[start]
                THEN NextOf(img, Last(graph.completed[start][first].insns))
                ELSE first
        walk[a \in 0..Top + 2 * Width] ==
          LET loc == InstructionLocation(img, an, a)
              step(l) ==
                LET next == a + img.at[l].len
                    out == Branches(graph, a)
                    fall == FallsThrough(img, an, l)
                IN  IF ~fall
                    THEN [end |-> next, succs |-> out, push |-> EdgeTargets(out), n |-> 1]
                    ELSE IF out # <<>> \/ next \in DOMAIN an.xrefs
                    THEN [end |-> next, succs |-> Append(out, Edge(next, "fallthrough")),
                          push |-> EdgeTargets(out) \cup {next}, n |-> 1]
                    ELSE LET more(r) == [r EXCEPT !.n = @ + 1] IN more(walk[next])
          IN  IF loc = None
              THEN [end |-> a, succs |-> <<>>, push |-> {}, n |-> 0]
              ELSE IF a \notin an.insns /\ img.at[a] = None
                   THEN [end |-> kept, succs |-> <<>>, push |-> {}, n |-> 1]
                   ELSE step(loc)
    IN  walk[first]

(* The instructions decoded in [first, end). *)
Stream(img, first, end) ==
    LET decode[a \in Nat] ==
          IF a >= end \/ a > Top \/ img.at[a] = None THEN <<>>
          ELSE <<a>> \o decode[NextOf(img, a)]
    IN  decode[first]

CompatibilityView(img, an, graph, start) ==
    LET build(intervals) ==
          LET starts == Reach([b \in Addr |-> intervals[b].push \cap Addr], start)
              block(b) == [insns |-> Stream(img, b, intervals[b].end),
                           succs |-> intervals[b].succs]
              found(blocks) == [b \in {c \in starts : blocks[c].insns # <<>>} |-> blocks[b]]
          IN  IF FoldSet(LAMBDA b, n : n + intervals[b].n, 0, starts) > MaxInsns
              THEN LimitError
              ELSE View(found([b \in starts |-> block(b)]))
    IN  build([b \in Addr |-> Interval(img, an, graph, start, b)])

BuildFunctionView(img, an, graph, start, isolate) ==
    IF graph.compat THEN CompatibilityView(img, an, graph, start)
                    ELSE NativeView(img, an, graph, start, isolate)

----------------------------------------------------------------------------
(* noreturn.rs *)

LastInsn(block) == block.insns[Len(block.insns)]

InPlt(img, a) == \E i \in DOMAIN img.plt : img.plt[i][1] <= a /\ a < img.plt[i][2]

(* import_thunk_location: the slot that the entry (or, in the PLT, the last *)
(* jump of a one-block stub) goes through; on AArch64 the slot that the     *)
(* first two instructions compute, img.got.                                 *)
ImportThunkLocation(img, an, f, blocks) ==
    LET only == blocks[CHOOSE b \in DOMAIN blocks : TRUE]
        stub == img.format = "elf" /\ InPlt(img, f) /\ Cardinality(DOMAIN blocks) = 1
        at == IF stub /\ img.at[LastInsn(only)].flow = "ijmp" THEN LastInsn(only) ELSE f
        slot == IF img.at[at].flow \in {"icall", "ijmp"} THEN img.at[at].mem
                ELSE IF NextOf(img, at) \in an.insns THEN img.got[at]
                ELSE None
    IN  IF f \in an.insns /\ slot \in img.imports THEN slot ELSE None

(* A leaf is evidence of returning unless it ends in a cut call or in code  *)
(* that just stops.                                                         *)
LeafReturns(img, an, f, block) ==
    LET end == LastInsn(block)
        next == NextOf(img, end)
    IN  /\ end \notin an.noretCalls
        /\ \/ /\ img.at[end].flow \in {"next", "call", "icall"}
              /\ next # f
              /\ "unwind" \in KindsAt(an.seeds, next)
           \/ img.at[end].flow \in {"ret", "jmp", "cond", "ijmp"}

FunctionNeverReturns(img, an, f, blocks) ==
    /\ \A b \in an.insns : b < f => NextOf(img, b) <= f
    /\ ImportThunkLocation(img, an, f, blocks) = None
    /\ \A b \in DOMAIN blocks :
          \/ \E i \in DOMAIN blocks[b].succs : blocks[b].succs[i].target \in DOMAIN blocks
          \/ blocks[b].insns = <<>>
          \/ ~LeafReturns(img, an, f, blocks[b])

(* The set a native sweep derives from its functions. *)
Propagate(img, an) ==
    img.noretApis \cup
    {f \in DOMAIN an.functions :
        \/ ImportThunkLocation(img, an, f, an.functions[f]) \in img.noretApis
        \/ FunctionNeverReturns(img, an, f, an.functions[f])}

(* The decision for one function as a compatibility walk completes it. *)
CompletedNeverReturns(img, an, f, blocks, known) ==
    \/ ImportThunkLocation(img, an, f, blocks) \in known
    \/ /\ img.format \in {"pe", "elf"}
       /\ DOMAIN blocks # {}
       /\ FunctionNeverReturns(img, an, f, blocks)
=============================================================================
