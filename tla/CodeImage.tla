----------------------------- MODULE CodeImage -----------------------------
(* A loaded image as code recovery sees it, and the analysis it fills in.   *)
(*                                                                          *)
(* An image is a record.  What lies at an address is decoded once, in       *)
(* `at`: an instruction record or None where the bytes do not decode.  Any  *)
(* address can be decoded, so two instruction streams may overlap.          *)
EXTENDS Integers, FiniteSets, Sequences, SequencesExt, FiniteSetsExt, TLC

CONSTANTS
    Top,      \* the highest mapped address
    Width,    \* Architecture::pointer_width
    None      \* Option::None

Addr == 0..Top

ASSUME ImageAssumption ==
    /\ Top \in Nat
    /\ Width \in Nat \ {0}
    /\ None \notin Int
    /\ \A set \in SUBSET Addr : set # None

(* Flow of a decoded instruction. *)
Flows == {"next", "call", "icall", "cond", "jmp", "ijmp", "ret", "term"}

(* Flow::{UnconditionalBranch, IndirectBranch, Return, Terminal}: nothing   *)
(* falls through.                                                           *)
EndsPath == {"jmp", "ijmp", "ret", "term"}

(* Where the instruction after the one at a begins. *)
NextOf(img, a) == a + img.at[a].len

IsExecutable(img, a) == a \in img.exec
IsMapped(img, a) == a \in img.mapped

(* read_pointer: the word stored at a slot, None when it is not mapped. *)
ReadPointer(img, slot) == IF slot \in DOMAIN img.word THEN img.word[slot] ELSE None

(* The import slot that covers an address: imports are Width bytes wide and *)
(* only the nearest one at or below the address is consulted.               *)
InImport(img, a) ==
    LET below == {s \in img.imports : s <= a}
    IN  below # {} /\ a - Max(below) < Width

(* BTreeMap::insert *)
Insert(map, key, value) ==
    [k \in DOMAIN map \cup {key} |-> IF k = key THEN value ELSE map[k]]

(* A map from addresses to sources, the first one first. *)
PushXref(index, target, source) ==
    IF target \notin DOMAIN index
    THEN Insert(index, target, <<source>>)
    ELSE IF Contains(index[target], source)
         THEN index
         ELSE [index EXCEPT ![target] = Append(@, source)]

(* remove_code_reference: the entry goes when its last source does. *)
RemoveCodeReference(index, source, target) ==
    IF target \notin DOMAIN index THEN index
    ELSE LET left == SelectSeq(index[target], LAMBDA s : s # source)
         IN  IF left = <<>>
             THEN [t \in DOMAIN index \ {target} |-> index[t]]
             ELSE [index EXCEPT ![target] = left]

(* `BTreeMap::entry(a).or_default()` on a map of sets. *)
KindsAt(seeds, a) == IF a \in DOMAIN seeds THEN seeds[a] ELSE {}
AddSeed(seeds, a, kind) == Insert(seeds, a, KindsAt(seeds, a) \cup {kind})
AddSeeds(seeds, set, kind) ==
    [a \in DOMAIN seeds \cup set |-> KindsAt(seeds, a) \cup (IF a \in set THEN {kind} ELSE {})]

(* The addresses of a set in ascending order, as a BTreeSet is iterated:    *)
(* an address comes behind those below it.                                  *)
Place(set, a) == Cardinality({b \in set : b <= a})
Ascending(set) ==
    LET in == set \cap Addr
    IN  [i \in 1..Cardinality(in) |-> CHOOSE a \in in : Place(in, a) = i]

(* Whether the instruction that starts nearest at or below an address       *)
(* covers it.                                                               *)
Covered(img, an, a) ==
    LET below == {b \in an.insns : b <= a}
    IN  below # {} /\ a < NextOf(img, Max(below))

(* instruction_location: of the instructions that cover an address, the one *)
(* defined last.  The first definition of a start decides its place.        *)
InstructionLocation(img, an, a) ==
    LET cover == {b \in an.insns : b <= a /\ a < NextOf(img, b)}
        place(b) == CHOOSE i \in DOMAIN an.order : an.order[i] = b
    IN  IF cover = {} THEN None
        ELSE CHOOSE b \in cover : \A c \in cover : place(c) <= place(b)

(* Where the code of an image is loose: addresses visited from a set by     *)
(* following next[a], a set of addresses for each address.                  *)
Reach(next, start) ==
    LET grown[n \in 0..Top + 1] ==
            IF n = 0 THEN {start}
            ELSE LET add(r) == r \cup UNION {next[a] : a \in r \cap DOMAIN next}
                 IN  add(grown[n - 1])
    IN  grown[Top + 1]

Diagnose(an, a, what) == [an EXCEPT !.diags = @ \cup {<<a, what>>}]
----------------------------------------------------------------------------
(* The typed locations of the workspace as pointers.rs keeps them: a sorted *)
(* list of disjoint intervals <<start, end>>, end excluded.                 *)
IsIntervalList(locs) ==
    \A i \in DOMAIN locs : /\ locs[i][1] < locs[i][2]
                           /\ \A j \in 1..i - 1 : locs[j][2] < locs[i][1]

(* slice::partition_point for a prefix predicate of sorted intervals: how   *)
(* many intervals end before (or at) a bound, and how many start before it. *)
EndingBefore(locs, a) == Cardinality({i \in DOMAIN locs : locs[i][2] < a})
EndingBy(locs, a) == Cardinality({i \in DOMAIN locs : locs[i][2] <= a})
StartingBefore(locs, a) == Cardinality({i \in DOMAIN locs : locs[i][1] < a})
StartingBy(locs, a) == Cardinality({i \in DOMAIN locs : locs[i][1] <= a})

(* Vec::splice(first..last, new), with first and last counted from zero. *)
Splice(locs, first, last, new) ==
    SubSeq(locs, 1, first) \o new \o SubSeq(locs, last + 1, Len(locs))

InData(locs, a) ==
    LET i == StartingBy(locs, a) IN i > 0 /\ a < locs[i][2]

\* Mutant: the interval that ends where the new one starts is not merged.
InsertLocation_Apart(locs, start, size) ==
    LET end == start + size
        first == EndingBy(locs, start)
        last == StartingBy(locs, end)
        hit == {i \in DOMAIN locs : first < i /\ i <= last}
        low == IF hit # {} THEN Min({start, locs[first + 1][1]}) ELSE start
        high == IF hit # {} THEN Max({end, locs[last][2]}) ELSE end
    IN  Splice(locs, first, last, <<<<low, high>>>>)

(* insert_location: intervals that touch the new one are merged into it. *)
InsertLocation(locs, start, size) ==
    LET end == start + size
        first == EndingBefore(locs, start)
        last == StartingBy(locs, end)
        hit == {i \in DOMAIN locs : first < i /\ i <= last}
        low == IF hit # {} THEN Min({start, locs[first + 1][1]}) ELSE start
        high == IF hit # {} THEN Max({end, locs[last][2]}) ELSE end
    IN  Splice(locs, first, last, <<<<low, high>>>>)

(* The part of mark_code that cuts [start, end) out of the intervals. *)
CutLocation(locs, start, end) ==
    LET first == EndingBy(locs, start)
        last == StartingBefore(locs, end)
        left == IF locs[first + 1][1] < start
                THEN <<<<locs[first + 1][1], start>>>> ELSE <<>>
        right == IF end < locs[last][2] THEN <<<<end, locs[last][2]>>>> ELSE <<>>
    IN  IF first >= last THEN locs
        ELSE Splice(locs, first, last, left \o right)
=============================================================================
