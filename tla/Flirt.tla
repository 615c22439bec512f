-------------------------------- MODULE Flirt -------------------------------
(* flirt: library functions recognised by their bytes and by the names of   *)
(* what they call, and the extraction that leaves them out.                 *)
(*                                                                          *)
(* A signature is a pattern (None is a wildcard), a predicate on the bytes  *)
(* behind it (the checksum, tail and footer checks of lancelot, external)   *)
(* and named offsets.  An analysis is the record that recovery leaves: the  *)
(* maps of the code, its cross references, and the order in which functions *)
(* and instructions were made.  Never stands for usize::MAX.                *)
EXTENDS Integers, Sequences, SequencesExt, FiniteSets, FiniteSetsExt, TLC

CONSTANTS
    PrefixLength,   \* SignatureMatcher::PREFIX_LEN
    Never,          \* usize::MAX
    None            \* Option::None

Lookup(f, x, default) == IF x \in DOMAIN f THEN f[x] ELSE default

----------------------------------------------------------------------------
(* SignatureMatcher *)

(* signature_prefix: how many head bytes, which of them are fixed, and      *)
(* their values.                                                            *)
SignaturePrefix(s) ==
    LET length == Min({Len(s.pattern), PrefixLength})
        fixed == {i \in 1..length : s.pattern[i] # None}
    IN  [shape |-> <<length, fixed>>, value |-> [i \in fixed |-> s.pattern[i]]]

MaskedPrefixValue(bytes, shape) == [i \in shape[2] |-> bytes[i]]

(* with_signatures *)
PrefixShapes(signatures) == {SignaturePrefix(s).shape : s \in Range(signatures)}
Indexed(signatures, shape, value) ==
    {i \in DOMAIN signatures : SignaturePrefix(signatures[i]) = [shape |-> shape, value |-> value]}
Candidates(signatures, bytes) ==
    UNION {Indexed(signatures, shape, MaskedPrefixValue(bytes, shape)) :
              shape \in {h \in PrefixShapes(signatures) : h[1] <= Len(bytes)}}

SignatureHeadMatches(s, bytes) ==
    /\ Len(bytes) >= Len(s.pattern)
    /\ \A i \in DOMAIN s.pattern : s.pattern[i] \in {None, bytes[i]}

(* match_crc16, match_tail_bytes and match_footer, external. *)
RestMatches(s, bytes) ==
    \A t \in s.rest : IF t[1] \in DOMAIN bytes THEN bytes[t[1]] = t[2] ELSE FALSE

(* The code orders two matches or more as lancelot's tree does, external;   *)
(* here they keep the order of their file.                                  *)
Match(signatures, bytes) ==
    SelectSeq([i \in DOMAIN SetToSortSeq(Candidates(signatures, bytes), <) |->
                  signatures[SetToSortSeq(Candidates(signatures, bytes), <)[i]]],
              LAMBDA s : SignatureHeadMatches(s, bytes) /\ RestMatches(s, bytes))

NamesLocal(s) == \E y \in Range(s.names) : y.kind = "local" /\ y.offset # 0
HasLocalCandidate(signatures, bytes) ==
    \E i \in Candidates(signatures, bytes) : NamesLocal(signatures[i])

(* The name at offset zero, of whatever kind. *)
RootName(s) ==
    LET k == SelectInSeq(s.names, LAMBDA y : y.offset = 0) IN IF k = 0 THEN None ELSE s.names[k].name

----------------------------------------------------------------------------
(* from_path and from_paths: the files of a directory, by name and then by  *)
(* path; explicit lists keep their order.  One file that cannot be read or  *)
(* parsed fails them all.                                                   *)

Before(a, b) == a.name < b.name \/ (a.name = b.name /\ a.path < b.path)
OrderedPaths(source) ==
    IF source.kind = "directory"
    THEN SetToSortSeq({f \in Range(source.files) : f.supported}, Before) ELSE source.files
FromPath(source) ==
    LET files == OrderedPaths(source)
    IN  IF \/ source.kind = "missing"
           \/ \E f \in Range(files) : ~f.supported \/ f.signatures = None
        THEN None
        ELSE [i \in DOMAIN files |-> files[i].signatures]

----------------------------------------------------------------------------
(* MatcherState: c is the analysis, the database and the moment that the    *)
(* match stands for; st the names recognised, the recursive cache, the      *)
(* starts of local symbols, and whether a signature without a root failed.  *)

BytesFrom(an, a) == IF a \in DOMAIN an.bytes THEN [i \in 1..Len(an.bytes) - a + 1 |-> an.bytes[a + i - 1]] ELSE None

FunctionExists(c, a) ==
    a \in DOMAIN c.an.functions /\ Lookup(c.an.functionOrder, a, 0) <= c.order

ContainingInstruction(an, a) ==
    LET starts == {i \in DOMAIN an.instructions : i <= a}
    IN  IF starts = {} THEN None
        ELSE IF a < Max(starts) + an.instructions[Max(starts)] THEN Max(starts) ELSE None

(* An instruction made after the moment that the match stands for. *)
IsLater(c, i) == Lookup(c.an.instructionOrder, i, 0) >= c.locations /\ i \in DOMAIN c.an.instructionOrder

ApplyName(c, st, base, y) ==
    LET a == base + y.offset
        i == ContainingInstruction(c.an, a)
        starts == y.kind = "local" /\ ~FunctionExists(c, a) /\ i = None /\ a \in c.an.executable
        made == /\ a \in DOMAIN c.an.functions \intersect DOMAIN c.an.functionOrder
                /\ base \in DOMAIN c.an.analysisCount
                /\ c.an.functionOrder[a] < c.an.analysisCount[base]
        later == y.kind = "local" /\ a \in DOMAIN c.an.functions /\ i # None /\ IsLater(c, i)
        begun == IF starts THEN [st EXCEPT !.locals = @ \union {a}] ELSE st
    IN  IF ~(FunctionExists(c, a) \/ made \/ later) THEN begun
        ELSE [begun EXCEPT !.recognized = (a :> y.name) @@ @, !.cache = (a :> y.name) @@ @]

(* Locals first. *)
ApplyNames(c, st, base, s) ==
    FoldLeft(LAMBDA t, y : ApplyName(c, t, base, y), st,
             SelectSeq(s.names, LAMBDA y : y.kind = "local") \o SelectSeq(s.names, LAMBDA y : y.kind = "public"))

RECURSIVE MatchFunction(_, _, _)

CodeTargets(an, i) == SetToSortSeq({x[2] : x \in {r \in an.codeRefs : r[1] = i}}, <)

(* acc: the state and whether the references so far are there. *)
ReferenceStep(c, base, acc, y) ==
    LET i == ContainingInstruction(c.an, base + y.offset)
        try(t, target) == IF t.ok \/ t.st.failed THEN t
                          ELSE LET m == MatchFunction(c, t.st, target) IN [st |-> m.st, ok |-> m.name = y.name]
    IN  IF y.kind # "reference" \/ ~acc.ok \/ acc.st.failed THEN acc
        ELSE IF y.offset < 0 \/ i = None THEN [acc EXCEPT !.ok = FALSE]
        ELSE IF IsLater(c, i) THEN [acc EXCEPT !.ok = FALSE]
        ELSE IF y.name = "." THEN [acc EXCEPT !.ok = i \in c.an.dataRefs]
        ELSE FoldLeft(try, [acc EXCEPT !.ok = FALSE], CodeTargets(c.an, i))

ReferencesMatch(c, st, base, s) ==
    FoldLeft(LAMBDA acc, y : ReferenceStep(c, base, acc, y), [st |-> st, ok |-> TRUE], s.names)

\* Mutant: the first of several names is taken.
UniqueName_First(valid) == IF valid = <<>> THEN None ELSE RootName(valid[1])

UniqueName(valid) ==
    IF Cardinality({RootName(s) : s \in Range(valid)}) = 1 THEN RootName(valid[1]) ELSE None

(* The names of the valid candidates must agree; the first one's are applied. *)
Conclude(c, acc, a) ==
    LET name == UniqueName(acc.valid)
        applied == IF name = None THEN acc.st ELSE ApplyNames(c, acc.st, a, acc.valid[1])
        result == Lookup(applied.recognized, a, name)
    IN  IF acc.st.failed \/ (\E s \in Range(acc.valid) : RootName(s) = None)
        THEN [st |-> [acc.st EXCEPT !.failed = TRUE], name |-> None]
        ELSE [st |-> [applied EXCEPT !.cache = (a :> result) @@ @], name |-> result]

(* A function that is being matched reads as None in the cache. *)
MatchFunction(c, st, a) ==
    LET visiting == [st EXCEPT !.cache = (a :> None) @@ @]
        bytes == BytesFrom(c.an, a)
        check(acc, s) == LET r == ReferencesMatch(c, acc.st, a, s)
                         IN  [st |-> r.st, valid |-> IF r.ok THEN Append(acc.valid, s) ELSE acc.valid]
    IN  IF a \in DOMAIN st.recognized THEN [st |-> st, name |-> st.recognized[a]]
        ELSE IF ~FunctionExists(c, a) THEN [st |-> st, name |-> None]
        ELSE IF a \in DOMAIN st.cache THEN [st |-> st, name |-> st.cache[a]]
        ELSE IF bytes = None THEN [st |-> visiting, name |-> None]
        ELSE Conclude(c, FoldLeft(check, [st |-> visiting, valid |-> <<>>], Match(c.database, bytes)), a)

(* Each database in turn, with a fresh cache, until the address is named. *)
MatchDatabases(an, databases, order, locations, st, a) ==
    FoldLeft(LAMBDA t, d : IF t.failed \/ a \in DOMAIN t.recognized THEN t
                           ELSE MatchFunction([an |-> an, database |-> d, order |-> order, locations |-> locations],
                                              [t EXCEPT !.cache = <<>>], a).st,
             st, databases)

NoNames == [recognized |-> <<>>, cache |-> <<>>, locals |-> {}, failed |-> FALSE]

(* Discovery::function_completed, on the analysis so far. *)
FunctionCompleted(an, databases, recognized, a) ==
    LET bytes == BytesFrom(an, a)
        prefix == SubSeq(bytes, 1, Min({PrefixLength, Len(bytes)}))
        start == [NoNames EXCEPT !.recognized = recognized]
    IN  IF bytes = None THEN start
        ELSE IF \A i \in DOMAIN databases : ~HasLocalCandidate(databases[i], prefix) THEN start
        ELSE MatchDatabases(an, databases, Never, Never, start, a)

(* identify_with_local_starts: in the order in which the functions were     *)
(* analysed, the last made of two first.                                    *)
AnalysedBefore(an, a, b) ==
    LET order(x) == Lookup(an.functionOrder, x, Never)
        count(x) == Lookup(an.analysisCount, x, order(x))
    IN  \/ count(a) < count(b)
        \/ count(a) = count(b) /\ order(a) > order(b)
        \/ count(a) = count(b) /\ order(a) = order(b) /\ a < b
Identify(an, databases) ==
    LET moment(a) == IF a \in DOMAIN an.flirtCount THEN Max({an.flirtCount[a] - 1, 0})
                     ELSE Lookup(an.functionOrder, a, Never)
        step(st, a) == IF st.failed THEN st
                       ELSE MatchDatabases(an, databases, moment(a), Lookup(an.locationCount, a, Never), st, a)
    IN  IF an.format # "pe" \/ databases = <<>> THEN NoNames
        ELSE FoldLeft(step, NoNames, SetToSortSeq(DOMAIN an.functions, LAMBDA a, b : AnalysedBefore(an, a, b)))

----------------------------------------------------------------------------
(* enrich_static_features *)

(* The file names: a name with a leading underscore also counts without it. *)
FileNames(recognized, alias) ==
    UNION {{<<a, recognized[a]>>} \union (IF recognized[a] \in DOMAIN alias THEN {<<a, alias[recognized[a]]>>} ELSE {})
              : a \in DOMAIN recognized}

(* function_with_tail_blocks: a function's own blocks and those behind its  *)
(* tail calls.  blocks maps a function to a sequence of blocks, each with   *)
(* the targets of its tail-call edges.                                      *)
TailsOf(blocks) == FoldLeft(LAMBDA s, b : s \o b.tails, <<>>, blocks)
RECURSIVE TailBlocks(_, _, _, _)
TailBlocks(blocks, found, seen, pending) ==
    LET last == pending[Len(pending)]
        rest == SubSeq(pending, 1, Len(pending) - 1)
        fresh == SelectSeq(blocks[last], LAMBDA b : b.address \notin {x.address : x \in Range(found)})
    IN  IF pending = <<>> THEN SortSeq(found, LAMBDA a, b : a.address < b.address)
        ELSE IF last \in seen THEN TailBlocks(blocks, found, seen, rest)
        ELSE IF last \notin DOMAIN blocks THEN TailBlocks(blocks, found, seen \union {last}, rest)
        ELSE TailBlocks(blocks, found \o fresh, seen \union {last}, rest \o TailsOf(fresh))
FunctionWithTailBlocks(blocks, f) == TailBlocks(blocks, blocks[f], {f}, TailsOf(blocks[f]))

(* Every function that is no library function, with the blocks of its scope. *)
Extracted(blocks, recognized) ==
    [f \in DOMAIN blocks \ DOMAIN recognized |-> FunctionWithTailBlocks(blocks, f)]
=============================================================================
