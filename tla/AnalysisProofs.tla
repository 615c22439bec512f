--------------------------- MODULE AnalysisProofs ---------------------------
(***************************************************************************)
(* Analysis, for any callers, requests, bundled signatures and contents of *)
(* the custom path: callers that run at the same time get what each would  *)
(* get alone.                                                              *)
(*                                                                         *)
(* The inductive invariant says of a caller at work which phases it has    *)
(* behind it, that none of them refused the input, and that its features   *)
(* are exactly what those phases gather from its own request and from one  *)
(* set of databases: the bundle, or a content of the custom path that it   *)
(* could see.  The rest is about the operators: the phase that follows, a  *)
(* first refusal and a run without one mean what Alone says.               *)
(***************************************************************************)
EXTENDS Analysis, WellFoundedInduction, TLAPS

(* What the first n phases of a call gather. *)
Ran(r, n, phase) == \E j \in 1 .. n : Pipeline(r)[j] = phase
AfterExtract(r, n) == IF Ran(r, n, "extract") \/ Ran(r, n, "parse") THEN Extracted(r) ELSE NoFeatures
AfterIdentify(r, databases, n) ==
    IF Ran(r, n, "identify") THEN [AfterExtract(r, n) EXCEPT !.libraries = Identified(r.input, databases)]
    ELSE AfterExtract(r, n)
After(r, databases, n) ==
    IF Ran(r, n, "enrich") THEN Enriched(r, AfterIdentify(r, databases, n)) ELSE AfterIdentify(r, databases, n)

(* A caller that waits for its own initialisation is still in the phase of  *)
(* the signatures.                                                          *)
PhaseOf(c) == IF at[c] = "initialising" THEN "signatures" ELSE at[c]

AtWork(c, i, content) ==
    LET r == request[c]
    IN  /\ Resolve(r) # None
        /\ i \in DOMAIN Pipeline(r) /\ Pipeline(r)[i] = PhaseOf(c)
        /\ \A j \in 1 .. (i - 1) : ~Refuses(r, Databases(r, content), Pipeline(r)[j])
        /\ Ran(r, i - 1, "signatures") => signatures[c] = Databases(r, content)
        /\ features[c] = After(r, Databases(r, content), i - 1)

CallerInv(c) ==
    \/ at[c] = "start" /\ result[c] = None /\ features[c] = NoFeatures
    \/ at[c] \notin {"start", "returned"} /\ result[c] = None /\ \E content \in seen[c] : \E i \in Nat : AtWork(c, i, content)
    \/ at[c] = "returned" /\ \E content \in seen[c] : result[c] = Alone(request[c], Databases(request[c], content))

SharedInv ==
    /\ bundle \in Bundles /\ disk \in Disks
    /\ embedded.state = "ready" => embedded.value = ParseAll(bundle)

TypeInv ==
    /\ DOMAIN at = Callers /\ DOMAIN signatures = Callers /\ DOMAIN features = Callers
    /\ DOMAIN result = Callers /\ DOMAIN seen = Callers
    /\ \A c \in Callers : /\ seen[c] \subseteq Disks
                          /\ at[c] # "returned" => disk \in seen[c]

Inv == TypeInv /\ SharedInv /\ \A c \in Callers : CallerInv(c)
----------------------------------------------------------------------------
(* Operators. *)

(* Min of a set of natural numbers is its least element. *)
LEMMA LeastElement ==
    ASSUME NEW S, S \subseteq Nat, S # {}
    PROVE  Min(S) \in S /\ \A y \in S : Min(S) <= y
<1>1. PICK x \in S : \A y \in S : <<y, x>> \notin OpToRel(<, Nat)
  BY NatLessThanWellFounded, WFMin, Zenon
<1>2. \A y \in S : ~(y < x)
  BY <1>1, Zenon DEF OpToRel
<1>3. \A y \in S : x <= y
  BY <1>2
<1>. QED
  BY <1>3 DEF Min

(* load_input: walking down the list of formats is taking the first that    *)
(* the input looks like.                                                    *)
LEMMA KindIsResolve == \A r : Kind(r) = Resolve(r)
<1>. SUFFICES ASSUME NEW r PROVE Kind(r) = Resolve(r)
  OBVIOUS
<1>. DEFINE found == {i \in DOMAIN Precedence : Precedence[i] \in r.input.looks}
<1>1. DOMAIN Precedence = 1 .. 4 /\ Precedence[1] = "dotnet" /\ Precedence[2] = "pe"
      /\ Precedence[3] = "elf" /\ Precedence[4] = "freeze"
  BY DEF Precedence
<1>2. found # {} => Min(found) \in found /\ \A y \in found : Min(found) <= y
  <2>. found \subseteq Nat
    BY <1>1
  <2>. QED
    BY LeastElement
<1>3. found # {} => Precedence[Min(found)] = Detected(r.input)
  BY <1>1, <1>2 DEF Detected
<1>4. found = {} => r.input.looks \cap {"dotnet", "pe", "elf", "freeze"} = {}
  BY <1>1
<1>. QED
  BY <1>3, <1>4 DEF Kind, Resolve, Detected

(* The phases of a call, in full. *)
LEMMA PipelineIsOneOf ==
    ASSUME NEW r
    PROVE  LET kind == Resolve(r)
           IN  \/ kind = "dotnet" /\ Pipeline(r) = <<"load", "extract", "match", "document">>
               \/ kind = "freeze" /\ Pipeline(r) = <<"parse", "match", "document">>
               \/ kind \notin {"dotnet", "freeze"} /\ r.fileOnly /\ Pipeline(r) = <<"extract", "match", "document">>
               \/ kind = "pe" /\ ~r.fileOnly
                  /\ Pipeline(r) = <<"extract", "signatures", "recover", "identify", "enrich", "match", "document">>
               \/ kind \notin {"dotnet", "freeze", "pe"} /\ ~r.fileOnly
                  /\ Pipeline(r) = <<"extract", "recover", "enrich", "match", "document">>
BY Zenon DEF Pipeline, Phases

(* Every phase comes once, and "document" comes last. *)
IsPhaseList(p) ==
    /\ DOMAIN p = 1 .. Len(p) /\ Len(p) \in 1 .. 7
    /\ p[Len(p)] = "document"
    /\ \A i, j \in DOMAIN p : p[i] = p[j] => i = j
    /\ \A i \in DOMAIN p : p[i] \notin {"start", "initialising", "returned"}

(* A pipeline is a list of distinct phases that ends with the document. *)
LEMMA PipelineIsAList == ASSUME NEW r PROVE IsPhaseList(Pipeline(r))
<1>1. IsPhaseList(<<"load", "extract", "match", "document">>)
  BY DEF IsPhaseList
<1>2. IsPhaseList(<<"parse", "match", "document">>)
  BY DEF IsPhaseList
<1>3. IsPhaseList(<<"extract", "match", "document">>)
  BY DEF IsPhaseList
<1>4. IsPhaseList(<<"extract", "signatures", "recover", "identify", "enrich", "match", "document">>)
  BY DEF IsPhaseList
<1>5. IsPhaseList(<<"extract", "recover", "enrich", "match", "document">>)
  BY DEF IsPhaseList
<1>. QED
  BY <1>1, <1>2, <1>3, <1>4, <1>5, PipelineIsOneOf, Zenon

(* The phase after the i-th is the next in the list. *)
LEMMA FollowingIsNext ==
    ASSUME NEW c, NEW i \in DOMAIN Pipeline(request[c]), Pipeline(request[c])[i] = at[c], at[c] # "document"
    PROVE  i + 1 \in DOMAIN Pipeline(request[c]) /\ Following(c) = Pipeline(request[c])[i + 1]
<1>. DEFINE p == Pipeline(request[c])
            I == {k \in 1 .. Len(p) : p[k] = at[c]}
<1>1. I = {i}
  BY PipelineIsAList DEF IsPhaseList
<1>2. Min(I) = i
  BY <1>1, PipelineIsAList DEF Min, IsPhaseList
<1>3. i + 1 \in DOMAIN p
  BY PipelineIsAList DEF IsPhaseList
<1>. QED
  BY <1>1, <1>2, <1>3 DEF Following, SelectInSeq

(* The first phase that refuses the input decides the error. *)
LEMMA RefusalIsFailure ==
    ASSUME NEW r, NEW d, Resolve(r) # None, NEW i \in DOMAIN Pipeline(r),
           Refuses(r, d, Pipeline(r)[i]),
           \A j \in 1 .. (i - 1) : ~Refuses(r, d, Pipeline(r)[j])
    PROVE  Alone(r, d) = Failure(Resolve(r), Pipeline(r)[i])
<1>. DEFINE p == Pipeline(r)
            bad == {k \in DOMAIN p : Refuses(r, d, p[k])}
<1>1. i \in bad /\ \A k \in bad : i <= k /\ k \in Nat
  BY PipelineIsAList DEF IsPhaseList
<1>2. Min(bad) = i
  <2>. HIDE DEF bad
  <2>. QED
    BY <1>1 DEF Min
<1>3. Phases(Kind(r), r.fileOnly) = p
  BY KindIsResolve DEF Pipeline
<1>4. Alone(r, d) =
        [error |-> <<Kind(r), p[Min(bad)]>>,
         exit |-> IF p[Min(bad)] \in {"signatures", "identify"} THEN E_INVALID_SIG ELSE E_CORRUPT_FILE]
  BY <1>1, <1>3, KindIsResolve, Zenon DEF Alone
<1>. QED
  BY <1>2, <1>4, KindIsResolve, Zenon DEF Failure

(* What a phase has gathered is what is gathered before the next. *)
LEMMA RanIsBefore ==
    ASSUME NEW r, NEW i \in DOMAIN Pipeline(r)
    PROVE  /\ \A x : Ran(r, i, x) <=> Ran(r, i - 1, x) \/ Pipeline(r)[i] = x
           /\ ~Ran(r, i - 1, Pipeline(r)[i])
           /\ Pipeline(r)[i] \in {"extract", "parse", "signatures"} =>
                ~Ran(r, i - 1, "identify") /\ ~Ran(r, i - 1, "enrich")
           /\ Pipeline(r)[i] = "identify" => ~Ran(r, i - 1, "enrich") /\ Ran(r, i - 1, "signatures")
<1>1. i \in Nat /\ i # 0 /\ \A j \in 1 .. i : j \in DOMAIN Pipeline(r)
  BY PipelineIsAList DEF IsPhaseList
<1>2. 1 .. i = (1 .. (i - 1)) \union {i}
  BY <1>1
<1>3. \A x : Ran(r, i, x) <=> Ran(r, i - 1, x) \/ Pipeline(r)[i] = x
  BY <1>2 DEF Ran
<1>4. ~Ran(r, i - 1, Pipeline(r)[i])
  BY <1>1, PipelineIsAList DEF Ran, IsPhaseList
<1>5. Pipeline(r)[i] \in {"extract", "parse", "signatures"} => ~Ran(r, i - 1, "identify") /\ ~Ran(r, i - 1, "enrich")
  BY <1>1, PipelineIsOneOf DEF Ran
<1>6. Pipeline(r)[i] = "identify" => ~Ran(r, i - 1, "enrich") /\ Ran(r, i - 1, "signatures")
  BY <1>1, PipelineIsOneOf DEF Ran
<1>. QED
  BY <1>3, <1>4, <1>5, <1>6

(* What one more phase adds to what was gathered before it. *)
LEMMA GatheredIsAfter ==
    ASSUME NEW r, NEW d, NEW i \in DOMAIN Pipeline(r)
    PROVE  LET before == After(r, d, i - 1)
           IN  /\ Pipeline(r)[i] \in {"extract", "parse"} => After(r, d, i) = Extracted(r)
               /\ Pipeline(r)[i] = "identify" =>
                     After(r, d, i) = [before EXCEPT !.libraries = Identified(r.input, d)]
               /\ Pipeline(r)[i] = "enrich" => After(r, d, i) = Enriched(r, before)
               /\ Pipeline(r)[i] \notin {"extract", "parse", "identify", "enrich"} => After(r, d, i) = before
<1>. DEFINE before == After(r, d, i - 1)
            ran(x) == Ran(r, i - 1, x)
            now(x) == Ran(r, i, x)
<1>1. \A x : now(x) <=> ran(x) \/ Pipeline(r)[i] = x
  BY RanIsBefore
<1>a. ~ran(Pipeline(r)[i])
  BY RanIsBefore
<1>b. Pipeline(r)[i] = "identify" => ~ran("enrich")
  BY RanIsBefore
<1>. HIDE DEF ran, now
<1>2. Pipeline(r)[i] \in {"extract", "parse"} => After(r, d, i) = Extracted(r)
  <2>. SUFFICES ASSUME Pipeline(r)[i] \in {"extract", "parse"} PROVE After(r, d, i) = Extracted(r)
    OBVIOUS
  <2>1. (now("extract") \/ now("parse")) /\ ~now("identify") /\ ~now("enrich")
    BY <1>1, RanIsBefore DEF ran
  <2>. QED
    BY <2>1, Zenon DEF After, AfterIdentify, AfterExtract, now
<1>3. Pipeline(r)[i] = "identify" => After(r, d, i) = [before EXCEPT !.libraries = Identified(r.input, d)]
  <2>. SUFFICES ASSUME Pipeline(r)[i] = "identify"
                PROVE  After(r, d, i) = [before EXCEPT !.libraries = Identified(r.input, d)]
    OBVIOUS
  <2>1. /\ now("identify") /\ ~now("enrich") /\ ~ran("identify") /\ ~ran("enrich")
        /\ (now("extract") <=> ran("extract")) /\ (now("parse") <=> ran("parse"))
    BY <1>1, <1>a, <1>b
  <2>2. before = AfterExtract(r, i - 1) /\ AfterExtract(r, i) = AfterExtract(r, i - 1)
    BY <2>1, Zenon DEF After, AfterIdentify, AfterExtract, ran, now
  <2>. QED
    BY <2>1, <2>2, Zenon DEF After, AfterIdentify, now
<1>4. Pipeline(r)[i] = "enrich" => After(r, d, i) = Enriched(r, before)
  <2>. SUFFICES ASSUME Pipeline(r)[i] = "enrich" PROVE After(r, d, i) = Enriched(r, before)
    OBVIOUS
  <2>1. /\ now("enrich") /\ ~ran("enrich") /\ (now("identify") <=> ran("identify"))
        /\ (now("extract") <=> ran("extract")) /\ (now("parse") <=> ran("parse"))
    BY <1>1, <1>a, <1>b
  <2>. QED
    BY <2>1, Zenon DEF After, AfterIdentify, AfterExtract, ran, now
<1>5. Pipeline(r)[i] \notin {"extract", "parse", "identify", "enrich"} => After(r, d, i) = before
  <2>. SUFFICES ASSUME Pipeline(r)[i] \notin {"extract", "parse", "identify", "enrich"} PROVE After(r, d, i) = before
    OBVIOUS
  <2>1. /\ (now("enrich") <=> ran("enrich")) /\ (now("identify") <=> ran("identify"))
        /\ (now("extract") <=> ran("extract")) /\ (now("parse") <=> ran("parse"))
    BY <1>1, <1>a, <1>b
  <2>. QED
    BY <2>1, Zenon DEF After, AfterIdentify, AfterExtract, ran, now
<1>. QED
  BY <1>2, <1>3, <1>4, <1>5, Zenon

(* Before the first phase nothing is gathered. *)
LEMMA NothingGathered == \A r, d : After(r, d, 0) = NoFeatures
<1>1. 1 .. 0 = {}
  OBVIOUS
<1>. QED
  BY <1>1, Zenon DEF After, AfterIdentify, AfterExtract, Ran

(* identify_library_functions names what some database knows, by the first  *)
(* that does.                                                               *)
LEMMA IdentifiedIsLibraries ==
    ASSUME NEW r, NEW d, d \in Seq(Range(d))
    PROVE  Identified(r.input, d) = Libraries(r, d)
<1>. DEFINE knowing(f) == {i \in DOMAIN d : f \in DOMAIN r.input.names[d[i]]}
<1>1. DOMAIN d = 1 .. Len(d) /\ Len(d) \in Nat
  OBVIOUS
<1>2. \A f : Knowing(r.input, d, f) = IF knowing(f) # {} THEN Min(knowing(f)) ELSE 0
  BY <1>1, Zenon DEF Knowing, SelectInSeq
<1>3. \A f : knowing(f) # {} => Min(knowing(f)) # 0
  <2>. SUFFICES ASSUME NEW f, knowing(f) # {} PROVE Min(knowing(f)) # 0
    OBVIOUS
  <2>1. knowing(f) \subseteq Nat \ {0}
    BY <1>1
  <2>2. Min(knowing(f)) \in knowing(f)
    <3>. HIDE DEF knowing
    <3>. QED
      BY <2>1, LeastElement
  <2>. QED
    BY <2>1, <2>2
<1>4. \A f : Knowing(r.input, d, f) # 0 <=> knowing(f) # {}
  <2>. HIDE DEF knowing
  <2>. QED
    BY <1>2, <1>3
<1>5. {f \in r.input.functions : Knowing(r.input, d, f) # 0} = {f \in r.input.functions : knowing(f) # {}}
  <2>. HIDE DEF knowing
  <2>. QED
    BY <1>4
<1>6. \A f \in {g \in r.input.functions : knowing(g) # {}} : Knowing(r.input, d, f) = Min(knowing(f))
  <2>. HIDE DEF knowing
  <2>. QED
    BY <1>2
<1>7. Libraries(r, d) = [f \in {g \in r.input.functions : knowing(g) # {}} |-> r.input.names[d[Min(knowing(f))]][f]]
  BY DEF Libraries
<1>8. Identified(r.input, d) =
        [f \in {g \in r.input.functions : Knowing(r.input, d, g) # 0} |-> r.input.names[d[Knowing(r.input, d, f)]][f]]
  BY DEF Identified
<1>. QED
  <2>. HIDE DEF knowing
  <2>. QED
    BY <1>5, <1>6, <1>7, <1>8

(* What is there when the document is built. *)
LEMMA GatheredInAll ==
    ASSUME NEW r, NEW d
    PROVE  LET kind == Resolve(r)
               all == After(r, d, Len(Pipeline(r)) - 1)
           IN  /\ r.fileOnly \/ kind \in {"dotnet", "freeze"} => all = Extracted(r)
               /\ ~r.fileOnly /\ kind = "pe" =>
                     all = Enriched(r, [Extracted(r) EXCEPT !.libraries = Identified(r.input, d)])
               /\ ~r.fileOnly /\ kind \notin {"dotnet", "freeze", "pe"} => all = Enriched(r, Extracted(r))
<1>. DEFINE kind == Resolve(r)
            p == Pipeline(r)
            ran(x) == Ran(r, Len(p) - 1, x)
<1>1. (r.fileOnly \/ kind \in {"dotnet", "freeze"}) => (ran("extract") \/ ran("parse")) /\ ~ran("identify") /\ ~ran("enrich")
  <2>1. CASE kind = "dotnet" /\ p = <<"load", "extract", "match", "document">>
    BY <2>1 DEF Ran
  <2>2. CASE kind = "freeze" /\ p = <<"parse", "match", "document">>
    BY <2>2 DEF Ran
  <2>3. CASE kind \notin {"dotnet", "freeze"} /\ r.fileOnly /\ p = <<"extract", "match", "document">>
    BY <2>3 DEF Ran
  <2>. QED
    BY <2>1, <2>2, <2>3, PipelineIsOneOf
<1>2. ~r.fileOnly /\ kind = "pe" => ran("extract") /\ ran("identify") /\ ran("enrich")
  <2>1. CASE p = <<"extract", "signatures", "recover", "identify", "enrich", "match", "document">>
    BY <2>1 DEF Ran
  <2>. QED
    BY <2>1, PipelineIsOneOf
<1>3. ~r.fileOnly /\ kind \notin {"dotnet", "freeze", "pe"} => ran("extract") /\ ~ran("identify") /\ ran("enrich")
  <2>1. CASE p = <<"extract", "recover", "enrich", "match", "document">>
    BY <2>1 DEF Ran
  <2>. QED
    BY <2>1, PipelineIsOneOf
<1>. QED
  BY <1>1, <1>2, <1>3, Zenon DEF After, AfterIdentify, AfterExtract

(* The records that the phases build, field by field. *)
FeatureRecord(format, os, sections, names, functions, libraries) ==
    [format |-> format, os |-> os, sections |-> sections, names |-> names, functions |-> functions,
     libraries |-> libraries]
NamesOf(libraries) ==
    UNION {{libraries[f]} \union (IF Head(libraries[f]) = "_" THEN {Tail(libraries[f])} ELSE {}) : f \in DOMAIN libraries}
FormatOf(r) == IF r.fileOnly /\ Resolve(r) \in {"pe", "elf"} THEN None ELSE r.input.format
OsOf(r) == IF Resolve(r) \in Shellcode THEN r.os ELSE r.input.os
FunctionsOf(r) == IF Resolve(r) \in {"dotnet", "freeze"} THEN r.input.functions ELSE {}
SectionsOf(r, s) == IF Resolve(r) = "pe" /\ r.input.arch = "x86" THEN r.input.sections.image ELSE s

(* The features of a request as the record that Alone builds. *)
LEMMA ExtractedIsRecord ==
    ASSUME NEW r
    PROVE  Extracted(r) = FeatureRecord(FormatOf(r), OsOf(r), r.input.sections.file, {}, FunctionsOf(r), <<>>)
<1>1. Extracted(r) = [NoFeatures EXCEPT !.format = FormatOf(r), !.os = OsOf(r), !.sections = r.input.sections.file,
                                        !.functions = FunctionsOf(r)]
  BY Zenon DEF Extracted, FormatOf, OsOf, FunctionsOf
<1>. QED
  BY <1>1 DEF NoFeatures, FeatureRecord

(* Names and functions are added to such a record. *)
LEMMA EnrichedIsRecord ==
    ASSUME NEW r, NEW a, NEW b, NEW s, NEW n, NEW f, NEW l
    PROVE  Enriched(r, FeatureRecord(a, b, s, n, f, l)) =
             FeatureRecord(a, b, SectionsOf(r, s), NamesOf(l), r.input.functions \ DOMAIN l, l)
<1>. DEFINE g == FeatureRecord(a, b, s, n, f, l)
<1>1. g.libraries = l /\ g.sections = s
  BY DEF FeatureRecord
<1>2. Enriched(r, g) = [g EXCEPT !.sections = SectionsOf(r, s),
                                 !.names = NamesOf(l), !.functions = r.input.functions \ DOMAIN l]
  <2>. HIDE DEF g
  <2>. QED
    BY <1>1, Zenon DEF Enriched, NamesOf, SectionsOf
<1>. QED
  BY <1>2 DEF FeatureRecord

(* Library names are put into such a record. *)
LEMMA IdentifiedIsRecord ==
    ASSUME NEW a, NEW b, NEW s, NEW n, NEW f, NEW l, NEW m
    PROVE  [FeatureRecord(a, b, s, n, f, l) EXCEPT !.libraries = m] = FeatureRecord(a, b, s, n, f, m)
BY DEF FeatureRecord

(* No database names nothing. *)
LEMMA NoNames == NamesOf(<<>>) = {} /\ DOMAIN <<>> = {}
BY DEF NamesOf

(* A call that no phase refuses ends with the document that Alone gives. *)
LEMMA SuccessIsDocument ==
    ASSUME NEW r, NEW d, Resolve(r) # None,
           d # None => d \in Seq(Range(d)),
           \A i \in DOMAIN Pipeline(r) : ~Refuses(r, d, Pipeline(r)[i])
    PROVE  Alone(r, d) = Document(r, After(r, d, Len(Pipeline(r)) - 1))
<1>. DEFINE kind == Resolve(r)
            all == After(r, d, Len(Pipeline(r)) - 1)
            whole == kind = "pe" /\ ~r.fileOnly
            named == IF whole THEN Libraries(r, d) ELSE <<>>
            format == IF r.input.format = None \/ (r.fileOnly /\ kind \in {"pe", "elf"}) THEN kind ELSE r.input.format
            os == IF kind \notin Shellcode /\ r.input.os # None THEN r.input.os
                  ELSE IF r.os # None THEN r.os ELSE "unknown"
            sections == IF whole /\ r.input.arch = "x86" THEN r.input.sections.image ELSE r.input.sections.file
            names == UNION {{n, IF Head(n) = "_" THEN Tail(n) ELSE n} : n \in Range(named)}
            functions == IF r.fileOnly /\ kind \notin {"dotnet", "freeze"} THEN {} ELSE r.input.functions \ DOMAIN named
<1>1. Kind(r) = kind /\ Phases(Kind(r), r.fileOnly) = Pipeline(r)
  BY KindIsResolve DEF Pipeline
<1>2. Alone(r, d) = [error |-> None, flavor |-> r.input.flavor, format |-> format, os |-> os, sections |-> sections,
                            names |-> names, functions |-> functions, libraries |-> named]
  <2>1. {i \in DOMAIN Pipeline(r) : Refuses(r, d, Pipeline(r)[i])} = {}
    OBVIOUS
  <2>. QED
    BY <1>1, <2>1, Zenon DEF Alone
<1>3. whole => named = Identified(r.input, d)
  <2>1. whole => Pipeline(r)[2] = "signatures" /\ 2 \in DOMAIN Pipeline(r)
    BY PipelineIsOneOf
  <2>2. whole => d # None
    BY <2>1 DEF Refuses
  <2>. QED
    BY <2>2, IdentifiedIsLibraries
<1>4. all = FeatureRecord(FormatOf(r), OsOf(r),
                          IF whole THEN SectionsOf(r, r.input.sections.file) ELSE r.input.sections.file,
                          NamesOf(named),
                          IF r.fileOnly /\ kind \notin {"dotnet", "freeze"} THEN {} ELSE r.input.functions \ DOMAIN named,
                          named)
  <2>1. CASE r.fileOnly \/ kind \in {"dotnet", "freeze"}
    <3>1. all = Extracted(r)
      BY <2>1, GatheredInAll, Zenon
    <3>2. ~whole /\ named = <<>>
      BY <2>1
    <3>3. FunctionsOf(r) = IF r.fileOnly /\ kind \notin {"dotnet", "freeze"} THEN {} ELSE r.input.functions \ DOMAIN named
      BY <2>1, <3>2, NoNames DEF FunctionsOf
    <3>. HIDE DEF all, named, kind, whole
    <3>. QED
      BY <3>1, <3>2, <3>3, ExtractedIsRecord, NoNames, Zenon
  <2>2. CASE ~r.fileOnly /\ kind = "pe"
    <3>1. all = Enriched(r, [Extracted(r) EXCEPT !.libraries = named])
      BY <2>2, <1>3, GatheredInAll, Zenon
    <3>2. whole
      BY <2>2
    <3>. HIDE DEF all, named, whole
    <3>3. [Extracted(r) EXCEPT !.libraries = named]
          = FeatureRecord(FormatOf(r), OsOf(r), r.input.sections.file, {}, FunctionsOf(r), named)
      BY ExtractedIsRecord, IdentifiedIsRecord
    <3>4. all = FeatureRecord(FormatOf(r), OsOf(r), SectionsOf(r, r.input.sections.file), NamesOf(named),
                              r.input.functions \ DOMAIN named, named)
      BY <3>1, <3>3, EnrichedIsRecord
    <3>. QED
      BY <2>2, <3>2, <3>4, Zenon
  <2>3. CASE ~r.fileOnly /\ kind \notin {"dotnet", "freeze", "pe"}
    <3>1. all = Enriched(r, Extracted(r))
      BY <2>3, GatheredInAll, Zenon
    <3>2. ~whole /\ named = <<>> /\ SectionsOf(r, r.input.sections.file) = r.input.sections.file
      BY <2>3 DEF SectionsOf
    <3>. HIDE DEF all, named, whole
    <3>3. all = FeatureRecord(FormatOf(r), OsOf(r), SectionsOf(r, r.input.sections.file), NamesOf(named),
                              r.input.functions \ DOMAIN named, named)
      BY <3>1, <3>2, ExtractedIsRecord, EnrichedIsRecord
    <3>. QED
      BY <2>3, <3>2, <3>3, Zenon
  <2>. QED
    BY <2>1, <2>2, <2>3
<1>5. names = NamesOf(named)
  <2>. DEFINE short(n) == IF Head(n) = "_" THEN {Tail(n)} ELSE {}
              both(n) == {n, IF Head(n) = "_" THEN Tail(n) ELSE n}
  <2>1. \A n : both(n) = {n} \union short(n)
    OBVIOUS
  <2>2. NamesOf(named) = UNION {{named[f]} \union short(named[f]) : f \in DOMAIN named}
    BY Zenon DEF NamesOf
  <2>. HIDE DEF named, short, both
  <2>3. \A x : x \in UNION {both(n) : n \in Range(named)} <=> \E f \in DOMAIN named : x \in both(named[f])
    BY Zenon DEF Range
  <2>4. \A x : x \in UNION {{named[f]} \union short(named[f]) : f \in DOMAIN named}
               <=> \E f \in DOMAIN named : x \in {named[f]} \union short(named[f])
    BY Zenon
  <2>5. UNION {both(n) : n \in Range(named)} = NamesOf(named)
    BY <2>1, <2>2, <2>3, <2>4
  <2>. QED
    BY <2>5 DEF both
<1>6. /\ all.format = FormatOf(r) /\ all.os = OsOf(r) /\ all.libraries = named
      /\ all.sections = sections /\ all.names = names /\ all.functions = functions
  <2>1. sections = IF whole THEN SectionsOf(r, r.input.sections.file) ELSE r.input.sections.file
    BY DEF SectionsOf
  <2>2. all = FeatureRecord(FormatOf(r), OsOf(r), sections, names, functions, named)
    <3>. HIDE DEF all, named, names, sections
    <3>. QED
      BY <1>4, <1>5, <2>1, Zenon
  <2>. HIDE DEF all, named, kind, whole, sections, names, functions
  <2>. QED
    BY <2>2 DEF FeatureRecord
<1>7. (IF all.format # None THEN all.format ELSE kind) = format
  <2>. HIDE DEF all, named, whole
  <2>. QED
    BY <1>6 DEF FormatOf
<1>8. (IF all.os # None THEN all.os ELSE IF r.os # None THEN r.os ELSE "unknown") = os
  <2>. HIDE DEF all, named, whole
  <2>. QED
    BY <1>6 DEF OsOf
<1>9. Document(r, all) =
        [error |-> None, flavor |-> r.input.flavor, format |-> format, os |-> os,
         sections |-> all.sections, names |-> all.names, functions |-> all.functions, libraries |-> all.libraries]
  <2>. HIDE DEF all, named, format, os
  <2>. QED
    BY <1>7, <1>8, Zenon DEF Document
<1>. QED
  <2>1. Alone(r, d) = Document(r, all)
    <3>. HIDE DEF all, named, kind, whole, format, os, sections, names, functions
    <3>. QED
      BY <1>2, <1>6, <1>9
  <2>. QED
    BY <2>1

----------------------------------------------------------------------------
(* Steps. *)

(* What a step of another caller leaves to this one. *)
Kept(c) ==
    /\ at'[c] = at[c] /\ signatures'[c] = signatures[c] /\ features'[c] = features[c]
    /\ result'[c] = result[c]

(* Only the caller itself changes its own part of the state. *)
LEMMA StepIsOwn ==
    ASSUME TypeInv, NEW c \in Callers, Step(c)
    PROVE  /\ at[c] # "returned" /\ request' = request /\ bundle' = bundle /\ disk' = disk
           /\ \A x \in Callers \ {c} : Kept(x)
           /\ DOMAIN at' = Callers /\ DOMAIN signatures' = Callers /\ DOMAIN features' = Callers
           /\ DOMAIN result' = Callers
<1>. USE DEF TypeInv, Kept, shared
<1>1. CASE Dispatch(c)
  BY <1>1 DEF Dispatch, Return
<1>2. CASE RunPhase(c)
  BY <1>2 DEF RunPhase, Fail, Return, Advance
<1>3. CASE LoadCustom(c)
  BY <1>3 DEF LoadCustom, Fail, Return, Advance
<1>4. CASE BeginEmbedded(c)
  BY <1>4 DEF BeginEmbedded
<1>5. CASE EndEmbedded(c)
  BY <1>5 DEF EndEmbedded
<1>6. CASE UseEmbedded(c)
  BY <1>6 DEF UseEmbedded, Fail, Return, Advance
<1>7. CASE Build(c)
  BY <1>7 DEF Build, Fail, Return
<1>. QED
  BY <1>1, <1>2, <1>3, <1>4, <1>5, <1>6, <1>7 DEF Step

(* A caller keeps its invariant while others move and the path changes. *)
LEMMA OthersKeep ==
    ASSUME TypeInv, Watch, request' = request, bundle' = bundle, NEW c \in Callers, Kept(c), CallerInv(c)
    PROVE  CallerInv(c)'
<1>1. at[c] # "start" => \A content \in seen[c] : content \in seen'[c]
  BY DEF Watch, Kept
<1>2. \A i, content : AtWork(c, i, content) => AtWork(c, i, content)'
  BY DEF AtWork, PhaseOf, Databases, Kept
<1>3. \A content : Databases(request[c], content)' = Databases(request[c], content)
  BY DEF Databases
<1>4. CASE at[c] = "start" /\ result[c] = None /\ features[c] = NoFeatures
  BY <1>4 DEF CallerInv, Kept
<1>5. CASE at[c] \notin {"start", "returned"} /\ result[c] = None /\ \E content \in seen[c] : \E i \in Nat : AtWork(c, i, content)
  <2>1. PICK content \in seen[c], i \in Nat : AtWork(c, i, content)
    BY <1>5
  <2>2. content \in seen'[c] /\ AtWork(c, i, content)'
    BY <1>1, <1>2, <1>5, <2>1
  <2>. QED
    BY <1>5, <2>2 DEF CallerInv, Kept
<1>6. CASE at[c] = "returned" /\ \E content \in seen[c] : result[c] = Alone(request[c], Databases(request[c], content))
  <2>1. PICK content \in seen[c] : result[c] = Alone(request[c], Databases(request[c], content))
    BY <1>6
  <2>2. content \in seen'[c] /\ result'[c] = Alone(request'[c], Databases(request[c], content)')
    BY <1>1, <1>3, <1>6, <2>1 DEF Kept
  <2>. QED
    BY <1>6, <2>2 DEF CallerInv, Kept
<1>. QED
  BY <1>4, <1>5, <1>6 DEF CallerInv

(* The history of a caller at work. *)
LEMMA HistoryOfCaller ==
    ASSUME TypeInv, Watch, NEW c \in Callers, at[c] # "returned", disk' = disk
    PROVE  /\ at'[c] # "start" => seen'[c] = seen[c] /\ disk \in seen'[c]
           /\ at'[c] = "start" => seen'[c] = {disk}
BY DEF TypeInv, Watch

(* A phase other than that of the signatures refuses what Fails says. *)
LEMMA FailsIsRefuses ==
    ASSUME NEW r, NEW d, NEW phase, phase # "signatures"
    PROVE  Fails(r, phase) <=> Refuses(r, d, phase)
BY KindIsResolve, Zenon DEF Fails, Refuses

(* A phase that refuses ends the call, as it would end it alone. *)
LEMMA FailureIsAlone ==
    ASSUME Inv, Watch, NEW c \in Callers, NEW content \in seen[c], NEW i \in Nat, AtWork(c, i, content),
           at[c] = PhaseOf(c), at[c] # "returned", request' = request, bundle' = bundle, disk' = disk,
           Refuses(request[c], Databases(request[c], content), at[c]), Fail(c)
    PROVE  CallerInv(c)'
<1>1. at'[c] = "returned" /\ result'[c] = Failure(Resolve(request[c]), at[c])
  BY DEF Fail, Return, Inv, TypeInv
<1>2. content \in seen'[c]
  BY <1>1, HistoryOfCaller DEF Inv
<1>3. Failure(Resolve(request[c]), at[c]) = Alone(request[c], Databases(request[c], content))
  BY RefusalIsFailure DEF AtWork
<1>4. Databases(request[c], content)' = Databases(request[c], content)
  BY DEF Databases
<1>. QED
  BY <1>1, <1>2, <1>3, <1>4 DEF CallerInv

(* A phase that does not refuse leads to the next. *)
LEMMA AdvanceKeeps ==
    ASSUME Inv, Watch, NEW c \in Callers, NEW content \in seen[c], NEW i \in Nat, AtWork(c, i, content),
           at[c] = PhaseOf(c), at[c] \notin {"start", "returned", "document"}, result[c] = None,
           request' = request, bundle' = bundle, disk' = disk,
           ~Refuses(request[c], Databases(request[c], content), at[c]), Advance(c),
           at[c] = "signatures" \/ Ran(request[c], i - 1, "signatures") =>
                signatures'[c] = Databases(request[c], content),
           features'[c] = After(request[c], Databases(request[c], content), i)
    PROVE  CallerInv(c)'
<1>. DEFINE p == Pipeline(request[c])
<1>1. i \in DOMAIN p /\ p[i] = at[c] /\ i # 0
  BY PipelineIsAList DEF AtWork, IsPhaseList
<1>2. i + 1 \in DOMAIN p /\ Following(c) = p[i + 1]
  BY <1>1, FollowingIsNext
<1>3. at'[c] = p[i + 1] /\ result'[c] = None /\ at'[c] \notin {"start", "initialising", "returned"}
  BY <1>2, PipelineIsAList DEF Advance, Inv, TypeInv, IsPhaseList
<1>4. content \in seen'[c]
  BY <1>3, HistoryOfCaller DEF Inv
<1>5. Databases(request[c], content)' = Databases(request[c], content)
  BY DEF Databases
<1>6. \A j \in 1 .. i : ~Refuses(request[c], Databases(request[c], content), p[j])
  BY <1>1 DEF AtWork
<1>7. Ran(request[c], i, "signatures") => signatures'[c] = Databases(request[c], content)
  BY <1>1, RanIsBefore
<1>8. i + 1 - 1 = i
  OBVIOUS
<1>9. AtWork(c, i + 1, content)'
  BY <1>2, <1>3, <1>5, <1>6, <1>7, <1>8 DEF AtWork, PhaseOf
<1>. QED
  BY <1>3, <1>4, <1>9 DEF CallerInv

(* analyze resolves the format and enters the first phase. *)
LEMMA DispatchKeeps ==
    ASSUME Inv, Watch, NEW c \in Callers, Dispatch(c)
    PROVE  CallerInv(c)'
<1>. DEFINE r == request[c]
            p == Pipeline(request[c])
<1>1. at[c] = "start" /\ request' = request /\ bundle' = bundle /\ disk' = disk
  BY DEF Dispatch, shared
<1>2. result[c] = None /\ features[c] = NoFeatures /\ features' = features
  BY <1>1 DEF Inv, CallerInv, Dispatch
<1>3. CASE Resolve(r) = None
  <2>1. at'[c] = "returned" /\ result'[c] = Failure(None, "start")
    BY <1>1, <1>3 DEF Dispatch, Return, Inv, TypeInv
  <2>2. \A d : Alone(r, d) = Failure(None, "start")
    BY <1>3, KindIsResolve, Zenon DEF Alone, Failure
  <2>3. disk \in seen'[c]
    BY <1>1, <2>1, HistoryOfCaller DEF Inv
  <2>. QED
    BY <1>1, <2>1, <2>2, <2>3 DEF CallerInv
<1>4. CASE Resolve(r) # None
  <2>1. 1 \in DOMAIN p /\ Head(p) = p[1] /\ p[1] \notin {"start", "initialising", "returned"}
    BY PipelineIsAList, PipelineIsOneOf DEF IsPhaseList
  <2>2. at'[c] = p[1] /\ result'[c] = None
    BY <1>1, <1>2, <1>4, <2>1 DEF Dispatch, Inv, TypeInv
  <2>3. disk \in seen'[c]
    BY <1>1, <2>1, <2>2, HistoryOfCaller DEF Inv
  <2>4. ~Ran(r, 0, "signatures") /\ 1 - 1 = 0
    BY DEF Ran
  <2>5. AtWork(c, 1, disk)'
    BY <1>1, <1>2, <1>4, <2>1, <2>2, <2>4, NothingGathered DEF AtWork, PhaseOf
  <2>. QED
    BY <1>1, <2>1, <2>2, <2>3, <2>5 DEF CallerInv
<1>. QED
  BY <1>3, <1>4

(* A caller at work: where it is, and with which databases. *)
LEMMA WorkOfCaller ==
    ASSUME Inv, NEW c \in Callers, at[c] \notin {"start", "returned"}
    PROVE  result[c] = None /\ \E content \in seen[c], i \in Nat : AtWork(c, i, content)
BY DEF Inv, CallerInv

(* A phase other than the signatures and the document. *)
LEMMA RunPhaseKeeps ==
    ASSUME Inv, Watch, NEW c \in Callers, RunPhase(c)
    PROVE  CallerInv(c)'
<1>. DEFINE r == request[c]
<1>1. /\ at[c] \in {"load", "extract", "parse", "recover", "identify", "enrich", "match"}
      /\ request' = request /\ bundle' = bundle /\ disk' = disk /\ PhaseOf(c) = at[c]
  BY DEF RunPhase, shared, PhaseOf
<1>2. PICK content \in seen[c], i \in Nat : AtWork(c, i, content)
  BY <1>1, WorkOfCaller
<1>. DEFINE d == Databases(request[c], content)
<1>3. Fails(r, at[c]) <=> Refuses(r, d, at[c])
  BY <1>1, FailsIsRefuses
<1>4. CASE Fails(r, at[c])
  <2>1. Fail(c)
    BY <1>4 DEF RunPhase
  <2>2. at[c] # "returned" /\ Refuses(r, d, at[c])
    BY <1>1, <1>3, <1>4
  <2>. QED
    BY <1>1, <1>2, <2>1, <2>2, FailureIsAlone, Zenon
<1>5. CASE ~Fails(r, at[c])
  <2>1. Advance(c) /\ features'[c] = Gathered(c) /\ signatures' = signatures
    BY <1>5 DEF RunPhase, Inv, TypeInv
  <2>2. i \in DOMAIN Pipeline(r) /\ Pipeline(r)[i] = at[c] /\ features[c] = After(r, d, i - 1)
    BY <1>1, <1>2 DEF AtWork
  <2>3. at[c] = "identify" => signatures[c] = d
    BY <1>2, <2>2, RanIsBefore DEF AtWork
  <2>4. Gathered(c) = After(r, d, i)
    <3>. HIDE DEF d
    <3>1. CASE at[c] \in {"extract", "parse"}
      BY <2>2, <3>1, GatheredIsAfter DEF Gathered
    <3>2. CASE at[c] = "identify"
      BY <2>2, <2>3, <3>2, GatheredIsAfter DEF Gathered
    <3>3. CASE at[c] = "enrich"
      BY <2>2, <3>3, GatheredIsAfter DEF Gathered
    <3>4. CASE at[c] \notin {"extract", "parse", "identify", "enrich"}
      BY <2>2, <3>4, GatheredIsAfter DEF Gathered
    <3>. QED
      BY <3>1, <3>2, <3>3, <3>4
  <2>5. Ran(r, i - 1, "signatures") => signatures'[c] = d
    BY <1>2, <2>1 DEF AtWork
  <2>6. result[c] = None
    BY <1>1, WorkOfCaller
  <2>. QED
    BY <1>1, <1>2, <1>3, <1>5, <2>1, <2>4, <2>5, <2>6, AdvanceKeeps
<1>. QED
  BY <1>4, <1>5

(* try_map over the databases refuses what the phase of the signatures      *)
(* refuses, and hands on the others as they are.                            *)
LEMMA ParsedOrRefused ==
    ASSUME NEW r, NEW d, d # None
    PROVE  /\ Refuses(r, d, "signatures") => ParseAll(d) = None
           /\ ~Refuses(r, d, "signatures") => ParseAll(d) = d
BY DEF Refuses, ParseAll

(* Both ways to get signatures: from a value that is None or the databases. *)
LEMMA SignaturesKeep ==
    ASSUME Inv, Watch, NEW c \in Callers, at[c] = "signatures", NEW content \in seen[c], NEW i \in Nat, AtWork(c, i, content),
           request' = request, bundle' = bundle, disk' = disk, NEW loaded,
           Refuses(request[c], Databases(request[c], content), "signatures") => loaded = None,
           ~Refuses(request[c], Databases(request[c], content), "signatures") =>
                loaded = Databases(request[c], content) /\ loaded # None,
           IF loaded = None THEN Fail(c)
           ELSE Advance(c) /\ signatures' = [signatures EXCEPT ![c] = loaded] /\ UNCHANGED features
    PROVE  CallerInv(c)'
<1>. DEFINE r == request[c]
            d == Databases(request[c], content)
<1>1. at[c] = PhaseOf(c) /\ at[c] \notin {"start", "returned", "document"}
  BY DEF PhaseOf
<1>2. CASE Refuses(r, d, "signatures")
  BY <1>1, <1>2, FailureIsAlone
<1>3. CASE ~Refuses(r, d, "signatures")
  <2>1. Advance(c) /\ signatures'[c] = d /\ features' = features
    BY <1>3 DEF Inv, TypeInv
  <2>2. i \in DOMAIN Pipeline(r) /\ Pipeline(r)[i] = "signatures" /\ features[c] = After(r, d, i - 1)
    BY <1>1 DEF AtWork
  <2>3. features'[c] = After(r, d, i)
    <3>. HIDE DEF d
    <3>. QED
      BY <2>1, <2>2, GatheredIsAfter
  <2>4. result[c] = None
    BY <1>1, WorkOfCaller
  <2>. QED
    BY <1>1, <1>3, <2>1, <2>3, <2>4, AdvanceKeeps
<1>. QED
  BY <1>2, <1>3

(* What a caller works with so far does not depend on the content of the    *)
(* path while its signatures are still to come.                             *)
LEMMA AnyContentBefore ==
    ASSUME Inv, NEW c \in Callers, PhaseOf(c) = "signatures", at[c] \notin {"start", "returned"}, NEW any \in seen[c]
    PROVE  \E i \in Nat : AtWork(c, i, any)
<1>1. PICK content \in seen[c], i \in Nat : AtWork(c, i, content)
  BY WorkOfCaller
<1>. DEFINE r == request[c]
            p == Pipeline(request[c])
<1>2. i \in DOMAIN p /\ p[i] = "signatures" /\ ~Ran(r, i - 1, "signatures")
  BY <1>1, RanIsBefore DEF AtWork
<1>3. \A j \in 1 .. (i - 1) : p[j] # "signatures"
  BY <1>2 DEF Ran
<1>4. \A j \in 1 .. (i - 1) : ~Refuses(r, Databases(r, any), p[j])
  <2>. SUFFICES ASSUME NEW j \in 1 .. (i - 1) PROVE ~Refuses(r, Databases(r, any), p[j])
    OBVIOUS
  <2>1. ~Refuses(r, Databases(r, content), p[j])
    BY <1>1 DEF AtWork
  <2>. QED
    BY <1>3, <2>1, Zenon DEF Refuses
<1>5. ~Ran(r, i - 1, "identify")
  BY <1>2, RanIsBefore
<1>6. After(r, Databases(r, any), i - 1) = After(r, Databases(r, content), i - 1)
  BY <1>5, Zenon DEF After, AfterIdentify
<1>7. AtWork(c, i, any)
  BY <1>1, <1>2, <1>4, <1>6 DEF AtWork
<1>. QED
  BY <1>7

(* A custom path is parsed for this call alone. *)
LEMMA LoadCustomKeeps ==
    ASSUME Inv, Watch, NEW c \in Callers, LoadCustom(c)
    PROVE  CallerInv(c)'
<1>1. at[c] = "signatures" /\ request[c].custom /\ request' = request /\ bundle' = bundle /\ disk' = disk
  BY DEF LoadCustom, shared
<1>2. disk \in seen[c] /\ PhaseOf(c) = "signatures"
  BY <1>1 DEF Inv, TypeInv, PhaseOf
<1>3. PICK i \in Nat : AtWork(c, i, disk)
  BY <1>1, <1>2, AnyContentBefore
<1>4. Databases(request[c], disk) = disk
  BY <1>1 DEF Databases
<1>. DEFINE loaded == IF disk = None THEN None ELSE ParseAll(disk)
<1>5. IF loaded = None THEN Fail(c)
      ELSE Advance(c) /\ signatures' = [signatures EXCEPT ![c] = loaded] /\ UNCHANGED features
  BY Zenon DEF LoadCustom
<1>6. Refuses(request[c], disk, "signatures") => loaded = None
  BY ParsedOrRefused
<1>7. ~Refuses(request[c], disk, "signatures") => disk # None
  BY DEF Refuses
<1>8. ~Refuses(request[c], disk, "signatures") => loaded = disk /\ loaded # None
  BY <1>7, ParsedOrRefused
<1>. HIDE DEF loaded
<1>. QED
  BY <1>1, <1>2, <1>3, <1>4, <1>5, <1>6, <1>8, SignaturesKeep

(* The embedded signatures are ready. *)
LEMMA UseEmbeddedKeeps ==
    ASSUME Inv, Watch, NEW c \in Callers, UseEmbedded(c)
    PROVE  CallerInv(c)'
<1>1. /\ at[c] = "signatures" /\ ~request[c].custom /\ request' = request /\ bundle' = bundle /\ disk' = disk
      /\ embedded.value = ParseAll(bundle) /\ bundle # None
  BY DatabaseListsAssumption DEF UseEmbedded, shared, Inv, SharedInv
<1>2. disk \in seen[c] /\ PhaseOf(c) = "signatures"
  BY <1>1 DEF Inv, TypeInv, PhaseOf
<1>3. PICK i \in Nat : AtWork(c, i, disk)
  BY <1>1, <1>2, AnyContentBefore
<1>4. Databases(request[c], disk) = bundle
  BY <1>1 DEF Databases
<1>5. IF embedded.value = None THEN Fail(c)
      ELSE Advance(c) /\ signatures' = [signatures EXCEPT ![c] = embedded.value] /\ UNCHANGED features
  BY DEF UseEmbedded
<1>6. Refuses(request[c], bundle, "signatures") => embedded.value = None
  BY <1>1, ParsedOrRefused
<1>7. ~Refuses(request[c], bundle, "signatures") => embedded.value = bundle /\ embedded.value # None
  BY <1>1, ParsedOrRefused
<1>. QED
  BY <1>1, <1>2, <1>3, <1>4, <1>5, <1>6, <1>7, SignaturesKeep

(* The document is built from what was gathered. *)
LEMMA BuildKeeps ==
    ASSUME Inv, Watch, NEW c \in Callers, Build(c)
    PROVE  CallerInv(c)'
<1>. DEFINE r == request[c]
            p == Pipeline(request[c])
<1>1. at[c] = "document" /\ request' = request /\ bundle' = bundle /\ disk' = disk /\ PhaseOf(c) = at[c]
  BY DEF Build, shared, PhaseOf
<1>2. PICK content \in seen[c], i \in Nat : AtWork(c, i, content)
  BY <1>1, WorkOfCaller
<1>. DEFINE d == Databases(request[c], content)
<1>3. Fails(r, "document") <=> Refuses(r, d, "document")
  BY FailsIsRefuses
<1>4. CASE Fails(r, "document")
  <2>1. Fail(c)
    BY <1>4 DEF Build
  <2>2. at[c] # "returned" /\ Refuses(r, d, at[c])
    BY <1>1, <1>3, <1>4
  <2>. QED
    BY <1>1, <1>2, <2>1, <2>2, FailureIsAlone, Zenon
<1>5. CASE ~Fails(r, "document")
  <2>1. at'[c] = "returned" /\ result'[c] = Document(r, features[c])
    BY <1>5 DEF Build, Return, Inv, TypeInv
  <2>2. i = Len(p) /\ Resolve(r) # None /\ features[c] = After(r, d, Len(p) - 1)
    BY <1>1, <1>2, PipelineIsAList DEF AtWork, IsPhaseList
  <2>3. \A j \in DOMAIN p : ~Refuses(r, d, p[j])
    <3>1. \A j \in 1 .. (i - 1) : ~Refuses(r, d, p[j])
      BY <1>2 DEF AtWork
    <3>2. p[i] = "document" /\ DOMAIN p = 1 .. i
      BY <2>2, PipelineIsAList DEF IsPhaseList
    <3>. HIDE DEF d, p
    <3>. QED
      BY <1>3, <1>5, <3>1, <3>2
  <2>4. d # None => d \in Seq(Range(d))
    BY DatabaseListsAssumption DEF Inv, TypeInv, SharedInv, Databases
  <2>5. result'[c] = Alone(r, d)
    BY <2>1, <2>2, <2>3, <2>4, SuccessIsDocument
  <2>6. content \in seen'[c]
    BY <1>1, <2>1, HistoryOfCaller DEF Inv
  <2>7. Databases(request[c], content)' = d
    BY <1>1 DEF Databases
  <2>. QED
    BY <1>1, <2>1, <2>5, <2>6, <2>7 DEF CallerInv
<1>. QED
  BY <1>4, <1>5

(* Waiting for the bundled signatures, and having initialised them. *)
LEMMA EmbeddedKeeps ==
    ASSUME Inv, Watch, NEW c \in Callers, BeginEmbedded(c) \/ EndEmbedded(c)
    PROVE  CallerInv(c)'
<1>1. /\ at[c] \in {"signatures", "initialising"} /\ at'[c] \in {"signatures", "initialising"}
      /\ request' = request /\ bundle' = bundle /\ disk' = disk
      /\ signatures' = signatures /\ features' = features /\ result' = result
  BY DEF BeginEmbedded, EndEmbedded, shared, Inv, TypeInv
<1>2. PICK content \in seen[c], i \in Nat : AtWork(c, i, content)
  BY <1>1, WorkOfCaller
<1>3. PhaseOf(c) = "signatures" /\ PhaseOf(c)' = "signatures"
  BY <1>1 DEF PhaseOf
<1>4. Databases(request[c], content)' = Databases(request[c], content)
  BY <1>1 DEF Databases
<1>5. AtWork(c, i, content)'
  BY <1>1, <1>2, <1>3, <1>4 DEF AtWork
<1>6. content \in seen'[c] /\ result[c] = None
  BY <1>1, HistoryOfCaller, WorkOfCaller DEF Inv
<1>. QED
  BY <1>1, <1>5, <1>6 DEF CallerInv

(* The bundled signatures, once ready, are those of the bundle. *)
LEMMA SharedKeeps ==
    ASSUME Inv, NEW c \in Callers, Step(c)
    PROVE  SharedInv'
<1>1. bundle' = bundle /\ disk' = disk
  BY StepIsOwn DEF Inv
<1>2. CASE embedded' = embedded
  BY <1>1, <1>2 DEF Inv, SharedInv
<1>3. CASE BeginEmbedded(c)
  BY <1>1, <1>3 DEF Inv, SharedInv, BeginEmbedded, Claims, Loading
<1>4. CASE EndEmbedded(c)
  BY <1>1, <1>4 DEF Inv, SharedInv, EndEmbedded, Publish, Ready
<1>. QED
  BY <1>2, <1>3, <1>4 DEF Step, Dispatch, RunPhase, LoadCustom, UseEmbedded, Build

----------------------------------------------------------------------------
(* Theorems. *)

(* Every caller starts with nothing gathered. *)
LEMMA InitInv == Init => Inv
<1>. SUFFICES ASSUME Init PROVE Inv
  OBVIOUS
<1>1. TypeInv /\ SharedInv
  BY DEF Init, TypeInv, SharedInv, Unset
<1>2. \A c \in Callers : CallerInv(c)
  BY DEF Init, CallerInv
<1>. QED
  BY <1>1, <1>2 DEF Inv

(* A step of one caller keeps what is true of it and of the others. *)
LEMMA NextInv == Inv /\ [Next]_vars => Inv'
<1>. SUFFICES ASSUME Inv, [Next]_vars PROVE Inv'
  OBVIOUS
<1>1. CASE UNCHANGED vars
  BY <1>1 DEF Inv, TypeInv, SharedInv, CallerInv, AtWork, PhaseOf, Databases, vars, shared
<1>2. ASSUME EditDisk, Watch PROVE Inv'
  <2>1. request' = request /\ bundle' = bundle /\ disk' \in Disks /\ at' = at /\ embedded' = embedded
    BY <1>2 DEF EditDisk
  <2>2. \A c \in Callers : Kept(c)
    BY <1>2 DEF EditDisk, Kept
  <2>3. TypeInv'
    BY <1>2, <2>1 DEF EditDisk, Inv, TypeInv, Watch
  <2>4. SharedInv'
    BY <2>1 DEF Inv, SharedInv
  <2>5. \A c \in Callers : CallerInv(c)'
    BY <1>2, <2>1, <2>2, OthersKeep DEF Inv
  <2>. QED
    BY <2>3, <2>4, <2>5 DEF Inv
<1>3. ASSUME NEW c \in Callers, Step(c), Watch PROVE Inv'
  <2>1. /\ at[c] # "returned" /\ request' = request /\ bundle' = bundle /\ disk' = disk
        /\ \A x \in Callers \ {c} : Kept(x)
        /\ DOMAIN at' = Callers /\ DOMAIN signatures' = Callers /\ DOMAIN features' = Callers
        /\ DOMAIN result' = Callers
    BY <1>3, StepIsOwn DEF Inv
  <2>2. TypeInv'
    <3>1. DOMAIN seen' = Callers
      BY <1>3 DEF Watch
    <3>2. \A x \in Callers : seen'[x] \subseteq Disks
      BY <1>3, <2>1 DEF Watch, Inv, TypeInv, SharedInv
    <3>3. \A x \in Callers : at[x] = "returned" => at'[x] = "returned"
      BY <2>1 DEF Kept
    <3>4. \A x \in Callers : at'[x] # "returned" => disk' \in seen'[x]
      BY <1>3, <3>3 DEF Watch
    <3>. QED
      BY <2>1, <3>1, <3>2, <3>4 DEF TypeInv
  <2>3. SharedInv'
    BY <1>3, SharedKeeps
  <2>4. CallerInv(c)'
    BY <1>3, DispatchKeeps, RunPhaseKeeps, LoadCustomKeeps, EmbeddedKeeps, UseEmbeddedKeeps, BuildKeeps DEF Step
  <2>5. \A x \in Callers \ {c} : CallerInv(x)'
    BY <1>3, <2>1, OthersKeep DEF Inv
  <2>. QED
    BY <2>2, <2>3, <2>4, <2>5 DEF Inv
<1>. QED
  BY <1>1, <1>2, <1>3 DEF Next

(* For all callers, requests, bundles and contents: what a caller has       *)
(* gathered is what its own request gives in the phases behind it           *)
(* (analyze).                                                               *)
THEOREM Invariance == Spec => []Inv
BY InitInv, NextInv, PTL DEF Spec

(* analyze, for any callers, requests, bundled signatures and contents of   *)
(* the custom path: whoever runs at the same time, initialises the bundled  *)
(* signatures or edits the path, a caller gets what it would get alone.     *)
THEOREM CallersDoNotInterfere == Spec => []SameAsAlone
<1>1. Inv => SameAsAlone
  BY DEF Inv, CallerInv, SameAsAlone
<1>. QED
  BY <1>1, Invariance, PTL

(* get_or_init of flirt.rs runs its closure in one caller at a time, and    *)
(* the value that it leaves, an error as much as a success, is never        *)
(* replaced: the databases that two callers get from it are the same.       *)
OneInitialiser ==
    /\ \A c \in Callers : at[c] = "initialising" => embedded = Loading(c)
    /\ embedded.state = "unset" => embedded = Unset
EmbeddedIsKept == embedded.state = "ready" => embedded' = embedded

(* For any callers: one initialiser, and the embedded value stays.         *)
THEOREM EmbeddedOnce == Spec => []OneInitialiser /\ [][EmbeddedIsKept]_vars
<1>1. Init => OneInitialiser
  BY DEF Init, OneInitialiser, Unset
<1>2. Inv /\ OneInitialiser /\ [Next]_vars => OneInitialiser' /\ [EmbeddedIsKept]_vars
  <2>. SUFFICES ASSUME Inv, OneInitialiser, [Next]_vars PROVE OneInitialiser' /\ EmbeddedIsKept
    OBVIOUS
  <2>1. CASE UNCHANGED vars
    BY <2>1 DEF vars, OneInitialiser, EmbeddedIsKept
  <2>2. CASE EditDisk
    BY <2>2 DEF EditDisk, OneInitialiser, EmbeddedIsKept
  <2>3. ASSUME NEW c \in Callers, Step(c) PROVE OneInitialiser' /\ EmbeddedIsKept
    <3>1. \A x \in Callers \ {c} : at'[x] = at[x]
      BY <2>3, StepIsOwn DEF Inv, Kept
    <3>2. CASE BeginEmbedded(c)
      <4>1. embedded.state = "unset" /\ embedded' = Loading(c)
        BY <3>2 DEF BeginEmbedded, Claims
      <4>2. \A x \in Callers : at[x] # "initialising"
        BY <4>1 DEF OneInitialiser, Loading
      <4>. QED
        BY <3>1, <4>1, <4>2 DEF OneInitialiser, EmbeddedIsKept, Loading
    <3>3. CASE EndEmbedded(c)
      <4>1. /\ embedded = Loading(c) /\ embedded' = Ready(ParseAll(bundle)) /\ at'[c] = "signatures"
        BY <3>3 DEF EndEmbedded, OneInitialiser, Publish, Inv, TypeInv
      <4>2. \A x \in Callers : at[x] = "initialising" => x = c
        BY <4>1 DEF OneInitialiser, Loading
      <4>. QED
        BY <3>1, <4>1, <4>2 DEF OneInitialiser, EmbeddedIsKept, Loading, Ready
    <3>4. CASE ~BeginEmbedded(c) /\ ~EndEmbedded(c)
      <4>1. embedded' = embedded
        BY <2>3, <3>4 DEF Step, Dispatch, RunPhase, LoadCustom, UseEmbedded, Build
      <4>2. at'[c] # "initialising"
        <5>1. Resolve(request[c]) # None => Head(Pipeline(request[c])) # "initialising"
          BY PipelineIsOneOf
        <5>2. CASE Dispatch(c)
          BY <5>1, <5>2 DEF Dispatch, Return, Inv, TypeInv
        <5>3. CASE RunPhase(c) \/ LoadCustom(c) \/ UseEmbedded(c) \/ Build(c)
          <6>1. Advance(c) \/ at'[c] = "returned"
            BY <5>3 DEF RunPhase, LoadCustom, UseEmbedded, Build, Fail, Return, Inv, TypeInv
          <6>2. at[c] \notin {"start", "returned", "initialising"}
            BY <5>3 DEF RunPhase, LoadCustom, UseEmbedded, Build
          <6>3. PICK i \in Nat : i \in DOMAIN Pipeline(request[c]) /\ Pipeline(request[c])[i] = at[c]
            BY <6>2, WorkOfCaller DEF AtWork, PhaseOf
          <6>4. Advance(c) => at'[c] = Following(c)
            BY DEF Advance, Inv, TypeInv
          <6>5. Advance(c) /\ at[c] # "document" => at'[c] # "initialising"
            <7>1. at[c] # "document" => i + 1 \in DOMAIN Pipeline(request[c]) /\ Following(c) = Pipeline(request[c])[i + 1]
              BY <6>3, FollowingIsNext
            <7>2. \A k \in DOMAIN Pipeline(request[c]) : Pipeline(request[c])[k] # "initialising"
              BY PipelineIsAList DEF IsPhaseList
            <7>. QED
              BY <6>4, <7>1, <7>2
          <6>6. at[c] = "document" => at'[c] = "returned"
            BY <5>3 DEF RunPhase, LoadCustom, UseEmbedded, Build, Fail, Return, Inv, TypeInv
          <6>. QED
            BY <6>1, <6>5, <6>6
        <5>. QED
          BY <2>3, <3>4, <5>2, <5>3 DEF Step
      <4>. QED
        BY <3>1, <4>1, <4>2 DEF OneInitialiser, EmbeddedIsKept
    <3>. QED
      BY <3>2, <3>3, <3>4
  <2>. QED
    BY <2>1, <2>2, <2>3 DEF Next
<1>. QED
  BY <1>1, <1>2, Invariance, PTL DEF Spec
=============================================================================
