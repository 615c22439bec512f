------------------------------ MODULE Analysis ------------------------------
(***************************************************************************)
(* capa-x/src/api.rs: analyze, the library entry point, as several callers *)
(* of one process use it at the same time.  A call picks a format, runs    *)
(* that format's phases in order up to the first that fails, matches the   *)
(* rules and builds a document.  Two things are shared: the bundled        *)
(* signatures, which the first caller that needs them loads for everyone   *)
(* (the OnceLock of flirt.rs), and the file system that a custom signature *)
(* path is read from.                                                      *)
(*                                                                         *)
(* What a phase computes from its bytes is the subject of other modules.   *)
(* Here an input says which magic numbers it has, which phases fail on it, *)
(* and what its extractor, its recovered code and each database have to    *)
(* say about it.                                                           *)
(***************************************************************************)
EXTENDS Integers, Sequences, SequencesExt, FiniteSets, FiniteSetsExt, TLC

CONSTANTS
    Callers,    \* threads that call analyze
    Requests,   \* options and input of a call
    Bundles,    \* possible contents of DEFAULT_SIGNATURES
    Disks,      \* possible contents of the custom signature path; None: no such path
    BadDatabase,    \* a database that parse_database refuses
    MaxEdits,   \* how often the custom path changes
    None        \* Option::None

(* Databases come in a list, and there is always a list of bundled ones. *)
ASSUME DatabaseListsAssumption ==
    /\ None \notin Bundles
    /\ \A d \in Bundles \union (Disks \ {None}) : d \in Seq(Range(d))

VARIABLES
    request,    \* the call of each caller
    bundle,     \* DEFAULT_SIGNATURES
    disk,       \* the databases under the custom path
    edits,      \* how often it has changed
    at,         \* the phase each caller is about to run
    signatures, \* the databases a PE analysis works with
    features,   \* what load_input has gathered
    embedded,   \* the OnceLock: its state, who is initialising it, its value
    result,     \* what analyze returned
    seen        \* history: what the custom path has held since a caller began

shared == <<bundle, disk, edits>>
vars == <<request, shared, at, signatures, features, embedded, result, seen>>

----------------------------------------------------------------------------
(* load_input: explicit formats first, then the order of auto detection.    *)
(* Mach-O and shellcode are never guessed.                                  *)
Detected(input) ==
    IF "dotnet" \in input.looks THEN "dotnet"
    ELSE IF "pe" \in input.looks THEN "pe"
    ELSE IF "elf" \in input.looks THEN "elf"
    ELSE IF "freeze" \in input.looks \/ ("json" \in input.looks /\ "parse" \notin input.fails) THEN "freeze"
    ELSE None
Resolve(r) == IF r.format = "auto" THEN Detected(r.input) ELSE r.format

Shellcode == {"sc32", "sc64"}

(* The phases of each format, up to the rules and the document.  A .NET     *)
(* file has no file-only variant; that of shellcode does nothing that could *)
(* fail.                                                                    *)
Phases(kind, fileOnly) ==
    IF kind = "dotnet" THEN <<"load", "extract", "match", "document">>
    ELSE IF kind = "freeze" THEN <<"parse", "match", "document">>
    ELSE IF fileOnly THEN <<"extract", "match", "document">>
    ELSE IF kind = "pe" THEN <<"extract", "signatures", "recover", "identify", "enrich", "match", "document">>
    ELSE <<"extract", "recover", "enrich", "match", "document">>
Pipeline(r) == Phases(Resolve(r), r.fileOnly)

(* AnalysisError and its exit code. *)
E_CORRUPT_FILE == 13
E_INVALID_SIG == 15
E_INVALID_FILE_TYPE == 16
Failure(kind, phase) ==
    [error |-> <<kind, phase>>,
     exit |-> IF kind = None THEN E_INVALID_FILE_TYPE
              ELSE IF phase \in {"signatures", "identify"} THEN E_INVALID_SIG ELSE E_CORRUPT_FILE]

(* extract_sc and enrich_static_features have no way to fail. *)
Fails(r, phase) == phase \in r.input.fails /\ phase # "enrich" /\ ~(phase = "extract" /\ Resolve(r) \in Shellcode)

----------------------------------------------------------------------------
(* The features a document is built from. *)
NoFeatures == [format |-> None, os |-> None, sections |-> {}, names |-> {}, functions |-> {}, libraries |-> <<>>]

(* extract_pe and its like.  file_only_input makes the format a file        *)
(* feature, so that it is no longer a global one; Mach-O and shellcode do   *)
(* not go through it.  The extractors of .NET do the functions as well.     *)
Extracted(r) ==
    LET kind == Resolve(r)
    IN  [NoFeatures EXCEPT
            !.format = IF r.fileOnly /\ kind \in {"pe", "elf"} THEN None ELSE r.input.format,
            !.os = IF kind \in Shellcode THEN r.os ELSE r.input.os,
            !.sections = r.input.sections.file,
            !.functions = IF kind \in {"dotnet", "freeze"} THEN r.input.functions ELSE {}]

(* identify_library_functions: the first database that knows a function     *)
(* names it.                                                                *)
Knowing(input, databases, f) == SelectInSeq(databases, LAMBDA d : f \in DOMAIN input.names[d])
Identified(input, databases) ==
    LET known == {f \in input.functions : Knowing(input, databases, f) # 0}
    IN  [f \in known |-> input.names[databases[Knowing(input, databases, f)]][f]]

(* extract_pe_input and enrich_static_features: on x86 the sections become  *)
(* those of the image; every library name is a feature, also without its    *)
(* underscore; library functions are left out.                              *)
Enriched(r, gathered) ==
    LET libraries == gathered.libraries
    IN  [gathered EXCEPT
            !.sections = IF Resolve(r) = "pe" /\ r.input.arch = "x86" THEN r.input.sections.image ELSE @,
            !.names = UNION {{libraries[f]} \union (IF Head(libraries[f]) = "_" THEN {Tail(libraries[f])} ELSE {})
                                : f \in DOMAIN libraries},
            !.functions = r.input.functions \ DOMAIN libraries]

(* build_static_metadata and build_dynamic_metadata: a global feature, or   *)
(* what was asked for.                                                      *)
Document(r, gathered) ==
    [error |-> None, flavor |-> r.input.flavor,
     format |-> IF gathered.format # None THEN gathered.format ELSE Resolve(r),
     os |-> IF gathered.os # None THEN gathered.os ELSE IF r.os # None THEN r.os ELSE "unknown",
     sections |-> gathered.sections, names |-> gathered.names, functions |-> gathered.functions,
     libraries |-> gathered.libraries]

----------------------------------------------------------------------------
Unset == [state |-> "unset", by |-> None, value |-> None]
Loading(c) == [state |-> "loading", by |-> c, value |-> None]
Ready(v) == [state |-> "ready", by |-> None, value |-> v]

(* try_map over the databases: all of them, or an error. *)
ParseAll(databases) == IF BadDatabase \in Range(databases) THEN None ELSE databases

Init ==
    /\ request \in [Callers -> Requests]
    /\ bundle \in Bundles
    /\ disk \in Disks
    /\ edits = 0
    /\ at = [c \in Callers |-> "start"]
    /\ signatures = [c \in Callers |-> <<>>]
    /\ features = [c \in Callers |-> NoFeatures]
    /\ embedded = Unset
    /\ result = [c \in Callers |-> None]
    /\ seen = [c \in Callers |-> {disk}]

(* The phase after this one. *)
Following(c) == LET p == Pipeline(request[c]) IN p[SelectInSeq(p, LAMBDA x : x = at[c]) + 1]
Return(c, r) == at' = [at EXCEPT ![c] = "returned"] /\ result' = [result EXCEPT ![c] = r]
Fail(c) == Return(c, Failure(Resolve(request[c]), at[c])) /\ UNCHANGED <<signatures, features>>
Advance(c) == at' = [at EXCEPT ![c] = Following(c)] /\ UNCHANGED result

(* load_input, the dispatch *)
Dispatch(c) ==
    /\ at[c] = "start"
    /\ IF Resolve(request[c]) = None
       THEN Return(c, Failure(None, "start"))
       ELSE at' = [at EXCEPT ![c] = Head(Pipeline(request[c]))] /\ UNCHANGED result
    /\ UNCHANGED <<request, shared, signatures, features, embedded>>

(* A phase that needs nothing of the other callers. *)
Gathered(c) ==
    LET r == request[c]
    IN  CASE at[c] \in {"extract", "parse"} -> Extracted(r)
          [] at[c] = "identify" -> [features[c] EXCEPT !.libraries = Identified(r.input, signatures[c])]
          [] at[c] = "enrich" -> Enriched(r, features[c])
          [] OTHER -> features[c]
RunPhase(c) ==
    /\ at[c] \in {"load", "extract", "parse", "recover", "identify", "enrich", "match"}
    /\ IF Fails(request[c], at[c]) THEN Fail(c)
       ELSE Advance(c) /\ features' = [features EXCEPT ![c] = Gathered(c)] /\ UNCHANGED signatures
    /\ UNCHANGED <<request, shared, embedded>>

\* Mutant: a custom path is not read when signatures are there already.
LoadCustom_Cached(c) ==
    /\ at[c] = "signatures" /\ request[c].custom
    /\ \E loaded \in {IF embedded.state = "ready" THEN embedded.value
                      ELSE IF disk = None THEN None ELSE ParseAll(disk)} :
         IF loaded = None THEN Fail(c)
         ELSE Advance(c) /\ signatures' = [signatures EXCEPT ![c] = loaded] /\ UNCHANGED features
    /\ UNCHANGED <<request, shared, embedded>>

(* Signatures::from_path: read again on every analysis. *)
LoadCustom(c) ==
    /\ at[c] = "signatures" /\ request[c].custom
    /\ \E loaded \in {IF disk = None THEN None ELSE ParseAll(disk)} :
         IF loaded = None THEN Fail(c)
         ELSE Advance(c) /\ signatures' = [signatures EXCEPT ![c] = loaded] /\ UNCHANGED features
    /\ UNCHANGED <<request, shared, embedded>>

(* Signatures::embedded: get_or_init.  One caller initialises, the others   *)
(* wait; an error is kept like any other value.                             *)
Claims(c) == embedded.state = "unset" /\ embedded' = Loading(c)

\* Mutant: an error is not kept, and the next caller tries again.
Publish_Retries(c) == embedded' = IF ParseAll(bundle) = None THEN Unset ELSE Ready(ParseAll(bundle))

Publish(c) == embedded' = Ready(ParseAll(bundle))

BeginEmbedded(c) ==
    /\ at[c] = "signatures" /\ ~request[c].custom
    /\ Claims(c)
    /\ at' = [at EXCEPT ![c] = "initialising"]
    /\ UNCHANGED <<request, shared, signatures, features, result>>
EndEmbedded(c) ==
    /\ at[c] = "initialising"
    /\ embedded.by = c
    /\ Publish(c)
    /\ at' = [at EXCEPT ![c] = "signatures"]
    /\ UNCHANGED <<request, shared, signatures, features, result>>
UseEmbedded(c) ==
    /\ at[c] = "signatures" /\ ~request[c].custom
    /\ embedded.state = "ready"
    /\ IF embedded.value = None THEN Fail(c)
       ELSE Advance(c) /\ signatures' = [signatures EXCEPT ![c] = embedded.value] /\ UNCHANGED features
    /\ UNCHANGED <<request, shared, embedded>>

(* build_result_document *)
Build(c) ==
    /\ at[c] = "document"
    /\ IF Fails(request[c], "document") THEN Fail(c)
       ELSE Return(c, Document(request[c], features[c])) /\ UNCHANGED <<signatures, features>>
    /\ UNCHANGED <<request, shared, embedded>>

Step(c) ==
    \/ Dispatch(c) \/ RunPhase(c) \/ LoadCustom(c)
    \/ BeginEmbedded(c) \/ EndEmbedded(c) \/ UseEmbedded(c)
    \/ Build(c)

(* Someone replaces the files under the custom path, while a caller is at   *)
(* work that reads it.                                                      *)
EditDisk ==
    /\ edits < MaxEdits
    /\ \E c \in Callers : at[c] # "returned" /\ request[c].custom
    /\ disk' \in Disks \ {disk}
    /\ edits' = edits + 1
    /\ UNCHANGED <<request, bundle, at, signatures, features, embedded, result>>

Watch ==
    seen' = [c \in Callers |-> IF at[c] = "returned" THEN seen[c]
                               ELSE IF at'[c] = "start" THEN {disk'} ELSE seen[c] \union {disk'}]

Next == (EditDisk \/ \E c \in Callers : Step(c)) /\ Watch

(* Every caller is a thread of its own that the system schedules. *)
Fairness == \A c \in Callers : WF_vars(Step(c) /\ Watch)
Spec == Init /\ [][Next]_vars /\ Fairness

----------------------------------------------------------------------------
(* Properties.  What analyze returns to a caller that is alone in the       *)
(* process and has these databases.                                         *)
Precedence == <<"dotnet", "pe", "elf", "freeze">>
Kind(r) ==
    LET found == {i \in DOMAIN Precedence : Precedence[i] \in r.input.looks}
    IN  IF r.format # "auto" THEN r.format
        ELSE IF found # {} THEN Precedence[Min(found)]
        ELSE IF "json" \in r.input.looks /\ "parse" \notin r.input.fails THEN "freeze" ELSE None

(* A phase that nothing can make up for. *)
Refuses(r, databases, phase) ==
    IF phase = "signatures"
    THEN databases = None \/ BadDatabase \in Range(databases)
    ELSE phase \in r.input.fails /\ phase # "enrich" /\ ~(phase = "extract" /\ Kind(r) \in Shellcode)

(* The functions that a database knows, by the name of the first to do so. *)
Libraries(r, databases) ==
    LET knowing(f) == {i \in DOMAIN databases : f \in DOMAIN r.input.names[databases[i]]}
    IN  [f \in {g \in r.input.functions : knowing(g) # {}} |-> r.input.names[databases[Min(knowing(f))]][f]]

Alone(r, databases) ==
    LET kind == Kind(r)
        phases == Phases(kind, r.fileOnly)
        bad == {i \in DOMAIN phases : Refuses(r, databases, phases[i])}
        whole == kind = "pe" /\ ~r.fileOnly
        named == IF whole THEN Libraries(r, databases) ELSE <<>>
    IN  IF kind = None THEN [error |-> <<None, "start">>, exit |-> E_INVALID_FILE_TYPE]
        ELSE IF bad # {}
        THEN [error |-> <<kind, phases[Min(bad)]>>,
              exit |-> IF phases[Min(bad)] \in {"signatures", "identify"} THEN E_INVALID_SIG ELSE E_CORRUPT_FILE]
        ELSE [error |-> None, flavor |-> r.input.flavor,
              format |-> IF r.input.format = None \/ (r.fileOnly /\ kind \in {"pe", "elf"}) THEN kind ELSE r.input.format,
              os |-> IF kind \notin Shellcode /\ r.input.os # None THEN r.input.os
                     ELSE IF r.os # None THEN r.os ELSE "unknown",
              sections |-> IF whole /\ r.input.arch = "x86" THEN r.input.sections.image ELSE r.input.sections.file,
              names |-> UNION {{n, IF Head(n) = "_" THEN Tail(n) ELSE n} : n \in Range(named)},
              functions |-> IF r.fileOnly /\ kind \notin {"dotnet", "freeze"} THEN {}
                            ELSE r.input.functions \ DOMAIN named,
              libraries |-> named]

(* The bundle, or what was under the custom path. *)
Databases(r, content) == IF r.custom THEN content ELSE bundle

(* parallel.rs: "analyses in one process cannot interfere".  A caller gets  *)
(* what it would get alone, with databases that the custom path held while  *)
(* it ran, whoever initialised the bundled signatures and with what result. *)
SameAsAlone ==
    \A c \in Callers : result[c] # None =>
        \E content \in seen[c] : result[c] = Alone(request[c], Databases(request[c], content))

(* Every caller gets an answer: no one waits for ever for the signatures.   *)
EveryAnalysisEnds == \A c \in Callers : <>(result[c] # None)
=============================================================================
