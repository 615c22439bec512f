----------------------------- MODULE MCAnalysis -----------------------------
(***************************************************************************)
(* Two questions, two kinds of behaviour.                                  *)
(*                                                                         *)
(* With job = None, callers analyse concurrently (Analysis).  Otherwise    *)
(* job is one phase of one analysis at work on a small input, step by      *)
(* step: a file that is loaded and searched for starts of functions        *)
(* (Loader, Seeds) or for its system (ElfOs), a run of instructions        *)
(* in the emulator beside a processor that has all its bits (Emulator,     *)
(* Cpu), and functions that are completed and named one after the other    *)
(* (Flirt).                                                                *)
(***************************************************************************)
EXTENDS Analysis

CONSTANTS
    Slices,     \* values of --arch for Mach-O files
    MaxRun      \* instructions in a run of the emulator

VARIABLE
    job         \* the phase under examination

mcVars == <<vars, job>>

F == INSTANCE MCFiles WITH
    Limit <- 63, ByteBase <- 8, PointerWidth <- 2, MaxMapped <- 40, MaxCarved <- 2, MaxDelay <- 2, MaxThunks <- 3,
    MaxChain <- 3, DynBase <- 20, AArch64DynBase <- 24, ShellcodeBase <- 10, HeaderSize <- 4, CommandAlign <- 2,
    Stride <- 2, MaxFixupSegments <- 4, MaxScan <- 30, MaxPrologues <- 2, MaxSweep <- 1, SparseSeeds <- 3,
    MaxArray <- 3, MaxStub <- 4, Prologues <- {<<3, 4>>, <<3, 1>>, <<3>>}, Signatures <- {<<3, None, 4>>},
    Opcodes <- [invalid |-> {7}, push |-> {3}, call |-> {5}, plausible |-> {3, 4}]
E == INSTANCE Cpu WITH
    ByteBits <- 2, PointerWidth <- 4, StackBase <- 120, StackSlots <- 2, StackSize <- 32, Fill <- 1, TimeStamp <- 65
L == INSTANCE MCFlirt WITH PrefixLength <- 2, Never <- 99

----------------------------------------------------------------------------
(* Requests. *)

(* Functions 1 and 2; database 1 knows one of them, database 2 both. *)
Names == 1 :> (1 :> <<"_", "a">>) @@ 2 :> (1 :> <<"b">> @@ 2 :> <<"c">>) @@ BadDatabase :> <<>>
Input(looks, format, fails) ==
    [looks |-> looks, format |-> format, fails |-> fails, flavor |-> "static", os |-> "windows", arch |-> "x86",
     sections |-> [file |-> {".text"}, image |-> {"PE_Header", ".text"}], functions |-> {1, 2}, names |-> Names]
Call(format, fileOnly, custom, input) ==
    [format |-> format, fileOnly |-> fileOnly, custom |-> custom, os |-> None, input |-> input]

Sample == Input({"pe"}, "pe", {})
PeCalls ==
    {Call("auto", FALSE, custom, [Sample EXCEPT !.fails = f]) : custom \in BOOLEAN, f \in {{}, {"recover", "match"}}}
    \union {Call("pe", o, FALSE, [Input({"pe", "dotnet"}, "pe", f) EXCEPT !.arch = "arm64"]) :
               o \in BOOLEAN, f \in {{}, {"extract"}, {"identify", "document"}}}
OtherCalls ==
    {Call("auto", o, FALSE, Input(l, Head(SetToSeq(l)), f)) :
        o \in BOOLEAN, l \in {{"pe", "dotnet"}, {"elf"}}, f \in {{}, {"load"}, {"extract", "recover"}, {"recover"}}}
    \union {Call("macho", o, FALSE, Input({}, "macho", f)) : o \in BOOLEAN, f \in {{}, {"recover"}}}
    \union {[Call("sc32", o, FALSE, [Input({"pe"}, None, f) EXCEPT !.os = None]) EXCEPT !.os = s] :
               o \in BOOLEAN, f \in {{"extract"}, {"recover"}}, s \in {None, "linux"}}
    \union {Call(k, FALSE, FALSE, [Input(l, None, f) EXCEPT !.flavor = "dynamic"]) :
               k \in {"auto", "freeze"}, l \in {{"freeze"}, {"json"}, {}}, f \in {{}, {"parse"}}}
SomeRequests == PeCalls \union OtherCalls
SomeBundles == {<<1, 2>>, <<2, BadDatabase>>}
SomeDisks == {<<2, 1>>, <<1, BadDatabase>>, None}
AnySlice == {None}
EitherSlice == {None, "arm64"}

----------------------------------------------------------------------------
(* Jobs. *)

FileJobs == {[kind |-> "file", file |-> f, compat |-> c, arch |-> a, stage |-> "read", image |-> None, seeds |-> {}] :
                f \in F!Files, c \in BOOLEAN, a \in Slices}
RunJobs == {[kind |-> "run", special |-> s, ran |-> 0, abstract |-> E!EntryState, machine |-> m] :
               s \in BOOLEAN, m \in E!FirstMachines}
NameJobs == {[kind |-> "name", analysis |-> a, databases |-> d, done |-> {}, recognized |-> <<>>, names |-> None] :
                a \in L!Programs, d \in {L!FromPath(s) : s \in L!Sources} \ {None}}
ElfJobs == {[kind |-> "elf", sample |-> s, os |-> None, imports |-> None] : s \in F!ElfSamples}
TailJobs == {[kind |-> "tails", blocks |-> b, whole |-> None] : b \in L!Layouts}

At(kind) == job # None /\ job.kind = kind
Working(kind, stage) == At(kind) /\ job.stage = stage

LoadFile ==
    /\ Working("file", "read")
    /\ \E image \in {F!FromFile(job.file, job.compat, job.arch)} :
         job' = [job EXCEPT !.image = image, !.stage = IF image = None THEN "failed" ELSE "loaded"]

CollectSeeds ==
    /\ Working("file", "loaded")
    /\ \E seeds \in {F!CollectSeeds(job.file, job.image, job.compat)} :
         job' = IF seeds = None THEN [job EXCEPT !.stage = "failed"]
                ELSE [job EXCEPT !.stage = "collected", !.seeds = seeds]

AddFallbackSeeds ==
    /\ Working("file", "collected")
    /\ job' = [job EXCEPT !.stage = "seeded", !.seeds = F!FallbackSeeds(job.file, job.image, job.compat, job.seeds)]

(* extract_elf: the features that need no code. *)
ReadElf ==
    /\ At("elf")
    /\ job.os = None
    /\ job' = [job EXCEPT !.os = F!O!DetectElfOs(job.sample.elf), !.imports = F!O!DynamicImports(job.sample.elf)]

(* A run ends at an instruction that the emulator cannot go past, and where *)
(* the machine is no longer one that the emulator stands for.               *)
RunInstruction ==
    /\ At("run")
    /\ job.ran < MaxRun
    /\ \E op \in IF job.special THEN E!Special ELSE E!General :
         /\ ~E!Faults(job.abstract, op)
         /\ ~E!Departs(job.abstract, job.machine, op)
         /\ \E m \in E!Outcomes(job.machine, op) :
              job' = [job EXCEPT !.ran = @ + 1, !.machine = m,
                                 !.abstract = IF op.m = "call" THEN E!AfterCall(@) ELSE E!Step(@, op)]

(* Recovery completes the functions one by one; each may be named at once. *)
CompleteFunction ==
    /\ At("name")
    /\ job.names = None
    /\ job.done # DOMAIN job.analysis.functions
    /\ \E f \in {Min(DOMAIN job.analysis.functions \ job.done)} :
         \E r \in {L!FunctionCompleted(L!SoFar(job.analysis, job.done \union {f}), job.databases, job.recognized, f)} :
            job' = [job EXCEPT !.done = @ \union {f}, !.recognized = r.recognized,
                               !.names = IF r.failed THEN <<>> ELSE @]

IdentifyLibraries ==
    /\ At("name")
    /\ job.names = None
    /\ job.done = DOMAIN job.analysis.functions
    /\ \E r \in {L!Identify(job.analysis, job.databases)} :
         job' = [job EXCEPT !.names = IF r.failed THEN <<>> ELSE r.recognized]

GatherTails ==
    /\ At("tails")
    /\ job.whole = None
    /\ job' = [job EXCEPT !.whole = [f \in DOMAIN job.blocks |-> L!FunctionWithTailBlocks(job.blocks, f)]]

JobStep ==
    /\ \/ LoadFile \/ CollectSeeds \/ AddFallbackSeeds \/ ReadElf
       \/ RunInstruction
       \/ CompleteFunction \/ IdentifyLibraries \/ GatherTails
    /\ UNCHANGED vars

----------------------------------------------------------------------------
(* Both. *)

Idle ==
    /\ request = [c \in Callers |-> Call("auto", FALSE, FALSE, Sample)]
    /\ bundle = <<1, 2>> /\ disk = None /\ edits = 0
    /\ at = [c \in Callers |-> "returned"]
    /\ signatures = [c \in Callers |-> <<>>]
    /\ features = [c \in Callers |-> NoFeatures]
    /\ embedded = Unset
    /\ result = [c \in Callers |-> Alone(request[c], bundle)]
    /\ seen = [c \in Callers |-> {disk}]

MCInit ==
    \/ /\ Init /\ job = None
       /\ request[CHOOSE c \in Callers : TRUE] \in PeCalls
       /\ disk # None => \E c \in Callers : request[c].custom
    \/ Idle /\ job \in FileJobs \union RunJobs \union NameJobs \union TailJobs \union ElfJobs

JobEnded ==
    IF job = None THEN TRUE
    ELSE CASE job.kind = "file" -> job.stage \in {"failed", "seeded"}
           [] job.kind = "run" -> TRUE
           [] job.kind = "name" -> job.names # None
           [] job.kind = "elf" -> job.os # None
           [] OTHER -> job.whole # None
Stop == JobEnded /\ (\A c \in Callers : at[c] = "returned") /\ UNCHANGED mcVars

MCNext ==
    \/ Next /\ UNCHANGED job
    \/ JobStep
    \/ Stop

MCFairness == \A c \in Callers : WF_mcVars(Step(c) /\ Watch /\ UNCHANGED job)
MCSpec == MCInit /\ [][MCNext]_mcVars /\ MCFairness

----------------------------------------------------------------------------
(* Properties. *)

(* image.rs: an address with one owner reads the byte of the file that its  *)
(* section maps there and the way back from that byte is the address; where *)
(* the section is longer than what the file backs it reads zero; only words *)
(* that a relocation names differ.                                          *)
LoadedBytesAreTheFile ==
    At("file") => (job.image # None => F!BytesAreTheFile(job.file, job.arch, job.image))

(* recovery.rs, collect_seeds and the scans after it: every start of a      *)
(* function lies in executable memory; in an ELF file it is an address that *)
(* some table names, moved by the bias or not; in a Mach-O slice the starts *)
(* of LC_FUNCTION_STARTS are the sums of that slice's own deltas.           *)
SeedsAreSound ==
    At("file") => (job.stage \in {"collected", "seeded"} => F!SeedsAreNamed(job.file, job.arch, job.image, job.seeds))

(* elf_os.rs: "a malformed structure anywhere degrades to this one          *)
(* guess/entry contributes nothing".  Whichever header of a file is         *)
(* damaged, the strongest clue that is left decides the system, and the     *)
(* undefined symbols of a linked file are found whatever tells their        *)
(* number: either kind of hash table or what is stored behind them.         *)
ElfEvidenceIsFound ==
    At("elf") => (job.os # None => job.os = job.sample.os /\ job.imports = job.sample.imports)

(* emucode.rs: whatever the abstract machine believes to know after a run,  *)
(* of part of a register, a flag or a byte on the stack, is what a machine  *)
(* with all its bits has there, as long as the pointers that it does not    *)
(* know point off every map and the repeat counters that it does not know   *)
(* are not zero: that is what the code, after the reference emulator, takes *)
(* them for.                                                                *)
EmulatorIsSound == At("run") => E!Agrees(job.abstract, job.machine)

(* flirt.rs: the prefix index finds what a scan of all signatures finds; a  *)
(* recognised name is one that a signature gives this address whose         *)
(* references are there and that no other signature disputes, during        *)
(* recovery and at the end; a function is extracted with exactly the blocks *)
(* that its tail calls reach.                                               *)
LibraryNamesAreJustified ==
    /\ At("name") => /\ L!IndexIsAScan(job.analysis, job.databases)
                     /\ L!NamesAreJustified(job.analysis, job.databases, job.recognized)
                     /\ job.names # None => L!NamesAreJustified(job.analysis, job.databases, job.names)
    /\ At("tails") => (job.whole # None => L!TailsAreReached(job.blocks, job.whole))
=============================================================================
