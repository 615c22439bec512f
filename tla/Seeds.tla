------------------------------- MODULE Seeds --------------------------------
(* Where recovery starts: the function starts that the loader's tables name *)
(* (collect_seeds) and the ones that scans of the code guess                *)
(* (add_backend_fallback_seeds).  A seed is a pair <<address, kind>>.       *)
(*                                                                          *)
(* Decoding is external: an instruction is known by its first byte, Opcodes *)
(* gives the meaning of the bytes that matter.                              *)
EXTENDS Loader

CONSTANTS
    Opcodes,            \* [invalid, push, call, plausible: sets of bytes]
    Prologues,          \* byte patterns of the native scan
    Signatures,         \* the registered entry signatures: patterns, None is masked out
    MaxScan,            \* MAX_PROLOGUE_SCAN_BYTES
    MaxPrologues,       \* MAX_PROLOGUE_SEEDS_PER_SECTION
    MaxSweep,           \* MAX_SWEEP_CALL_SEEDS
    SparseSeeds,        \* a sweep needs at most this many seeds (128)
    MaxArray,           \* entries of a pointer array (65,536)
    MaxStub             \* MAX_STUB_INSNS

\* Mutant: any address becomes a seed.
AddSeed_Anywhere(image, a, kind) == IF a = None THEN {} ELSE {<<a, kind>>}

AddSeed(image, a, kind) ==
    IF a = None THEN {} ELSE IF IsExecutableAddress(image, a) THEN {<<a, kind>>} ELSE {}
SeedAll(image, addresses, kind) == UNION {AddSeed(image, a, kind) : a \in addresses}

(* An unrelocated slot is not a pointer; a link-time address is rebased     *)
(* where it is not executable as it stands.                                 *)
Rebased(image, v) ==
    IF v = None THEN None ELSE IF v = 0 THEN None
    ELSE IF image.bias # 0 /\ ~IsExecutableAddress(image, v) THEN SaturatingAdd(v, image.bias)
    ELSE v

Words(bytes, width) == [i \in 1..(Len(bytes) \div width) |-> SubSeq(bytes, (i - 1) * width + 1, i * width)]

----------------------------------------------------------------------------
(* collect_pe_seeds *)

(* SafeSEH: the sanity check is in four-byte units whatever the pointer     *)
(* width; nothing is taken from a table that is not wholly mapped.          *)
SafeSehSeeds(file, image) ==
    LET size == file.seh.count * PointerWidth
        raw == Exactly(BytesAt(image, file.seh.table, size), size)
    IN  IF \/ file.seh.table = 0 \/ file.seh.count = 0
           \/ file.seh.count * 4 >= Len(file.bytes)
           \/ BytesAt(image, file.seh.table, 1) = None
           \/ ~IsX86(image)
           \/ raw = None
        THEN {}
        ELSE SeedAll(image, {CheckedAdd(image.base, Word(w)) : w \in Range(Words(raw, PointerWidth))}, "SafeSeh")

(* The exception directory.  On x64 an entry is a start, a size and the     *)
(* unwind information: a fragment chained to another entry is no start, and *)
(* unwind information that is unmapped or of another version ends the walk. *)
Version(b) == b % 4
IsChained(b) == b >= ByteBase \div 2
UnwindByte(image, entry) ==
    LET a == CheckedAdd(image.base, Word(SubSeq(entry, 2 * PointerWidth + 1, 3 * PointerWidth)))
        b == IF a = None THEN None ELSE BytesAt(image, a, 1)
    IN  IF b = None THEN None ELSE IF b = <<>> THEN None ELSE b[1]
EndsUnwind(b) == IF b = None THEN TRUE ELSE Version(b) # 1
UnwindStarts(image, raw) ==
    IF image.architecture = "x64"
    THEN SelectSeq(UpToBad(Words(raw, 3 * PointerWidth), LAMBDA e : EndsUnwind(UnwindByte(image, e))),
                   LAMBDA e : ~IsChained(UnwindByte(image, e)))
    ELSE IF image.architecture = "arm64" THEN Words(raw, 2 * PointerWidth)
    ELSE <<>>
UnwindSeeds(file, image) ==
    LET read == BytesAt(image, SaturatingAdd(image.base, file.unwind.rva), file.unwind.size)
        raw == IF read = None THEN <<>> ELSE read
        begin(e) == CheckedAdd(image.base, Word(SubSeq(e, 1, PointerWidth)))
    IN  SeedAll(image, {begin(e) : e \in Range(UnwindStarts(image, raw))}, "Unwind")

(* Forwarded exports are another library's names. *)
PeSeeds(file, image) ==
    SeedAll(image, {CheckedAdd(image.base, e.rva) : e \in {x \in file.exports : ~x.forwarded}}, "Export")
    \union SeedAll(image, file.callbacks, "TlsCallback")
    \union SafeSehSeeds(file, image)
    \union (IF file.unwind = None THEN {} ELSE UnwindSeeds(file, image))
    \union SeedAll(image, {ReadWord(image, a) : a \in image.relocations}, "Relocation")

----------------------------------------------------------------------------
(* collect_elf_seeds *)

IsFunctionSymbol(s) == s.defined /\ s.value # 0 /\ s.function
SymbolSeeds(file, image) ==
    SeedAll(image, {SaturatingAdd(s.value, image.bias) : s \in {t \in file.symbols : IsFunctionSymbol(t)}},
            "Symbol")
    \union IF ~IsX86(image) THEN {}
           ELSE SeedAll(image, {CheckedAdd(s.value, image.bias) :
                    s \in {t \in file.symbols : t.defined /\ t.value # 0 /\ t.name # "" /\ ~t.function}},
                    "Emulated")

(* The names that features report, in table order and once each. *)
FunctionSymbols(file, image) ==
    {<<SaturatingAdd(s.value, image.bias), s.name>> :
        s \in {t \in file.symbols : IsFunctionSymbol(t) /\ t.name # ""}}

(* A slot bound to an import is not dereferenced; the explicit addend is    *)
(* used too, except for the type that the compatibility loader reads from   *)
(* the slot only.                                                           *)
RelocationSeeds(image, compat, r) ==
    LET location == SaturatingAdd(r.offset, image.bias)
        stored == Rebased(image, ReadWord(image, location))
    IN  IF location \in DOMAIN image.imports THEN {}
        ELSE AddSeed(image, stored, "Relocation")
             \union IF (compat /\ IsX86(image) /\ r.kind = "relative") \/ r.addend = None THEN {}
                    ELSE AddSeed(image, SaturatingAdd(r.addend, image.bias), "Relocation")

(* libc_start_main: the constant that the entry stub last put in the first  *)
(* argument before its call of __libc_start_main.  Any other transfer of    *)
(* control means that this is not the stub.                                 *)
LibcMain(file, image) ==
    LET step(acc, i) ==
            IF acc.done THEN acc
            ELSE CASE i.kind = "call" -> [done |-> TRUE, value |-> IF i.libc THEN acc.value ELSE None]
                   [] i.kind = "next" -> acc
                   [] i.kind = "argument" -> [acc EXCEPT !.value = i.value]
                   [] OTHER -> [done |-> TRUE, value |-> None]
        stub == SubSeq(file.stub, 1, Min({MaxStub, Len(file.stub)}))
        end == FoldLeft(step, [done |-> FALSE, value |-> None], stub)
    IN  IF ~IsX86(image) \/ image.entry = None \/ ~end.done THEN None ELSE end.value

(* A pointer array that is no whole number of pointers fails the recovery.  *)
ArraySeeds(image, a, size, kind) ==
    IF size % PointerWidth # 0 \/ size \div PointerWidth > MaxArray THEN None
    ELSE LET slots == {CheckedAdd(a, i * PointerWidth) : i \in 0..(size \div PointerWidth) - 1} \ {None}
         IN  SeedAll(image, {Rebased(image, ReadWord(image, slot)) : slot \in slots}, kind)

ArrayKinds == [init_array |-> "InitArray", fini_array |-> "FiniArray"]
StartKinds == [init |-> "Init", fini |-> "Fini"]

(* Sections and dynamic entries, by name. *)
TableSeeds(image, t) ==
    IF t.name \in DOMAIN ArrayKinds
    THEN ArraySeeds(image, SaturatingAdd(t.address, image.bias), t.size, ArrayKinds[t.name])
    ELSE IF t.name \in DOMAIN StartKinds
    THEN AddSeed(image, SaturatingAdd(t.address, image.bias), StartKinds[t.name])
    ELSE {}

ElfSeeds(file, image, compat) ==
    LET tables == Range(file.sectionHeaders) \union file.dynamic
    IN  IF \E t \in tables : TableSeeds(image, t) = None THEN None
        ELSE SymbolSeeds(file, image)
             \union UNION {RelocationSeeds(image, compat, r) : r \in Range(file.relocations)}
             \union AddSeed(image, LibcMain(file, image), "LibcMain")
             \union UNION {TableSeeds(image, t) : t \in tables}

----------------------------------------------------------------------------
(* collect_macho_seeds *)

(* LC_FUNCTION_STARTS: deltas in groups of bits, low group first; the top   *)
(* half of the byte values says that another group follows.  A zero delta,  *)
(* a group that is cut off, or one too many ends the table.                 *)
Group == ByteBase \div 2
Continues(b) == b >= Group
MaxGroups == 3          \* 64 bits in groups of seven, scaled: what does not fit is cut off

DeltaAt(data, i) ==
    LET k == SelectInSubSeq(data, i, Len(data), LAMBDA b : ~Continues(b))
    IN  IF k = 0 \/ k - i >= MaxGroups THEN None
        ELSE [delta |-> FoldFunctionOnSet(+, 0, [j \in i..k |-> (data[j] % Group) * Group^(j - i)], i..k)
                            % (Limit + 1),
              next |-> k + 1]

(* acc: the address and offset reached, the starts found. *)
FunctionStarts(base, data) ==
    LET step(acc, i) ==
            LET d == IF acc.at = None THEN None ELSE IF acc.at > Len(data) THEN None ELSE DeltaAt(data, acc.at)
            IN  IF d = None THEN [acc EXCEPT !.at = None]
                ELSE IF d.delta = 0 THEN [acc EXCEPT !.at = None]
                ELSE LET a == SaturatingAdd(acc.address, d.delta)
                     IN  [address |-> a, at |-> d.next, found |-> Append(acc.found, a)]
    IN  FoldLeft(step, [address |-> base, at |-> 1, found |-> <<>>], data).found

InSection(s, a) == \E c \in s.sections : c.address <= a /\ a < SaturatingAdd(c.address, c.size)

(* Symbols outside every section (__mh_execute_header) are not code. *)
MachoSeeds(file, image) ==
    LET s == SelectSlice(file, None)
    IN  IF s = None THEN None
        ELSE SeedAll(image, {a \in {CheckedAdd(image.base, e) : e \in s.exports} : a # None /\ InSection(s, a)},
                     "Export")
             \union SeedAll(image, {y.value : y \in {z \in s.symbols : z.inSection /\ InSection(s, z.value)}},
                            "Symbol")
             \union UNION {SeedAll(image, Range(FunctionStarts(image.base, d)), "MachoFunctionStarts")
                              : d \in s.starts}

CollectSeeds(file, image, compat) ==
    LET tables == CASE image.format = "pe" -> PeSeeds(file, image)
                    [] image.format = "elf" -> ElfSeeds(file, image, compat)
                    [] image.format = "macho" -> MachoSeeds(file, image)
                    [] OTHER -> {}
    IN  Then(tables, LAMBDA seeds : seeds \union AddSeed(image, image.entry, "EntryPoint"))

----------------------------------------------------------------------------
(* add_backend_fallback_seeds *)

Decodes(image, a) ==
    /\ IsExecutableAddress(image, a)
    /\ BytesAt(image, a, 1) # <<>>
    /\ BytesAt(image, a, 1)[1] \notin Opcodes.invalid
First(image, a) == BytesAt(image, a, 1)[1]

CodeSections(image) ==
    {s \in Range(image.sections) : "x" \in s.permissions /\ IsPrimaryCode(image, s.address)}
Scanned(image, s, size) ==
    LET bytes == BytesAt(image, s.address, Min({size, MaxScan})) IN IF bytes = None THEN <<>> ELSE bytes

MatchesAt(bytes, i, pattern) ==
    /\ i + Len(pattern) - 1 <= Len(bytes)
    /\ \A j \in DOMAIN pattern : pattern[j] = None \/ pattern[j] = bytes[i + j - 1]

(* add_prologue_seeds: the longest pattern; its bytes are not scanned       *)
(* again.  The last bytes of a section are never looked at.                 *)
PrologueSeeds(image, s) ==
    LET bytes == Scanned(image, s, s.fileSize)
        step(acc, i) ==
            LET lengths == {Len(p) : p \in {q \in Prologues : MatchesAt(bytes, i, q)}}
            IN  IF i < acc.covered \/ lengths = {} \/ Cardinality(acc.found) >= MaxPrologues THEN acc
                ELSE IF ~Decodes(image, s.address + i - 1) THEN acc
                ELSE [found |-> acc.found \union {s.address + i - 1}, covered |-> i + Max(lengths)]
        scan == FoldLeft(step, [found |-> {}, covered |-> 0],
                         [i \in 1..SaturatingSub(Len(bytes), PointerWidth) |-> i])
    IN  {<<a, "Prologue">> : a \in scan.found}

(* add_aarch64_prologue_seeds: instructions, so words, that open a frame. *)
FrameSeeds(image, s) ==
    LET bytes == Scanned(image, s, s.fileSize)
        opens(i) == i % PointerWidth = 1 /\ bytes[i] \in Opcodes.push
        found == SelectSeq([i \in 1..SaturatingSub(Len(bytes), PointerWidth) |-> i], opens)
    IN  {<<s.address + found[k] - 1, "Prologue">> : k \in 1..Min({MaxPrologues, Len(found)})}

(* add_vivisect_function_signature_seeds *)
SignatureSeeds(image) ==
    UNION {LET bytes == Scanned(image, s, s.size)
           IN  {<<SaturatingAdd(s.address, i - 1), "FunctionSignature">> :
                   i \in {k \in DOMAIN bytes : \E p \in Signatures : MatchesAt(bytes, k, p)}}
           : s \in {t \in CodeSections(image) : image.architecture = "x86" /\ ~IsUninitialized(image, t.address)}}

PlausibleFunction(image, a) ==
    /\ ~IsDeadData(image, a)
    /\ IsPrimaryCode(image, a)
    /\ Decodes(image, a)
    /\ First(image, a) \in Opcodes.plausible
PlausibleSweep(image, a) ==
    Decodes(image, a) /\ (First(image, a) \in Opcodes.push \/ PlausibleFunction(image, a))

(* add_swept_call_seeds: the targets of anything that looks like a call, in *)
(* a sparse PE image that is no Go program.                                 *)
SweepTargets(image, s) ==
    LET bytes == Scanned(image, s, s.fileSize)
        signed(b) == IF b >= ByteBase \div 2 THEN b - ByteBase ELSE b
        target(i) == s.address + i - 1 + 2 + signed(bytes[i + 1])
    IN  {t \in {target(i) : i \in {k \in 1..Len(bytes) - 1 : bytes[k] \in Opcodes.call}} :
            t \in 0..Limit /\ IsExecutableAddress(image, t) /\ PlausibleSweep(image, t)}
SweepSeeds(file, image, seeds) ==
    LET targets == SetToSortSeq(UNION {SweepTargets(image, s) : s \in CodeSections(image)}, <)
    IN  IF image.format # "pe" \/ Cardinality({x[1] : x \in seeds}) > SparseSeeds \/ file.go THEN {}
        ELSE {<<a, "SweepCallTarget">> : a \in Range(SubSeq(targets, 1, Min({MaxSweep, Len(targets)})))}

Prologued(image, seeds) ==
    seeds \union UNION {IF image.architecture = "arm64" THEN FrameSeeds(image, s) ELSE PrologueSeeds(image, s)
                            : s \in CodeSections(image)}
FallbackSeeds(file, image, compat, seeds) ==
    LET swept(guessed) == guessed \union SweepSeeds(file, image, guessed)
    IN  SignatureSeeds(image)
        \union (IF ~compat \/ image.architecture = "arm64" THEN swept(Prologued(image, seeds)) ELSE seeds)
=============================================================================
