------------------------------- MODULE Loader -------------------------------
(* image::LoadedImage: how a file becomes an address space.                 *)
(*                                                                          *)
(* A file is a record: its bytes and what the header parsers (goblin,       *)
(* external) read from them.  An address is a number up to Limit (u64::MAX  *)
(* in the code), a byte one of ByteBase values, a pointer PointerWidth      *)
(* bytes.  An image that cannot be loaded is None: which error it was is    *)
(* left out.                                                                *)
EXTENDS Integers, Sequences, SequencesExt, FiniteSets, FiniteSetsExt, TLC

CONSTANTS
    Limit,          \* the largest address
    ByteBase,       \* values of a byte
    PointerWidth,   \* Architecture::pointer_width, in bytes
    MaxMapped,      \* MAX_MAPPED_IMAGE_BYTES
    MaxCarved,      \* MAX_CARVED_HEADERS
    MaxDelay,       \* MAX_DELAY_DESCRIPTORS
    MaxThunks,      \* MAX_DELAY_IMPORTS
    MaxChain,       \* MAX_MACHO_CHAIN_STEPS
    DynBase,        \* VIV_ELF_DYN_BASE
    AArch64DynBase, \* GHIDRA_AARCH64_ELF_DYN_BASE
    ShellcodeBase,  \* SHELLCODE_BASE
    None            \* Option::None, Result::Err

CheckedAdd(a, b) == IF a = None \/ b = None THEN None ELSE IF a + b > Limit THEN None ELSE a + b
SaturatingAdd(a, b) == Min({a + b, Limit})
SaturatingSub(a, b) == Max({a - b, 0})

(* The ? operator, and a fold that stops at the first None. *)
Then(v, next(_)) == IF v = None THEN None ELSE next(v)
FoldChecked(step(_, _), first, items) ==
    FoldLeft(LAMBDA acc, x : IF acc = None THEN None ELSE step(acc, x), first, items)

AlignUp(v, alignment) ==
    IF alignment = 0 THEN v
    ELSE IF v + alignment - 1 > Limit THEN None
    ELSE ((v + alignment - 1) \div alignment) * alignment

\* Mutant: the requested size is copied, whatever the file still holds of it
\* and wherever it starts.
MappedRegion_FromStart(bytes, offset, size, mapped) ==
    IF mapped > MaxMapped THEN None
    ELSE [i \in 1..mapped |-> IF i <= size /\ i <= Len(bytes) THEN bytes[i] ELSE 0]

(* File bytes first, then zero fill up to the mapped size. *)
MappedRegion(bytes, offset, size, mapped) ==
    LET copied == Min({size, SaturatingSub(Len(bytes), offset), mapped})
    IN  IF mapped > MaxMapped THEN None
        ELSE [i \in 1..mapped |-> IF i <= copied THEN bytes[offset + i] ELSE 0]

Total(sections) == FoldLeft(LAMBDA n, s : n + Len(s.data), 0, sections)

(* account_mapping: the map is added, or the image refused. *)
Account(sections, s) ==
    IF Total(sections) + Len(s.data) > MaxMapped THEN None ELSE Append(sections, s)

----------------------------------------------------------------------------
(* Lookups in a loaded image. *)

In(ranges, a) == \E r \in ranges : r[1] <= a /\ a < r[2]
ContainsVa(s, a) == a >= s.address /\ a - s.address < s.size

(* The first map, in load order, that contains the address. *)
SectionContaining(image, a) ==
    SelectInSeq(image.sections, LAMBDA s : ContainsVa(s, a))

(* At most n bytes, without leaving the map.  The address just past the     *)
(* bytes of a map that is larger than they are gives the empty sequence.    *)
BytesAt(image, a, n) ==
    LET k == SectionContaining(image, a)
        data == image.sections[k].data
        start == a - image.sections[k].address
    IN  IF k = 0 THEN None ELSE IF start > Len(data) THEN None
        ELSE SubSeq(data, start + 1, Min({start + n, Len(data)}))

IsUninitialized(image, a) == In(image.uninitialized, a)
IsPrimaryCode(image, a) == In(image.primary, a)
IsDeadData(image, a) == \E r \in image.dead : r[1] <= a /\ a <= r[2]
IsExecutableAddress(image, a) ==
    LET k == SectionContaining(image, a)
    IN  /\ k # 0
        /\ "x" \in image.sections[k].permissions
        /\ ~IsUninitialized(image, a)
        /\ BytesAt(image, a, 1) # None

VaToFileOffset(image, a) ==
    LET k == SelectInSeq(image.sections, LAMBDA s : a >= s.address /\ a - s.address < s.fileSize)
    IN  IF k = 0 THEN None
        ELSE image.sections[k].fileOffset + a - image.sections[k].address
FileOffsetToVa(image, o) ==
    LET k == SelectInSeq(image.sections,
                         LAMBDA s : o >= s.fileOffset /\ o - s.fileOffset < s.fileSize)
    IN  IF k = 0 THEN None
        ELSE CheckedAdd(image.sections[k].address, o - image.sections[k].fileOffset)

Word(bytes) == FoldRight(LAMBDA b, v : v * ByteBase + b, bytes, 0)
Pieces(v) == [i \in 1..PointerWidth |-> (v \div ByteBase^(i - 1)) % ByteBase]
Exactly(bytes, n) == IF bytes = None THEN None ELSE IF Len(bytes) # n THEN None ELSE bytes
ReadWord(image, a) ==
    LET bytes == Exactly(BytesAt(image, a, PointerWidth), PointerWidth)
    IN  IF bytes = None THEN None ELSE Word(bytes)

EmptyImage(format, architecture, base) ==
    [format |-> format, architecture |-> architecture, base |-> base, bias |-> 0, entry |-> None,
     sections |-> <<>>, bindings |-> {}, imports |-> <<>>, diagnostics |-> {},
     relocations |-> {}, plt |-> {}, dead |-> {}, uninitialized |-> {}, primary |-> {}]

(* add_external_binding and the import location beside it. *)
Bind(image, a, name) ==
    [image EXCEPT !.bindings = @ \union {<<a, name>>}, !.imports = (a :> name) @@ @]

Diagnosed(image, what) == [image EXCEPT !.diagnostics = @ \union {what}]

----------------------------------------------------------------------------
(* from_pe *)

Permissions(flags) == {p \in {"r", "w", "x"} : p \in flags}

(* The header is mapped through the section table, padded to the section    *)
(* alignment, never executable.                                             *)
HeaderMap(file) ==
    LET map(size, data) ==
            [name |-> "PE_Header", address |-> file.base, size |-> size, fileOffset |-> 0,
             fileSize |-> file.headerSize, permissions |-> {"r"}, data |-> data]
    IN  IF file.sectionAlignment = 0 \/ file.headerSize > Len(file.bytes) THEN None
        ELSE Then(AlignUp(file.headerSize, file.sectionAlignment), LAMBDA size :
             Then(MappedRegion(file.bytes, 0, file.headerSize, size), LAMBDA data : map(size, data)))

(* What a section header asks for: the size to map, how much of it to read, *)
(* and whether the map is padded to the file alignment.  A section without  *)
(* a size fills the gap to the next; the last one, and one whose raw data   *)
(* is past the file, are not mapped.                                        *)
NoMap == [size |-> 0, read |-> 0, align |-> FALSE]
SectionPlan(file, i) ==
    LET s == file.sections[i]
    IN  IF s.virtualSize = 0 \/ s.rawSize = 0
        THEN IF i = Len(file.sections) THEN NoMap
             ELSE IF file.sections[i + 1].rva < s.rva THEN None
             ELSE [size |-> file.sections[i + 1].rva - s.rva, read |-> 0, align |-> FALSE]
        ELSE IF s.rawSize < s.virtualSize /\ s.rawSize > Len(file.bytes) THEN NoMap
        ELSE [size |-> s.virtualSize, read |-> Min({s.rawSize, s.virtualSize}), align |-> TRUE]

IsPrimary(file, s) ==
    \/ s.flags \intersect {"x", "code"} # {}
    \/ file.codeStart <= s.rva /\ s.rva < file.codeStart + file.codeSize
    \/ s.rva <= file.entry /\ file.entry < SaturatingAdd(s.rva, s.virtualSize)

(* One section header: its map, and the ranges it adds. *)
WithSection(file, image, s, plan) ==
    LET address == CheckedAdd(file.base, s.rva)
        size == IF plan.align /\ file.fileAlignment # 0 THEN AlignUp(plan.size, file.fileAlignment)
                ELSE plan.size
        read == Min({plan.read, SaturatingSub(Len(file.bytes), s.rawOffset)})
        data == MappedRegion(file.bytes, s.rawOffset, read, size)
        primary == IsPrimary(file, s)
        map == [name |-> s.name, address |-> address, size |-> size, fileOffset |-> s.rawOffset,
                fileSize |-> read, data |-> data,
                permissions |-> Permissions(s.flags \ {"x"}) \union (IF primary THEN {"x"} ELSE {})]
        end == SaturatingAdd(address, size)
        accounted == Account(image.sections, map)
    IN  IF address = None \/ size = None THEN None
        ELSE IF size = 0 THEN image
        ELSE IF data = None THEN None
        ELSE IF accounted = None THEN None
        ELSE [image EXCEPT
                !.sections = accounted,
                !.dead = @ \union IF s.rva \in file.directories
                                     \/ s.flags \intersect {"code", "x", "w"} = {}
                                  THEN {<<address, SaturatingAdd(address, plan.size)>>} ELSE {},
                !.uninitialized = @ \union IF "uninit" \in s.flags THEN {<<address, end>>} ELSE {},
                !.primary = @ \union IF primary THEN {<<address, end>>} ELSE {}]

MapSection(file, image, i) ==
    LET plan == SectionPlan(file, i)
    IN  IF plan = None \/ CheckedAdd(file.base, file.sections[i].rva) = None THEN None
        ELSE WithSection(file, image, file.sections[i], plan)

(* mark_embedded_pe_data: an embedded PE file is dead data.  An overlay has *)
(* no address, and takes the image base.                                    *)
CarvedSize(c) ==
    IF c.sections = <<>> THEN None ELSE Max({s[1] + s[2] : s \in Range(c.sections)})
MaxRva(file) ==
    Max({0} \union {((s.rva + s.virtualSize) \div file.sectionAlignment + 1) * file.sectionAlignment
                        : s \in Range(file.sections)})
OffsetToRva(file, o) ==
    LET span(s) == IF s.rawOffset + s.rawSize > MaxRva(file) THEN s.virtualSize
                   ELSE Max({s.virtualSize, s.rawSize})
        k == SelectInSeq(file.sections, LAMBDA s : o >= s.rawOffset /\ o - s.rawOffset < span(s))
    IN  IF k = 0 THEN 0 ELSE o - file.sections[k].rawOffset + file.sections[k].rva
MarkEmbedded(file, image) ==
    LET mark(im, c) ==
            LET size == CarvedSize(c)
                start == CheckedAdd(file.base, OffsetToRva(file, c.offset))
                end == CheckedAdd(start, Min({size, Len(file.bytes) - c.offset}))
            IN  IF size = None THEN Diagnosed(im, "invalid embedded header")
                ELSE IF end = None THEN im
                ELSE [im EXCEPT !.dead = @ \union {<<start, end>>}]
        marked == FoldLeft(mark, image, SubSeq(file.carved, 1, Min({MaxCarved, Len(file.carved)})))
    IN  IF Len(file.carved) > MaxCarved THEN Diagnosed(marked, "too many embedded headers")
        ELSE marked

(* collect_pe_relocation_locations: a malformed block ends the table, a     *)
(* malformed entry its block.                                               *)
UpToBad(items, bad(_)) ==
    LET k == SelectInSeq(items, bad) IN IF k = 0 THEN items ELSE SubSeq(items, 1, k - 1)
RelocationLocations(file) ==
    UNION {{CheckedAdd(CheckedAdd(file.base, b.rva), w.offset) :
               w \in {v \in Range(UpToBad(b.words, LAMBDA x : x.kind = "bad")) : v.kind # "none"}}
           : b \in Range(UpToBad(file.blocks, LAMBDA x : x.bad))} \ {None}

(* A declared lookup table that ends early hides the address-table entries  *)
(* that the parser fell back to.                                            *)
TerminatedRange(image, t) ==
    LET at(i) == BytesAt(image, SaturatingAdd(SaturatingAdd(image.base, t.lookup), i * PointerWidth),
                         PointerWidth)
        ends == {i \in 0..t.count - 1 : at(i) = [j \in 1..PointerWidth |-> 0]}
    IN  IF t.lookup = 0 \/ ends = {} THEN {}
        ELSE {<<SaturatingAdd(t.iat, Min(ends) * PointerWidth), SaturatingAdd(t.iat, t.count * PointerWidth)>>}

(* resolve_pe_ordinal: an ordinal is named from the library's table, or     *)
(* keeps its number.                                                        *)
OrdinalName(file, dll, n) ==
    LET known == {o \in file.ordinals : o.dll = dll /\ o.number = n}
    IN  IF known = {} THEN <<"#", n>> ELSE (CHOOSE o \in known : TRUE).name

BindImports(file, image) ==
    LET hidden == UNION {TerminatedRange(image, t) : t \in Range(file.lookups)}
        bind(im, i) ==
            IF In(hidden, i.rva) THEN im
            ELSE IF CheckedAdd(file.base, i.rva) = None THEN None
            ELSE Bind(im, file.base + i.rva,
                      <<i.dll, IF i.ordinal = None THEN i.name ELSE OrdinalName(file, i.dll, i.ordinal)>>)
        seen == IF hidden = {} THEN image ELSE Diagnosed(image, "lookup table terminates")
    IN  IF \E t \in Range(file.lookups) : CheckedAdd(file.base, t.lookup) = None THEN None
        ELSE FoldChecked(bind, seen, file.imports)

(* Delay imports: descriptors of four words, read from the mapped image. *)
DescriptorSize == 4 * PointerWidth
OrdinalBit == ByteBase^PointerWidth \div 2
WordAtRva(image, rva) ==
    LET a == CheckedAdd(image.base, rva) IN IF a = None THEN None ELSE ReadWord(image, a)
FieldToRva(image, v, usesRvas) ==
    IF v = None THEN None ELSE IF usesRvas THEN v ELSE IF v < image.base THEN None ELSE v - image.base

(* A string ends at a zero within the file-backed part of its section. *)
UpToZero(bytes) ==
    LET end == SelectInSeq(bytes, LAMBDA b : b = 0) IN IF end = 0 THEN None ELSE SubSeq(bytes, 1, end - 1)
Backed(image, a, k) ==
    IF k = 0 THEN None
    ELSE BytesAt(image, a, SaturatingSub(image.sections[k].fileSize, a - image.sections[k].address))
StringAtRva(image, rva) ==
    Then(CheckedAdd(image.base, rva), LAMBDA a :
    Then(Backed(image, a, SectionContaining(image, a)), UpToZero))

(* acc: the image and whether the table's terminator was met. *)
Ended(acc) == [acc EXCEPT !.done = TRUE]
ThunkSymbol(file, image, d, v) ==
    IF v >= OrdinalBit THEN OrdinalName(file, d.dll, v - OrdinalBit)
    ELSE Then(FieldToRva(image, v, d.usesRvas), LAMBDA hint : StringAtRva(image, hint + 2))
DelayThunk(file, d, acc, i) ==
    LET bound(symbol, at) == [acc EXCEPT !.image = Bind(@, at, <<d.dll, symbol>>)]
    IN  IF acc.done THEN acc
        ELSE Then(WordAtRva(acc.image, d.int + i * PointerWidth), LAMBDA v :
             IF v = 0 THEN Ended(acc)
             ELSE Then(ThunkSymbol(file, acc.image, d, v), LAMBDA symbol :
                  Then(CheckedAdd(acc.image.base, d.iat + i * PointerWidth), LAMBDA at : bound(symbol, at))))

(* A descriptor: the library's name, its address table and its name table,  *)
(* as addresses in files that do not say otherwise.                         *)
Descriptor(image, raw) ==
    LET word(k) == Word(SubSeq(raw, k * PointerWidth + 1, (k + 1) * PointerWidth))
        fields(usesRvas) == [name |-> FieldToRva(image, word(1), usesRvas), iat |-> FieldToRva(image, word(2), usesRvas),
                             int |-> FieldToRva(image, word(3), usesRvas), usesRvas |-> usesRvas, dll |-> <<>>]
    IN  fields(word(0) % 2 = 1)

(* The name table must end within MaxThunks. *)
DelayThunks(file, image, d) ==
    LET end(acc) == IF acc.done THEN acc.image ELSE None
    IN  Then(FoldChecked(LAMBDA t, k : DelayThunk(file, d, t, k), [image |-> image, done |-> FALSE],
                         [k \in 1..MaxThunks |-> k - 1]), end)
DelayLibrary(file, acc, d) ==
    IF {d.name, d.iat, d.int} \intersect {None, 0} # {} THEN None
    ELSE Then(StringAtRva(acc.image, d.name), LAMBDA dll :
         Then(DelayThunks(file, acc.image, [d EXCEPT !.dll = dll]), LAMBDA bound : [acc EXCEPT !.image = bound]))
DelayDescriptor(file, acc, i) ==
    LET at == SaturatingAdd(acc.image.base, file.delay.rva + i * DescriptorSize)
    IN  IF acc.done THEN acc
        ELSE Then(Exactly(BytesAt(acc.image, at, DescriptorSize), DescriptorSize), LAMBDA raw :
             IF Range(raw) = {0} THEN Ended(acc) ELSE DelayLibrary(file, acc, Descriptor(acc.image, raw)))

DelayImports(file, image) ==
    LET count == file.delay.size \div DescriptorSize
        start == IF file.delay.size % DescriptorSize = 0 THEN image
                 ELSE Diagnosed(image, "trailing delay bytes")
    IN  IF file.delay.rva = 0 \/ file.delay.size = 0 THEN image
        ELSE IF count > MaxDelay THEN None
        ELSE Then(FoldChecked(LAMBDA acc, i : DelayDescriptor(file, acc, i),
                              [image |-> start, done |-> FALSE], [k \in 1..count |-> k - 1]),
                  LAMBDA all : all.image)

FromPe(file) ==
    LET entry == IF file.entry = 0 THEN 0 ELSE CheckedAdd(file.base, file.entry)
        start(header) == [EmptyImage("pe", file.architecture, file.base) EXCEPT
                            !.entry = IF entry = 0 THEN None ELSE entry, !.sections = <<header>>]
        mapped(header) == FoldChecked(LAMBDA im, i : MapSection(file, im, i), start(header),
                                      [i \in DOMAIN file.sections |-> i])
        marked(im) == [MarkEmbedded(file, im) EXCEPT !.relocations = RelocationLocations(file)]
    IN  IF file.architecture = "other" \/ entry = None THEN None
        ELSE Then(HeaderMap(file), LAMBDA header :
             Then(mapped(header), LAMBDA im :
             Then(BindImports(file, marked(im)), LAMBDA bound : DelayImports(file, bound))))

----------------------------------------------------------------------------
(* from_elf *)

IsX86(image) == image.architecture \in {"x86", "x64"}

MapSegment(file, image, p) ==
    LET size == Min({p.fileSize, SaturatingSub(Len(file.bytes), p.offset)})
        data == MappedRegion(file.bytes, p.offset, size, size)
        address == CheckedAdd(p.vaddr, image.bias)
    IN  IF data = None \/ address = None THEN None
        ELSE [image EXCEPT
                !.sections = Append(@, [name |-> "PT_LOAD", address |-> address,
                    size |-> Max({p.memSize, p.fileSize}), fileOffset |-> p.offset,
                    fileSize |-> size, permissions |-> p.flags, data |-> data]),
                !.primary = @ \union IF "x" \in p.flags
                                     THEN {<<address, SaturatingAdd(address, p.memSize)>>} ELSE {}]

PltRanges(file, image) ==
    {<<CheckedAdd(s.address, image.bias), CheckedAdd(CheckedAdd(s.address, image.bias), s.size)>>
        : s \in {t \in Range(file.sectionHeaders) : t.name = "plt"}}

(* The stored word is rebased in place. *)
Relocate(image, a) ==
    LET k == SectionContaining(image, a)
        start == a - image.sections[k].address
        v == (ReadWord(image, a) + image.base) % ByteBase^PointerWidth
    IN  [image EXCEPT !.sections[k].data =
            [i \in DOMAIN @ |-> IF i > start /\ i <= start + PointerWidth THEN Pieces(v)[i - start] ELSE @[i]]]

RelocationStep(compat, image, r) ==
    LET a == CheckedAdd(r.offset, image.bias)
        rebases == compat /\ IsX86(image) /\ r.symbol = "" /\ r.kind = "relative"
        moved == IF ~rebases THEN image
                 ELSE IF ReadWord(image, a) = None THEN Diagnosed(image, "unmapped relocation")
                 ELSE Relocate(image, a)
    IN  IF a = None /\ (rebases \/ r.symbol # "") THEN None
        ELSE IF r.symbol = "" THEN moved
        ELSE IF compat /\ IsX86(image) /\ r.kind \notin {"jmp_slot", "glob_dat", "irelative"}
             THEN Diagnosed(moved, "not an import")
        ELSE Bind(moved, a, <<"*", r.symbol>>)

FromElf(file, compat) ==
    LET loads == SelectSeq(file.programHeaders, LAMBDA p : p.load)
        rawBase == IF loads = <<>> THEN 0 ELSE Min({p.vaddr : p \in Range(loads)})
        bias == IF ~file.dyn THEN 0
                ELSE SaturatingSub(IF file.architecture = "arm64" THEN AArch64DynBase ELSE DynBase, rawBase)
        base == CheckedAdd(rawBase, bias)
        entry == IF file.entry = 0 THEN 0 ELSE CheckedAdd(file.entry, bias)
        start == [EmptyImage("elf", file.architecture, base) EXCEPT
                    !.bias = bias, !.entry = IF entry = 0 THEN None ELSE entry]
        mapped == FoldChecked(LAMBDA im, p : MapSegment(file, im, p), start, loads)
        plt == PltRanges(file, mapped)
    IN  IF file.architecture = "other" \/ base = None \/ entry = None THEN None
        ELSE IF mapped = None THEN None
        ELSE IF \E r \in plt : r[2] = None THEN None
        ELSE FoldChecked(LAMBDA im, r : RelocationStep(compat, im, r), [mapped EXCEPT !.plt = plt],
                         file.relocations)

----------------------------------------------------------------------------
(* from_shellcode: one map, readable, writable and executable. *)

FromShellcode(file) ==
    LET end == SaturatingAdd(ShellcodeBase, Len(file.bytes))
    IN  [EmptyImage("sc", file.architecture, ShellcodeBase) EXCEPT
            !.entry = ShellcodeBase, !.primary = {<<ShellcodeBase, end>>},
            !.sections = <<[name |-> "shellcode", address |-> ShellcodeBase, size |-> Len(file.bytes),
                            fileOffset |-> 0, fileSize |-> Len(file.bytes),
                            permissions |-> {"r", "w", "x"}, data |-> file.bytes]>>]
----------------------------------------------------------------------------
(* LoadedImage::from_macho: slice selection, the checks that the parser     *)
(* does not make, the segment maps, and the two ways of binding imports.    *)

CONSTANTS
    HeaderSize,     \* MACHO_HEADER_64_SIZE
    CommandAlign,   \* load commands are multiples of this
    Stride,         \* bytes per unit of a fixup's next field
    MaxFixupSegments    \* MAX_MACHO_FIXUP_SEGMENTS

SupportedArches == {"x86_64", "arm64", "arm64e"}

(* Fat headers are checked whole; then the first slice, in header order,    *)
(* that the request accepts.  A thin file is its own only slice.            *)
SelectSlice(file, arch) ==
    LET wanted(s) == s.arch \in SupportedArches /\ arch \in {None, s.arch}
        k == SelectInSeq(file.slices, wanted)
    IN  IF \E s \in Range(file.slices) : s.offset + s.size > Len(file.bytes) THEN None
        ELSE IF k = 0 THEN None ELSE file.slices[k]

SliceBytes(file, s) == SubSeq(file.bytes, s.offset + 1, s.offset + s.size)

(* Every command follows the previous one and the last ends within the      *)
(* declared region, which the file holds.                                   *)
CommandsAreValid(s) ==
    LET end(i) == IF i = 0 THEN HeaderSize ELSE s.commands[i].offset + s.commands[i].size
    IN  /\ \A i \in DOMAIN s.commands :
              /\ s.commands[i].size # 0
              /\ s.commands[i].size % CommandAlign = 0
              /\ s.commands[i].offset = end(i - 1)
              /\ end(i) <= HeaderSize + s.sizeOfCommands
        /\ HeaderSize + s.sizeOfCommands <= s.size

SegmentsAreValid(s) ==
    /\ \A g \in Range(s.segments) :
          /\ g.consistent              \* nsects agrees with cmdsize
          /\ g.fileSize <= g.size
          /\ g.fileOffset + g.fileSize <= s.size
    /\ \A i, j \in DOMAIN s.segments :
          LET a == s.segments[i]
              b == s.segments[j]
          IN  i < j /\ a.fileSize # 0 /\ b.fileSize # 0
              => ~(a.fileOffset < b.fileOffset + b.fileSize /\ b.fileOffset < a.fileOffset + a.fileSize)

MachoBase(s) ==
    LET text == SelectInSeq(s.segments, LAMBDA g : g.name = "__TEXT")
    IN  IF text # 0 THEN s.segments[text].address
        ELSE IF s.segments = <<>> THEN 0 ELSE Min({g.address : g \in Range(s.segments)})

(* __PAGEZERO is never mapped. *)
MapMachoSegment(bytes, image, g) ==
    LET data == MappedRegion(bytes, g.fileOffset, g.fileSize, g.size)
        map == [name |-> g.name, address |-> g.address, size |-> g.size, fileOffset |-> g.fileOffset,
                fileSize |-> Min({g.fileSize, g.size}), permissions |-> g.permissions, data |-> data]
        accounted == Account(image.sections, map)
    IN  IF g.name = "__PAGEZERO" THEN image
        ELSE IF data = None THEN None
        ELSE IF accounted = None THEN None
        ELSE [image EXCEPT !.sections = accounted,
                           !.primary = @ \union IF "x" \in g.permissions
                                                THEN {<<g.address, SaturatingAdd(g.address, g.size)>>}
                                                ELSE {}]

(* Chained fixups.  A pointer in a chain holds a bind flag, the distance to *)
(* the next one, and an import ordinal.  The walk wraps around the address  *)
(* space and is cut off after MaxChain steps over all chains.               *)
BindBit == ByteBase^PointerWidth \div 2
Distance(v) == (v \div ByteBase) % (ByteBase \div 2)
Ordinal(v) == v % ByteBase

Starts(base, g) ==
    IF g.pageSize = 0 \/ ~g.known THEN <<>>
    ELSE [i \in DOMAIN g.pages |->
             IF g.pages[i] = None THEN None
             ELSE (base + g.offset + (i - 1) * g.pageSize + g.pages[i]) % (Limit + 1)]

(* An ordinal past the table, or a name that cannot be read, binds nothing. *)
ImportOf(fixups, n) == IF n + 1 \in DOMAIN fixups.imports THEN fixups.imports[n + 1] ELSE None

(* acc: where the walk is in its chain, the steps taken, the bindings. *)
ChainStep(image, fixups, acc) ==
    LET binds(v) == IF v < BindBit THEN acc.binds
                    ELSE IF ImportOf(fixups, Ordinal(v)) = None THEN acc.binds
                    ELSE Append(acc.binds, <<acc.at, ImportOf(fixups, Ordinal(v))>>)
        next(v) == IF Distance(v) = 0 THEN None ELSE (acc.at + Distance(v) * Stride) % (Limit + 1)
        past(v) == IF v = None THEN [acc EXCEPT !.steps = @ + 1, !.at = None]
                   ELSE [steps |-> acc.steps + 1, binds |-> binds(v), at |-> next(v)]
    IN  IF acc.steps = MaxChain THEN None ELSE past(ReadWord(image, acc.at))

WalkChain(image, fixups, acc, start) ==
    FoldChecked(LAMBDA a, i : IF a.at = None THEN a ELSE ChainStep(image, fixups, a),
                [acc EXCEPT !.at = start], [i \in 1..MaxChain + 1 |-> i])

ChainedBinds(image, fixups) ==
    LET starts == FoldLeft(LAMBDA s, g : s \o Starts(image.base, g), <<>>, fixups.segments)
    IN  IF fixups.format # 1 THEN <<>>
        ELSE IF Len(fixups.segments) > MaxFixupSegments THEN None
        ELSE Then(FoldChecked(LAMBDA acc, s : WalkChain(image, fixups, acc, s),
                              [at |-> None, steps |-> 0, binds |-> <<>>], starts),
                  LAMBDA walked : walked.binds)

(* load_macho_imports: the chained fixups only where the classic opcodes    *)
(* bind nothing.                                                            *)
BindMacho(image, s) ==
    LET bind(im, b) == Bind(im, b[1], b[2])
        bindAll(im, binds) == IF binds = None THEN Diagnosed(im, "chained fixups") ELSE FoldLeft(bind, im, binds)
        chained(im, f) == bindAll(im, ChainedBinds(im, f))
    IN  IF s.imports # <<>> THEN FoldLeft(bind, image, s.imports)
        ELSE FoldLeft(chained, image, s.fixups)

FromMacho(file, arch) ==
    LET start(s) == [EmptyImage("macho", IF s.arch = "x86_64" THEN "x64" ELSE "arm64", MachoBase(s)) EXCEPT
                        !.entry = IF s.entry = 0 THEN None ELSE s.entry]
        mapped(s) == FoldChecked(LAMBDA im, g : MapMachoSegment(SliceBytes(file, s), im, g), start(s), s.segments)
    IN  Then(SelectSlice(file, arch), LAMBDA s :
             IF CommandsAreValid(s) /\ SegmentsAreValid(s)
             THEN Then(mapped(s), LAMBDA im : BindMacho(im, s)) ELSE None)
=============================================================================
