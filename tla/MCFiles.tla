------------------------------ MODULE MCFiles -------------------------------
(* Small files of every format for Loader and Seeds, and what an            *)
(* image and its seeds must keep of the file.                               *)
EXTENDS Seeds

Zeros(n) == [i \in 1..n |-> 0]

----------------------------------------------------------------------------
(* PE: a header of four bytes, code of eight, data of eight. *)

PeSection(name, rva, virtual, raw, offset, flags) ==
    [name |-> name, rva |-> rva, virtualSize |-> virtual, rawSize |-> raw, rawOffset |-> offset,
     flags |-> flags]
Text == PeSection(".text", 4, 8, 8, 4, {"r", "x", "code"})
Data == PeSection(".data", 12, 8, 8, 12, {"r", "w"})

(* Code: push, push-move prologue, a call of rva 4, a masked signature.     *)
(* Data: pointers to rva 4 and 8, then an exception directory of one entry. *)
PeBytes == <<1, 1, 1, 1>> \o <<3, 4, 5, 4, 3, 1, 4, 6>> \o <<4, 1, 0, 2, 4, 0, 4, 0>>

Pe == [format |-> "pe", bytes |-> PeBytes, architecture |-> "x86", base |-> 8, entry |-> 4,
       headerSize |-> 4, sectionAlignment |-> 4, fileAlignment |-> 2, codeStart |-> 4, codeSize |-> 8,
       directories |-> {}, sections |-> <<Text, Data>>, carved |-> <<>>, blocks |-> <<>>,
       lookups |-> <<>>, imports |-> <<>>, ordinals |-> {[dll |-> <<5>>, number |-> 3, name |-> <<1>>]},
       delay |-> [rva |-> 0, size |-> 0], exports |-> {}, callbacks |-> {},
       seh |-> [table |-> 0, count |-> 0], unwind |-> None, go |-> FALSE]

(* Section headers that a file need not keep its word about: sizes of zero, *)
(* raw data past the end, a gap to the next section, another order.         *)
OddSections ==
    {[Pe EXCEPT !.sections = <<[Text EXCEPT !.virtualSize = v, !.rawSize = r, !.rawOffset = o, !.flags = f], Data>>,
                !.entry = e] :
        v \in {0, 5, 8, 12}, r \in {0, 3, 8, 40}, o \in {4, 18, 30},
        f \in {{"r", "x"}, {"r"}, {"r", "uninit", "code"}}, e \in {0, 4}}
    \union {[Pe EXCEPT !.sections = s, !.sectionAlignment = a, !.headerSize = h, !.fileAlignment = g,
                       !.base = b, !.architecture = m] :
        s \in {<<Data, Text>>, <<Text>>, <<Text, [Data EXCEPT !.rva = 2]>>, <<[Text EXCEPT !.rawSize = 0], [Data EXCEPT !.rva = 2]>>},
        a \in {0, 4}, h \in {4, 40}, g \in {0, 2}, b \in {8, 60}, m \in {"x64", "arm64", "other"}}

(* Tables: relocations, imports, embedded files, starts of functions. *)
Tables ==
    {[Pe EXCEPT !.blocks = b, !.carved = c, !.exports = x, !.callbacks = {12, 13}, !.directories = d,
                !.architecture = "x64", !.unwind = u] :
        b \in {<<>>, <<[rva |-> 12, bad |-> FALSE,
                        words |-> <<[kind |-> "high", offset |-> 0], [kind |-> "none", offset |-> 1],
                                    [kind |-> "high", offset |-> 2]>>],
                       [rva |-> 4, bad |-> TRUE, words |-> <<>>]>>,
               <<[rva |-> 12, bad |-> FALSE, words |-> <<[kind |-> "bad", offset |-> 0]>>]>>},
        c \in {<<>>, <<[offset |-> 12, sections |-> <<<<0, 2>>>>], [offset |-> 2, sections |-> <<>>]>>,
               <<[offset |-> 19, sections |-> <<<<1, 6>>>>], [offset |-> 4, sections |-> <<<<0, 60>>>>],
                 [offset |-> 6, sections |-> <<<<0, 1>>>>]>>},
        x \in {{}, {[rva |-> 6, forwarded |-> FALSE], [rva |-> 4, forwarded |-> TRUE], [rva |-> 60, forwarded |-> FALSE]}},
        d \in {{}, {12}},
        u \in {None, [rva |-> 16, size |-> 6], [rva |-> 12, size |-> 8], [rva |-> 30, size |-> 6]}}
    \union {[Pe EXCEPT !.seh = [table |-> t, count |-> n], !.architecture = a, !.unwind = [rva |-> 16, size |-> 4],
                       !.go = g] :
        t \in {0, 20, 24, 27, 50}, n \in {0, 1, 2, 9}, a \in {"x86", "arm64"}, g \in BOOLEAN}
    \union {[Pe EXCEPT !.lookups = l, !.imports = i, !.base = b, !.bytes[15] = 0, !.bytes[16] = 0] :
        l \in {<<>>, <<[lookup |-> 12, iat |-> 16, count |-> 2]>>, <<[lookup |-> 17, iat |-> 16, count |-> 2]>>,
               <<[lookup |-> 60, iat |-> 16, count |-> 1]>>},
        i \in {<<>>, <<[rva |-> 16, dll |-> <<5>>, name |-> <<>>, ordinal |-> 3],
                       [rva |-> 18, dll |-> <<5>>, name |-> <<>>, ordinal |-> 4],
                       [rva |-> 20, dll |-> <<6>>, name |-> <<2>>, ordinal |-> None]>>},
        b \in {8, 40}}

(* Delay imports: a descriptor, a name, an address table and a name table.  *)
DelayData(first, thunk, end) ==
    <<first, 0, 4, 1, 6, 1, 2, 2>> \o <<5, 0>> \o <<0, 0, 0, 0>> \o Pieces(thunk) \o Pieces(end)
    \o <<0, 0, 6, 0>> \o Zeros(6)
AbsoluteDelay ==        \* the same with addresses instead of offsets
    <<0, 0, 4, 2, 6, 2, 2, 3>> \o <<5, 0>> \o <<0, 0, 0, 0>> \o Pieces(30) \o Pieces(0) \o <<0, 0, 6, 0>> \o Zeros(6)
Delayed ==
    {[Pe EXCEPT !.bytes = <<1, 1, 1, 1>> \o d, !.delay = [rva |-> r, size |-> n],
                !.sections = <<PeSection(".rdata", 4, 28, 28, 4, {"r"})>>] :
        d \in {DelayData(f, t, e) : f \in {1, 0}, t \in {22, 35, 0, 31}, e \in {0, 22}} \union {AbsoluteDelay, Zeros(28)},
        r \in {0, 4, 30}, n \in {0, 8, 9, 16, 40}}

----------------------------------------------------------------------------
(* ELF: code of eight bytes and data of eight, the second with a larger     *)
(* memory size.                                                             *)

Segment(vaddr, mem, size, offset, flags) ==
    [load |-> TRUE, vaddr |-> vaddr, memSize |-> mem, fileSize |-> size, offset |-> offset, flags |-> flags]
Elf == [format |-> "elf", bytes |-> <<3, 4, 5, 4, 3, 1, 4, 6>> \o <<2, 0, 4, 2, 0, 0, 6, 0>>, architecture |-> "x86",
        dyn |-> TRUE, entry |-> 2, sectionHeaders |-> <<>>, relocations |-> <<>>, symbols |-> {}, stub |-> <<>>,
        dynamic |-> {},
        programHeaders |-> <<Segment(0, 8, 8, 0, {"r", "x"}), [Segment(0, 1, 1, 0, {}) EXCEPT !.load = FALSE],
                             Segment(10, 10, 8, 8, {"r", "w"})>>]

Symbol(v, name, function, defined) == [value |-> v, name |-> name, function |-> function, defined |-> defined]
Header(name, a, size) == [name |-> name, address |-> a, size |-> size]
Relocation(offset, symbol, kind, addend) == [offset |-> offset, symbol |-> symbol, kind |-> kind, addend |-> addend]
Stub(kind, value, libc) == [kind |-> kind, value |-> value, libc |-> libc]
Elves ==
    {[Elf EXCEPT !.dyn = d, !.architecture = a, !.entry = e, !.relocations = r] :
        d \in BOOLEAN, a \in {"x86", "arm64", "other"}, e \in {0, 2, 60},
        r \in {<<>>, <<Relocation(10, "", "relative", None), Relocation(12, "", "relative", 4),
                       Relocation(17, "", "relative", None)>>,
               <<Relocation(10, "exit", "jmp_slot", None), Relocation(12, "data", "copy", 6)>>,
               <<Relocation(60, "exit", "glob_dat", None)>>}}
    \union {[Elf EXCEPT !.dyn = d, !.sectionHeaders = h, !.symbols = s, !.dynamic = y] :
        d \in BOOLEAN,
        h \in {<<>>, <<Header("plt", 4, 4), Header("init", 0, 2), Header("init_array", 10, 4)>>,
               <<Header("fini_array", 10, 3)>>, <<Header("plt", 60, 40)>>, <<Header("init_array", 10, 8)>>},
        s \in {{}, {Symbol(4, "main", TRUE, TRUE), Symbol(6, "label", FALSE, TRUE), Symbol(2, "extern", TRUE, FALSE),
                    Symbol(0, "null", TRUE, TRUE)}},
        y \in {{}, {Header("fini", 6, 0), Header("fini_array", 12, 2)}}}
    \union {[Elf EXCEPT !.stub = s, !.entry = e] :
        s \in {<<>>, <<Stub("argument", 2, FALSE), Stub("next", 0, FALSE), Stub("argument", 20, FALSE), Stub("call", 0, TRUE)>>,
               <<Stub("argument", 20, FALSE), Stub("call", 0, FALSE)>>, <<Stub("argument", 20, FALSE), Stub("jump", 0, FALSE)>>,
               <<Stub("next", 0, FALSE), Stub("next", 0, FALSE), Stub("next", 0, FALSE), Stub("next", 0, FALSE), Stub("call", 0, TRUE)>>},
        e \in {0, 2}}
    \union {[Elf EXCEPT !.programHeaders = <<Segment(v, m, s, o, {"r", "x"}), Segment(20, 4, 4, 4, f)>>] :
        v \in {0, 4, 18}, m \in {0, 4, 8, 50}, s \in {0, 4, 12, 50}, o \in {0, 6, 12, 30}, f \in {{"r"}, {"r", "x"}}}

----------------------------------------------------------------------------
(* Mach-O: two segments behind a header; the second holds a fixup chain.    *)

Macho_(arch, size) ==
    [arch |-> arch, offset |-> 0, size |-> size, sizeOfCommands |-> 2,
     commands |-> <<[offset |-> HeaderSize, size |-> 2]>>,
     segments |-> <<[name |-> "__PAGEZERO", address |-> 0, size |-> 8, fileOffset |-> 0, fileSize |-> 0,
                     permissions |-> {}, consistent |-> TRUE],
                    [name |-> "__TEXT", address |-> 8, size |-> 12, fileOffset |-> 0, fileSize |-> 10,
                     permissions |-> {"r", "x"}, consistent |-> TRUE],
                    [name |-> "__DATA", address |-> 24, size |-> 8, fileOffset |-> 10, fileSize |-> 6,
                     permissions |-> {"r", "w"}, consistent |-> TRUE]>>,
     entry |-> 12, imports |-> <<>>, fixups |-> <<>>, exports |-> {}, symbols |-> {},
     sections |-> {[address |-> 12, size |-> 6]}, starts |-> {}, deltas |-> <<>>]

(* Two binds, the second at the end of its chain; the first may also loop.  *)
MachoBytes(next) ==
    <<0, 0, 0, 0, 3, 4, 5, 4, 3, 1>> \o <<0, 4 + next, 1, 4, 0, 0>>
Thin(bytes, slice) == [format |-> "macho", bytes |-> bytes, slices |-> <<slice>>]

Fixups(pages) == [format |-> 1, imports |-> <<"_exit", "_puts">>,
                  segments |-> <<[pageSize |-> 4, known |-> TRUE, offset |-> 16, pages |-> pages],
                                 [pageSize |-> 0, known |-> TRUE, offset |-> 0, pages |-> <<>>]>>]
Chains ==
    {Thin(MachoBytes(n), [Macho_(a, 16) EXCEPT !.fixups = f, !.imports = i]) :
        n \in {0, 1, 2}, a \in {"x86_64", "arm64"},
        f \in {<<>>, <<Fixups(<<0, None>>)>>, <<Fixups(<<0, 0>>)>>, <<[Fixups(<<0>>) EXCEPT !.format = 2]>>,
               <<[Fixups(<<0>>) EXCEPT !.segments = @ \o @ \o @]>>},
        i \in {<<>>, <<<<24, "_abort">>>>}}

(* What the parser lets through and the loader refuses. *)
BadMachos ==
    {Thin(MachoBytes(0), s) :
        s \in {[Macho_("x86_64", z) EXCEPT !.commands = c, !.sizeOfCommands = n, !.segments[3].fileOffset = o,
                                           !.segments[3].consistent = k, !.segments[3].size = g] :
            z \in {16, 20}, n \in {2, 20}, o \in {9, 10, 12}, k \in BOOLEAN, g \in {4, 8, 60},
            c \in {<<>>, <<[offset |-> HeaderSize, size |-> 2]>>, <<[offset |-> HeaderSize, size |-> 1]>>,
                   <<[offset |-> HeaderSize + 1, size |-> 2]>>, <<[offset |-> HeaderSize, size |-> 4]>>}}}
    \union {[format |-> "macho", bytes |-> MachoBytes(0) \o MachoBytes(0),
             slices |-> <<Macho_("i386", 16), [Macho_("arm64e", n) EXCEPT !.offset = 16]>>] : n \in {16, 17}}

(* The deltas of LC_FUNCTION_STARTS as the format writes them. *)
Encoded(d) ==
    IF d < Group THEN <<d>>
    ELSE IF d < Group * Group THEN <<Group + (d % Group), d \div Group>>
    ELSE <<Group + (d % Group), Group + ((d \div Group) % Group), d \div (Group * Group)>>
Starting(slice, d, e) ==
    [slice EXCEPT !.starts = {FlattenSeq([i \in DOMAIN d |-> Encoded(d[i])]) \o e}, !.deltas = d]
Started ==
    {Thin(MachoBytes(0), [Starting(Macho_("arm64", 16), d, e) EXCEPT
                             !.exports = {5, 40},
                             !.symbols = {[value |-> 13, inSection |-> TRUE], [value |-> 14, inSection |-> FALSE],
                                          [value |-> 8, inSection |-> TRUE]}]) :
        d \in {<<4>>, <<5, 1, 2>>, <<4, 20, 1>>, <<6, 18>>, <<>>}, e \in {<<>>, <<0, 1>>, <<Group>>, <<Group, Group, Group, 1>>}}

(* Two slices that could both be analysed, with functions of their own. *)
Fat ==
    {[format |-> "macho", bytes |-> MachoBytes(0) \o MachoBytes(0),
      slices |-> <<Starting(Macho_("x86_64", 16), d, <<>>),
                   [Starting(Macho_("arm64", 16), c, <<>>) EXCEPT !.offset = 16]>>] :
        d, c \in {<<4>>, <<5, 1, 2>>, <<>>}}

----------------------------------------------------------------------------
Shellcode == {[format |-> "sc", bytes |-> b, architecture |-> a] :
                 b \in {<<>>, <<3, 4, 5, 4, 3, 1, 4, 6>>, <<7, 3, 1, 3, 1, 3, 1, 0>>}, a \in {"x86", "x64"}}

Files == OddSections \union Tables \union Delayed \union Elves \union Chains \union BadMachos \union Started \union Fat
         \union Shellcode

FromFile(file, compat, arch) ==
    CASE file.format = "pe" -> FromPe(file)
      [] file.format = "elf" -> FromElf(file, compat)
      [] file.format = "macho" -> FromMacho(file, arch)
      [] OTHER -> FromShellcode(file)

----------------------------------------------------------------------------
(* What must survive. *)

Owners(image, a) == {i \in DOMAIN image.sections : ContainsVa(image.sections[i], a)}
Backs(image, o) ==
    {i \in DOMAIN image.sections : LET s == image.sections[i] IN o >= s.fileOffset /\ o - s.fileOffset < s.fileSize}
SourceBytes(file, arch) == IF file.format = "macho" THEN SliceBytes(file, SelectSlice(file, arch)) ELSE file.bytes

(* Words that the loader rewrote. *)
Rewritten(file, image) ==
    IF file.format # "elf" THEN {}
    ELSE UNION {r.offset + image.bias..r.offset + image.bias + PointerWidth - 1 : r \in Range(file.relocations)}

BytesAreTheFile(file, arch, image) ==
    \A a \in 0..Limit :
        LET o == VaToFileOffset(image, a)
            s == image.sections[CHOOSE i \in Owners(image, a) : TRUE]
        IN  Cardinality(Owners(image, a)) = 1 /\ a \notin Rewritten(file, image) =>
            /\ o # None => /\ BytesAt(image, a, 1) = <<SourceBytes(file, arch)[o + 1]>>
                           /\ Cardinality(Backs(image, o)) = 1 => FileOffsetToVa(image, o) = a
            /\ o = None /\ a - s.address < Len(s.data) => BytesAt(image, a, 1) = <<0>>

(* The link-time addresses that a table of an ELF file names. *)
LinkWord(file, a) ==
    LET p == SelectInSeq(file.programHeaders,
                         LAMBDA h : h.load /\ h.vaddr <= a /\ a + PointerWidth <= h.vaddr + h.fileSize)
    IN  IF p = 0 THEN None
        ELSE LET o == a - file.programHeaders[p].vaddr + file.programHeaders[p].offset
             IN  IF o + PointerWidth > Len(file.bytes) THEN None ELSE Word(SubSeq(file.bytes, o + 1, o + PointerWidth))
Named(file) ==
    {s.value : s \in file.symbols} \union {t.address : t \in Range(file.sectionHeaders) \union file.dynamic}
    \union {file.entry}
    \union UNION {{LinkWord(file, r.offset), r.addend} : r \in Range(file.relocations)}
    \union UNION {{LinkWord(file, t.address + i) : i \in 0..t.size} : t \in Range(file.sectionHeaders) \union file.dynamic}
    \union {i.value : i \in Range(file.stub)}
PrefixSums(base, deltas) == {base + FoldLeft(+, 0, SubSeq(deltas, 1, i)) : i \in DOMAIN deltas}
Guesses == {"Prologue", "FunctionSignature", "SweepCallTarget"}

SeedsAreNamed(file, arch, image, seeds) ==
    /\ \A s \in seeds : IsExecutableAddress(image, s[1])
    /\ file.format = "elf" =>
         \A s \in seeds : s[2] \notin Guesses =>
            \E n \in Named(file) \ {None} : s[1] \in {n, n + image.bias}
    /\ file.format = "macho" =>
         {s[1] : s \in {x \in seeds : x[2] = "MachoFunctionStarts"}}
           = {a \in PrefixSums(image.base, SelectSlice(file, arch).deltas) : a <= Limit /\ IsExecutableAddress(image, a)}
----------------------------------------------------------------------------
(* Evidence of an operating system.  A file holds up to three clues and may *)
(* be cut short so that one of its headers has nothing behind it.           *)

O == INSTANCE ElfOs WITH
    MaxAddress <- Limit, LinkModulus <- 16, EntSize <- 2, BloomWord <- 1, Frame <- 1, Newline <- 2, MaxHashChain <- 4,
    VdsoPairs <- {{"__vdso_time", "LINUX_2.6"}}

Texts(texts) == [O!NoContents EXCEPT !.words = Zeros(8), !.texts = texts]
ElfSegment(type, contents) ==
    [type |-> type, inside |-> TRUE, flags |-> {}, vaddr |-> 0, memSize |-> 0, contents |-> contents]
ElfSection(type, name, contents) ==
    [type |-> type, inside |-> TRUE, name |-> name, addr |-> 0, link |-> 1, contents |-> contents]
Note(type, name, tag) == [O!NoContents EXCEPT !.note = [type |-> type, name |-> name, tag |-> tag]]
SectionNames == 1 :> {".comment"} @@ 2 :> {".go.buildinfo"} @@ 3 :> {".note.go.buildid"} @@ 4 :> {".data"}
Strings == 1 :> {"GLIBC"} @@ 2 :> {"libandroid.so"} @@ 3 :> {"linux"} @@ 4 :> {"libc.so"} @@ 5 :> {"CXXABI"}

(* A clue: its rank, what it says, the segments and sections it is made of, *)
(* and what it needs besides.  A cut is a rank or one of these.             *)
NamesCut == 20
StringsCut == 21
Clue(rank, os, segments, sections, needs) ==
    [rank |-> rank, os |-> os, segments |-> segments, sections |-> sections, needs |-> needs]
Versions ==
    [O!NoContents EXCEPT
        !.needs = 0 :> [version |-> 1, file |-> 4, count |-> 1, aux |-> 1, next |-> 2]
                  @@ 2 :> [version |-> 1, file |-> 4, count |-> 2, aux |-> 1, next |-> 0],
        !.auxes = 1 :> [name |-> 5, next |-> 0] @@ 3 :> [name |-> 5, next |-> 1] @@ 4 :> [name |-> 1, next |-> 0]]
GoInfo(flags, texts) ==
    [O!NoContents EXCEPT !.words = <<0, 8, flags, 0, 40, 0, 42, 3, 1, 0, 2, 0>>, !.texts = (0 :> {"Go buildinf:"}) @@ texts]
GoSegment ==
    [ElfSegment("load", [O!NoContents EXCEPT !.words = <<42, 3, 0, 2, 1>>, !.texts = 3 :> {"GOOS=illumos"} @@ 4 :> {"GOOS=aix"}])
        EXCEPT !.vaddr = 40, !.memSize = 6]
Clues ==
    {Clue(2, "android", <<ElfSegment("note", Note(1, "Android", None))>>, <<>>, {}),
     Clue(2, "hurd", <<ElfSegment("note", Note(1, "GNU", None)), ElfSegment("note", Note(3, "Linux", None)),
                       ElfSegment("note", Note(1, "GNU", 1))>>, <<>>, {}),
     Clue(3, "netbsd", <<>>, <<ElfSection("note", 4, Note(3, "Android", None)), ElfSection("note", 4, Note(3, "NetBSD", None))>>, {}),
     Clue(4, "linux", <<ElfSegment("interp", Texts(0 :> {"ld-linux"}))>>, <<>>, {}),
     Clue(5, "linux", <<>>, <<ElfSection("verneed", 4, Versions)>>, {StringsCut}),
     Clue(5, "hurd", <<ElfSegment("interp", Texts(0 :> {"/ld.so"}))>>, <<ElfSection("verneed", 4, Versions)>>, {StringsCut}),
     Clue(6, "android", <<ElfSegment("dynamic", [O!NoContents EXCEPT !.entries =
                            <<<<"needed", 4>>, <<"needed", 2>>, <<"strtab", 30>>, <<"strsz", 6>>, <<"null", 0>>, <<"symtab", 1>>>>])>>,
          <<>>, {StringsCut}),
     Clue(7, "linux", <<>>, <<ElfSection("symtab", 4, [O!NoContents EXCEPT !.symbols = 0 :> [name |-> 4] @@ 2 :> [name |-> 3]])>>,
          {StringsCut}),
     Clue(8, "solaris", <<>>, <<ElfSection("progbits", 2, GoInfo(2, 6 :> {"GOOS=solaris", "GOOS=windows"}))>>, {NamesCut}),
     Clue(8, "illumos", <<GoSegment>>, <<ElfSection("progbits", 2, GoInfo(0, <<>>))>>, {NamesCut}),
     Clue(9, "openbsd", <<ElfSegment("load", Texts(2 :> {"/src/runtime/os_", "openbsd"} @@ 5 :> {"/src/runtime/os_", "aix"}))>>,
          <<ElfSection("note", 3, O!NoContents)>>, {NamesCut}),
     Clue(9, "solaris", <<ElfSegment("load", Texts(2 :> {"/src/runtime/rt0_", "solaris"}))>>,
          <<ElfSection("note", 3, O!NoContents)>>, {NamesCut}),
     Clue(10, "linux", <<>>, <<ElfSection("progbits", 1, Texts(0 :> {"GCC:", "Alpine", "Android"}))>>, {NamesCut}),
     Clue(11, "linux", <<ElfSegment("load", Texts(2 :> {"__vdso_time"} @@ 5 :> {"LINUX_2.6"}))>>, <<>>, {}),
     Clue(8, None, <<ElfSegment("load", Texts(2 :> {"__vdso_time"}))>>,
          <<ElfSection("progbits", 2, GoInfo(2, 6 :> {"GOOS=windows"}))>>, {NamesCut})}

Cut(headers) == [i \in DOMAIN headers |-> [headers[i] EXCEPT !.inside = FALSE]]
CutIf(b, headers) == IF b THEN Cut(headers) ELSE headers
(* In front of the clues: a damaged note, the names and the strings. *)
Evident(clues, osabi, cut) ==
    LET parts == SetToSeq(clues)
        sections == CutIf(cut = NamesCut, <<ElfSection("strtab", 4, Texts(SectionNames))>>)
                    \o CutIf(cut = StringsCut, <<[ElfSection("strtab", 4, Texts(Strings)) EXCEPT !.addr = 30]>>)
                    \o FlattenSeq([i \in DOMAIN parts |-> CutIf(cut = parts[i].rank, parts[i].sections)])
        intact == {c \in clues : c.os # None /\ cut # c.rank /\ cut \notin c.needs}
    IN  [elf |-> [parses |-> TRUE, osabi |-> osabi, machine |-> "i386", namesIndex |-> 0, sections |-> sections,
                  sectionCount |-> Len(sections),
                  segments |-> Cut(<<ElfSegment("note", Note(1, "Linux", None))>>)
                               \o FlattenSeq([i \in DOMAIN parts |-> CutIf(cut = parts[i].rank, parts[i].segments)])],
         os |-> IF osabi = 9 THEN "freebsd" ELSE IF intact = {} THEN "unknown"
                ELSE (CHOOSE c \in intact : \A d \in intact : c.rank <= d.rank).os,
         imports |-> <<>>]

(* A linked file with u undefined and d defined symbols behind the null     *)
(* symbol, as a linker lays it out.                                         *)
SymbolKinds == {<<"func", 0>>, <<"object", 0>>, <<"notype", 0>>, <<"func", 5>>, <<"unnamed", 0>>}
SymbolNames == <<{"read"}, {"write"}, {"open"}, {"close"}>>
Dynamic(undefined, d, style, buckets, cut) ==
    LET u == Len(undefined)
        count == 1 + u + d
        hash == CASE style = "gnu" -> <<buckets, 1 + u, 1, 0>> \o <<0>>
                                      \o [i \in 1..buckets |-> IF i <= d THEN u + i ELSE 0]
                                      \o [i \in 1..d |-> IF i = d \/ i < buckets THEN 3 ELSE 2]
                  [] style = "sysv" -> <<1, count>>
                  [] OTHER -> <<>>
        symbolsAt == Len(hash) + (IF style = "end" THEN count ELSE 0)
        stringsAt == Len(hash) + (IF style = "end" THEN 0 ELSE 2 * count)
        symbol(i) == IF i \notin 1..u THEN [name |-> i, type |-> "func", value |-> i, section |-> IF i = 0 THEN 0 ELSE 1]
                     ELSE IF undefined[i][1] = "unnamed" THEN [name |-> 0, type |-> "func", value |-> 0, section |-> 0]
                     ELSE [name |-> i, type |-> undefined[i][1], value |-> undefined[i][2], section |-> 0]
        memory == [O!NoContents EXCEPT !.words = hash \o Zeros(3 * count),
                       !.symbols = [p \in {symbolsAt + 2 * i : i \in 0..count - 1} |-> symbol((p - symbolsAt) \div 2)]]
        strings == [O!NoContents EXCEPT !.words = Zeros(count), !.texts = [i \in 1..count - 1 |-> SymbolNames[i]]]
        entries == (IF hash = <<>> THEN <<>> ELSE <<<<IF style = "gnu" THEN "gnu_hash" ELSE "hash", 10>>>>)
                   \o <<<<"symtab", 10 + symbolsAt>>, <<"strtab", 10 + stringsAt>>, <<"strsz", count>>, <<"null", 0>>>>
        load == [ElfSegment("load", memory) EXCEPT !.vaddr = 10, !.memSize = Len(memory.words) + 2]
    IN  [elf |-> [parses |-> TRUE, osabi |-> 0, machine |-> "amd64", namesIndex |-> 0, sectionCount |-> 1,
                  sections |-> CutIf(cut = "strings", <<[ElfSection("strtab", 0, strings) EXCEPT !.addr = 10 + stringsAt]>>),
                  segments |-> Cut(<<load>>) \o CutIf(cut = "load", <<load>>)
                               \o CutIf(cut = "dynamic", <<ElfSegment("dynamic", [O!NoContents EXCEPT !.entries = entries])>>)],
         os |-> "unknown",
         imports |-> IF cut # None THEN <<>>
                     ELSE [i \in {i \in 1..u : undefined[i] \in {<<"func", 0>>, <<"object", 0>>}} |-> SymbolNames[i]]]

(* Each with what there is to find in it. *)
Combinations == {k \in {{c, d} : c \in Clues, d \in Clues} : \A c \in k, d \in k : c = d \/ c.rank # d.rank}
ElfSamples ==
    UNION {{Evident(k, 0, cut) : cut \in {0, NamesCut, StringsCut} \union {c.rank : c \in k}} : k \in Combinations}
    \union {Evident({c}, 9, 0) : c \in Clues}
    \union {Dynamic(undefined, d, "gnu", buckets, None) :
               undefined \in UNION {[1..n -> SymbolKinds] : n \in 0..2}, d \in 0..2, buckets \in 1..2}
    \union {Dynamic(undefined, d, style, 1, None) :
               undefined \in UNION {[1..n -> SymbolKinds] : n \in 1..2}, d \in 0..1, style \in {"sysv", "after", "end"}}
    \union {Dynamic(<<<<"func", 0>>>>, d, style, 1, cut) :
               d \in 0..1, style \in {"gnu", "sysv", "after", "end"}, cut \in {"load", "dynamic", "strings"}}
    \union {[elf |-> [parses |-> FALSE, osabi |-> 9, machine |-> "amd64", namesIndex |-> 0, sectionCount |-> 0,
                      sections |-> <<>>, segments |-> <<>>],
             os |-> "unknown", imports |-> <<>>]}

=============================================================================
