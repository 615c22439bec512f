------------------------------- MODULE ElfOs --------------------------------
(***************************************************************************)
(* extract/loader/elf_os.rs: which operating system an ELF file is for,    *)
(* guessed from eleven kinds of evidence, and which symbols it imports.    *)
(*                                                                         *)
(* The contents of a segment or section are cells, counted from zero:      *)
(* words, of which a text or a symbol may begin at some.  A text is the    *)
(* set of the fragments it contains.  What parse_note, the dynamic array   *)
(* and the version records make of the same bytes stands beside them.      *)
(***************************************************************************)
EXTENDS Integers, Sequences, SequencesExt, FiniteSets, FiniteSetsExt, TLC

CONSTANTS
    MaxAddress,     \* largest u64
    LinkModulus,    \* sh_link is narrowed to u16
    EntSize,        \* cells of a symbol
    BloomWord,      \* cells of a word of the bloom filter
    Frame,          \* cells of the frame around Go's module information (0x10)
    Newline,        \* the cell '\n'
    MaxHashChain,   \* 10,000,000
    VdsoPairs,      \* VDSO_PAIRS
    None            \* Option::None

NoContents == [words |-> <<>>, texts |-> <<>>, symbols |-> <<>>, note |-> None, entries |-> <<>>,
               needs |-> <<>>, auxes |-> <<>>]

(* A range of the cells of some contents, zeroes behind them. *)
Slice(contents, from, size) == [contents |-> contents, from |-> from, size |-> size]
Cell(s, i) == IF s.from + i < Len(s.contents.words) THEN s.contents.words[s.from + i + 1] ELSE 0
Fragments(s) == UNION {s.contents.texts[p] : p \in {p \in DOMAIN s.contents.texts : s.from <= p /\ p < s.from + s.size}}
Whole(contents) == Slice(contents, 0, Len(contents.words))

(* read_cstr *)
Utf8(text) == IF "not UTF-8" \in text THEN None ELSE text
TextAt(s, offset) ==
    IF offset > s.size THEN None
    ELSE IF offset < s.size /\ s.from + offset \in DOMAIN s.contents.texts
    THEN Utf8(s.contents.texts[s.from + offset]) ELSE {}
Has(text, fragment) == IF text = None THEN FALSE ELSE fragment \in text

----------------------------------------------------------------------------
(* Headers.  An entry that cannot be read is passed over. *)

\* Mutant: an entry that cannot be read ends the table.
ProgramHeaders_Stop(elf) ==
    LET bad == {i \in DOMAIN elf.segments : ~elf.segments[i].inside}
    IN  IF bad = {} THEN elf.segments ELSE SubSeq(elf.segments, 1, Min(bad) - 1)

ProgramHeaders(elf) == SelectSeq(elf.segments, LAMBDA h : h.inside)

(* parse_section_header: the count of sections is not a bound for a link.   *)
ParseSectionHeader(elf, i) ==
    IF i >= Len(elf.sections) THEN None
    ELSE LET h == elf.sections[i + 1]
         IN  IF h.type = "nobits" THEN [h EXCEPT !.contents = NoContents]
             ELSE IF h.inside THEN h ELSE None
SectionHeaders(elf) ==
    SelectSeq([i \in 1..elf.sectionCount |-> ParseSectionHeader(elf, i - 1)], LAMBDA h : h # None)
Linked(elf, h) == ParseSectionHeader(elf, h.link % LinkModulus)
TextIn(section, offset) == IF section = None THEN None ELSE TextAt(Whole(section.contents), offset)
NameOf(elf, h) == TextIn(ParseSectionHeader(elf, elf.namesIndex), h.name)
OfType(headers, type) == SelectSeq(headers, LAMBDA h : h.type = type)

(* What the first header to say something says. *)
FirstSaid(headers, Says(_)) ==
    LET i == SelectInSeq(headers, LAMBDA h : Says(h) # None) IN IF i = 0 THEN None ELSE Says(headers[i])

(* dynamic_entries: of every PT_DYNAMIC, up to its DT_NULL. *)
UpTo(entries, i) == IF i = 0 THEN entries ELSE SubSeq(entries, 1, i - 1)
DynamicEntries(segments) ==
    FlattenSeq([i \in DOMAIN segments |->
        IF segments[i].type # "dynamic" THEN <<>>
        ELSE UpTo(segments[i].contents.entries, SelectInSeq(segments[i].contents.entries, LAMBDA e : e[1] = "null"))])

(* Elf::parse.  The tables are read anew for every guess, to the same end.  *)
Parse(elf) ==
    LET segments == ProgramHeaders(elf)
    IN  elf @@ [programHeaders |-> segments, sectionHeaders |-> SectionHeaders(elf), entries |-> DynamicEntries(segments)]

(* linker *)
Linker(elf) ==
    LET i == SelectInSeq(elf.programHeaders, LAMBDA h : h.type = "interp")
    IN  IF i = 0 THEN None ELSE TextIn(elf.programHeaders[i], 0)

ValueOf(elf, i) == IF i = 0 THEN None ELSE elf.entries[i][2]
Entry(elf, tag) == ValueOf(elf, SelectInSeq(elf.entries, LAMBDA e : e[1] = tag))

(* strtab: in the first section that covers DT_STRTAB; a section that runs  *)
(* past the last address ends the search.                                   *)
EndOf(h) == h.addr + Len(h.contents.words)
Covers(h, a) == h.addr # 0 /\ h.addr <= a /\ (a < EndOf(h) \/ EndOf(h) > MaxAddress)
StringsIn(h, address, size) ==
    IF EndOf(h) > MaxAddress \/ address + size > EndOf(h) THEN None ELSE Slice(h.contents, address - h.addr, size)
StringsAt(elf, address, size) ==
    IF address = None \/ size = None THEN None
    ELSE LET covering == SelectInSeq(elf.sectionHeaders, LAMBDA h : Covers(h, address))
         IN  IF covering = 0 THEN None ELSE StringsIn(elf.sectionHeaders[covering], address, size)
StrTab(elf) == StringsAt(elf, Entry(elf, "strtab"), Entry(elf, "strsz"))

(* versions_needed: the versions of all libraries.  Both lists are linked   *)
(* by distances, which only lead forward; a record that cannot be read, or  *)
(* is of another version, ends its list.                                    *)
VersionNames(contents, linked) ==
    LET auxes[n \in Nat, o \in Nat] ==
            IF n = 0 \/ o \notin DOMAIN contents.auxes THEN {}
            ELSE LET a == contents.auxes[o]
                 IN  {TextIn(linked, a.name)} \union (IF a.next = 0 THEN {} ELSE auxes[n - 1, o + a.next])
        needs[o \in Nat] ==
            IF o \notin DOMAIN contents.needs THEN {}
            ELSE LET v == contents.needs[o]
                 IN  IF v.version # 1 \/ TextIn(linked, v.file) = None THEN {}
                     ELSE auxes[v.count, o + v.aux] \union (IF v.next = 0 THEN {} ELSE needs[o + v.next])
    IN  needs[0] \ {None}
VersionsNeeded(elf) ==
    UNION {IF Linked(elf, h) = None THEN {} ELSE VersionNames(h.contents, Linked(elf, h))
              : h \in {h \in Range(elf.sectionHeaders) : h.type = "verneed"}}

(* read_data: the first segment that covers an address answers for it. *)
ReadIn(h, address, size) ==
    IF address - h.vaddr + size > Max({Len(h.contents.words), h.memSize}) THEN None
    ELSE Slice(h.contents, address - h.vaddr, size)
ReadData(elf, address, size) ==
    LET i == SelectInSeq(elf.programHeaders, LAMBDA h :
                 h.vaddr + h.memSize <= MaxAddress /\ h.vaddr <= address /\ address < h.vaddr + h.memSize)
    IN  IF i = 0 THEN None ELSE ReadIn(elf.programHeaders[i], address, size)

----------------------------------------------------------------------------
(* Guesses, the best evidence first. *)

OsAbi == <<"hpux", "netbsd", "linux", "hurd", "86open", "solaris", "aix", "irix", "freebsd", "tru64", "modesto",
           "openbsd", "openvms", "nsk", "aros", "fenixos", "cloud">>
GnuAbiTag == <<"linux", "hurd", "solaris", "freebsd", "netbsd", "syllable", "nacl">>
FromOsAbi(elf) == IF elf.osabi \in DOMAIN OsAbi THEN OsAbi[elf.osabi] ELSE None

(* parse_note and note_abi_tag.  A note's tag is None where the description *)
(* is too short or not there.                                               *)
NoteNames == [Linux |-> "linux", OpenBSD |-> "openbsd", NetBSD |-> "netbsd", FreeBSD |-> "freebsd"]
OsOfNote(note) ==
    IF note.name = "GNU"
    THEN IF note.tag = None THEN None ELSE IF note.tag + 1 \in DOMAIN GnuAbiTag THEN GnuAbiTag[note.tag + 1] ELSE None
    ELSE IF note.name \in DOMAIN NoteNames THEN NoteNames[note.name] ELSE None
FromPhNotes(elf) ==
    FirstSaid(OfType(elf.programHeaders, "note"), LAMBDA h :
        IF h.contents.note = None THEN None
        ELSE IF h.contents.note.type # 1 THEN None
        ELSE IF h.contents.note.name = "Android" THEN "android" ELSE OsOfNote(h.contents.note))
FromShNotes(elf) ==
    FirstSaid(OfType(elf.sectionHeaders, "note"), LAMBDA h :
        IF h.contents.note = None THEN None ELSE OsOfNote(h.contents.note))

FromLinker(elf) == IF Has(Linker(elf), "ld-linux") THEN "linux" ELSE None

FromAbiVersions(elf) ==
    IF ~\E v \in VersionsNeeded(elf) : "GLIBC" \in v THEN None
    ELSE IF elf.machine = "i386" /\ Has(Linker(elf), "/ld.so") /\ ~Has(Linker(elf), "ld-linux") THEN "hurd"
    ELSE "linux"

(* needed *)
OsOfLibrary(library) ==
    IF Has(library, "libmachuser.so") \/ Has(library, "libhurduser.so") THEN "hurd"
    ELSE IF Has(library, "libandroid.so") \/ Has(library, "liblog.so") THEN "android" ELSE None
FromLibraries(elf, strings) ==
    IF strings = None THEN None
    ELSE FirstSaid(elf.entries, LAMBDA e : IF e[1] = "needed" THEN OsOfLibrary(TextAt(strings, e[2])) ELSE None)
FromNeeded(elf) == FromLibraries(elf, StrTab(elf))

(* The first SHT_SYMTAB counts, and none when its strings are missing. *)
FromSymbols(h, linked) ==
    IF \E p \in DOMAIN h.contents.symbols : Has(TextIn(linked, h.contents.symbols[p].name), "linux") THEN "linux" ELSE None
FromSymtab(elf) ==
    LET i == SelectInSeq(elf.sectionHeaders, LAMBDA h : h.type = "symtab")
    IN  IF i = 0 THEN None ELSE FromSymbols(elf.sectionHeaders[i], Linked(elf, elf.sectionHeaders[i]))

(* The Go build information: strings in place, or a pointer to a slice      *)
(* whose frame is taken off.  Some values of GOOS say nothing.              *)
GoOs == <<<<"GOOS=aix", "aix">>, <<"GOOS=android", "android">>, <<"GOOS=dragonfly", "dragonfly BSD">>,
          <<"GOOS=freebsd", "freebsd">>, <<"GOOS=hurd", "hurd">>, <<"GOOS=illumos", "illumos">>,
          <<"GOOS=linux", "linux">>, <<"GOOS=netbsd", "netbsd">>, <<"GOOS=openbsd", "openbsd">>,
          <<"GOOS=solaris", "solaris">>, <<"GOOS=zos", "z/os">>, <<"GOOS=windows", None>>, <<"GOOS=plan9", None>>,
          <<"GOOS=ios", None>>, <<"GOOS=darwin", None>>, <<"GOOS=nacl", None>>, <<"GOOS=js", None>>>>
FirstKey(table, fragments) ==
    LET i == SelectInSeq(table, LAMBDA row : row[1] \in fragments) IN IF i = 0 THEN None ELSE table[i][2]
GoBuildInfo(elf) ==
    LET named == SelectInSeq(elf.sectionHeaders, LAMBDA h : Has(NameOf(elf, h), ".go.buildinfo"))
        data == SelectInSeq(elf.programHeaders, LAMBDA h : h.type = "load" /\ h.flags \intersect {"w", "x"} = {"w"})
    IN  IF named # 0 THEN Whole(elf.sectionHeaders[named].contents)
        ELSE IF data # 0 THEN Whole(elf.programHeaders[data].contents) ELSE None
Follow(elf, header) == IF header = None THEN None ELSE ReadData(elf, Cell(header, 0), Cell(header, 1))
ReadGoSlice(elf, address) == Follow(elf, ReadData(elf, address, 2))
Unframed(s) ==
    IF s.size > Frame /\ s.size - Frame >= Frame /\ Cell(s, s.size - Frame - 1) = Newline
    THEN Slice(s.contents, s.from + Frame, s.size - 2 * Frame) ELSE s
OsOfModules(modules) == IF modules = None THEN None ELSE FirstKey(GoOs, Fragments(Unframed(modules)))
OsOfBuild(elf, data, at) ==
    IF at + 2 >= data.size THEN None
    ELSE IF Cell(data, at + 1) \notin {4, 8} THEN None
    ELSE IF Cell(data, at + 2) \div 2 % 2 = 1 THEN FirstKey(GoOs, Fragments(data))
    ELSE IF at + 4 >= data.size THEN None ELSE OsOfModules(ReadGoSlice(elf, Cell(data, at + 4)))
FromBuildInfo(elf, data) ==
    IF data = None THEN None
    ELSE LET magics == {p \in DOMAIN data.contents.texts : "Go buildinf:" \in data.contents.texts[p]}
         IN  IF magics = {} THEN None ELSE OsOfBuild(elf, data, Min(magics))
FromGoBuildInfo(elf) == FromBuildInfo(elf, GoBuildInfo(elf))

(* The names of runtime sources in a Go binary: the first per segment. *)
RuntimeOs == <<<<"aix", "aix">>, <<"android", "android">>, <<"dragonfly", "dragonfly BSD">>, <<"freebsd", "freebsd">>,
               <<"illumos", "illumos">>, <<"linux", "linux">>, <<"netbsd", "netbsd">>, <<"openbsd", "openbsd">>,
               <<"solaris", "solaris">>>>
SourceOs == RuntimeOs \o <<<<"only_solaris", "solaris">>, <<"unix_nonlinux", "unix">>>>
IsGoBinary(elf) ==
    \E h \in Range(elf.sectionHeaders) : \E name \in {".note.go.buildid", ".go.buildinfo"} : Has(NameOf(elf, h), name)
OsOfSource(text, table) == IF Utf8(text) = None THEN None ELSE FirstKey(table, text)
FromSourceNames(elf, needle, table) ==
    FirstSaid(elf.programHeaders, LAMBDA h :
        LET found == {p \in DOMAIN h.contents.texts : needle \in h.contents.texts[p]}
        IN  IF found = {} THEN None ELSE OsOfSource(h.contents.texts[Min(found)], table))
OrElse(os, other) == IF os # None THEN os ELSE other
FromGoSource(elf) ==
    IF ~IsGoBinary(elf) THEN None
    ELSE OrElse(FromSourceNames(elf, "/src/runtime/os_", SourceOs), FromSourceNames(elf, "/src/runtime/rt0_", RuntimeOs))

OsOfComment(comment) ==
    IF Utf8(comment) = None \/ "GCC:" \notin comment THEN None
    ELSE IF comment \intersect {"Debian", "Ubuntu", "Red Hat", "Alpine"} # {} THEN "linux"
    ELSE IF "Android" \in comment THEN "android" ELSE None
FromIdent(elf) ==
    FirstSaid(OfType(elf.sectionHeaders, "progbits"), LAMBDA h :
        IF Has(NameOf(elf, h), ".comment") THEN OsOfComment(Fragments(Whole(h.contents))) ELSE None)

FromVdso(elf) ==
    IF \E h \in Range(elf.programHeaders) : \E pair \in VdsoPairs : pair \subseteq Fragments(Whole(h.contents))
    THEN "linux" ELSE None

Guesses(elf) ==
    <<FromOsAbi(elf), FromPhNotes(elf), FromShNotes(elf), FromLinker(elf), FromAbiVersions(elf), FromNeeded(elf),
      FromSymtab(elf), FromGoBuildInfo(elf), FromGoSource(elf), FromIdent(elf), FromVdso(elf)>>
DetectElfOs(elf) ==
    IF ~elf.parses THEN "unknown" ELSE FoldLeft(OrElse, None, Append(Guesses(Parse(elf)), "unknown"))

----------------------------------------------------------------------------
(* dynamic_import_symbol_names.  How many symbols there are, a hash table   *)
(* tells, or whatever comes after the symbols.                              *)

(* gnu_hash_num_symbols: the chain of the last bucket ends at an odd word.  *)
ChainEnd(elf, chains, symOffset, first) ==
    LET walk[n \in Nat] ==
            IF n = MaxHashChain THEN None
            ELSE LET word == ReadData(elf, chains + first + n - symOffset, 1)
                 IN  IF word = None THEN None ELSE IF Cell(word, 0) % 2 = 1 THEN first + n + 1 ELSE walk[n + 1]
    IN  walk[0]
CountAt(elf, buckets, at, symOffset) ==
    IF buckets = None THEN None
    ELSE LET last == Max({Cell(buckets, i) : i \in 0..buckets.size - 1})
         IN  IF buckets.size = 0 THEN None
             ELSE IF last < symOffset THEN symOffset ELSE ChainEnd(elf, at + buckets.size, symOffset, last)
BucketsAt(header, address) == address + 4 + Cell(header, 2) * BloomWord
GnuHashCount(elf, header, address) ==
    IF header = None THEN None
    ELSE CountAt(elf, ReadData(elf, BucketsAt(header, address), Cell(header, 0)), BucketsAt(header, address), Cell(header, 1))
ElfHashCount(header) == IF header = None THEN None ELSE Cell(header, 1)
NearestCount(elf, table) ==
    LET above == {e[2] : e \in {e \in Range(elf.entries) : e[2] > table}}
        loads == {h \in Range(elf.programHeaders) : h.type = "load"}
        LoadEnd(h) == h.vaddr + Len(h.contents.words)
        Holds(h) == h.type = "load" /\ h.vaddr <= table /\ table <= LoadEnd(h)
        last == SelectLastInSeq(elf.programHeaders, Holds)
    IN  IF above # {} THEN (Min(above) - table) \div EntSize
        ELSE IF last = 0 \/ \E h \in loads : LoadEnd(h) > MaxAddress THEN None
        ELSE (LoadEnd(elf.programHeaders[last]) - table) \div EntSize
SymbolCount(elf, table, gnu, hash) ==
    IF gnu # None THEN GnuHashCount(elf, ReadData(elf, gnu, 4), gnu)
    ELSE IF hash # None THEN ElfHashCount(ReadData(elf, hash, 2))
    ELSE NearestCount(elf, table)

IsImport(symbol) ==
    symbol.name # 0 /\ symbol.type \in {"func", "object", "ifunc"} /\ symbol.value = 0 /\ symbol.section = 0
NamedImports(symbols, count, strings) ==
    LET at == [i \in 0..count - 1 |-> symbols.from + i * EntSize]
        name == [i \in {i \in DOMAIN at : at[i] \in DOMAIN symbols.contents.symbols} |->
                    IF IsImport(symbols.contents.symbols[at[i]])
                    THEN TextAt(strings, symbols.contents.symbols[at[i]].name) ELSE None]
    IN  [i \in {i \in DOMAIN name : name[i] \notin {None, {}}} |-> name[i]]
ImportsIn(elf, table, count, strings) ==
    IF count = None \/ strings = None THEN <<>>
    ELSE LET symbols == ReadData(elf, table, count * EntSize)
         IN  IF symbols = None THEN <<>> ELSE NamedImports(symbols, count, strings)
ImportsAt(elf, table) ==
    IF table = None THEN <<>>
    ELSE ImportsIn(elf, table, SymbolCount(elf, table, Entry(elf, "gnu_hash"), Entry(elf, "hash")), StrTab(elf))
ImportsOf(elf) == ImportsAt(elf, Entry(elf, "symtab"))
DynamicImports(elf) == IF elf.parses THEN ImportsOf(Parse(elf)) ELSE <<>>
=============================================================================
