------------------------------- MODULE MCFlirt ------------------------------
(* Small programs and signature files for Flirt, and what a recognised name *)
(* must rest on.                                                            *)
EXTENDS Flirt

Named(kind, offset, name) == [kind |-> kind, offset |-> offset, name |-> name]
Public(name) == Named("public", 0, name)
Signature(pattern, rest, names) == [pattern |-> pattern, rest |-> rest, names |-> names]

Signatures ==
    {Signature(<<1, 2>>, {}, <<Public("a")>>),
     Signature(<<1, None>>, {<<3, 3>>}, <<Public("_a"), Named("local", 3, "b")>>),
     Signature(<<1, 2, 3>>, {}, <<Public("f"), Named("reference", 2, "g")>>),
     Signature(<<None, 2, 4>>, {}, <<Public("g"), Named("reference", 2, "h"), Named("local", 5, "end")>>),
     Signature(<<2, 5>>, {}, <<Public("h")>>),
     Signature(<<2, None>>, {<<9, 1>>}, <<Public("far")>>),
     Signature(<<2>>, {}, <<Named("local", 0, "h"), Named("reference", 0, "f"), Named("local", -3, "g")>>),
     Signature(<<1>>, {}, <<Named("reference", 0, "."), Public("d")>>),
     Signature(<<1, 2, 4>>, {}, <<Named("local", 3, "x")>>)}
Databases == {<<s>> : s \in Signatures} \union {<<s, t>> : s, t \in Signatures}
    \union {<<s, t, u>> : s \in {x \in Signatures : RootName(x) = "f"}, t \in {x \in Signatures : RootName(x) = "g"},
                          u \in {x \in Signatures : RootName(x) \in {"h", "d"}}}
Sources ==
    {[kind |-> "file", files |-> <<[name |-> 1, path |-> 1, supported |-> b, signatures |-> d]>>] :
        b \in BOOLEAN, d \in Databases}
    \union {[kind |-> "directory",
             files |-> <<[name |-> n, path |-> 1, supported |-> b, signatures |-> d],
                         [name |-> 2, path |-> 2, supported |-> TRUE, signatures |-> e]>>] :
               n \in 1..3, b \in BOOLEAN, d \in {<<s>> : s \in Signatures},
               e \in {None} \union {<<s>> : s \in {t \in Signatures : Len(t.pattern) = 2}}}
    \union {[kind |-> "missing", files |-> <<>>]}

(* Three functions of two instructions each; the first calls the second,    *)
(* the second the third, and the third may call the first.                  *)
Program(order, refs, counts) ==
    [format |-> "pe", bytes |-> <<1, 2, 3, 1, 2, 4, 2, 5, 6>>, executable |-> 1..9,
     functions |-> 1 :> 3 @@ 4 :> 3 @@ 7 :> 2,
     instructions |-> 1 :> 2 @@ 3 :> 1 @@ 4 :> 2 @@ 6 :> 1 @@ 7 :> 1 @@ 8 :> 1,
     codeRefs |-> {<<3, 4>>, <<6, 7>>} \union refs, dataRefs |-> {4},
     functionOrder |-> order, instructionOrder |-> 1 :> 0 @@ 3 :> 1 @@ 4 :> 2 @@ 6 :> 3 @@ 7 :> 4,
     analysisCount |-> counts, flirtCount |-> counts,
     locationCount |-> IF counts = <<>> THEN <<>> ELSE 1 :> 3 @@ 4 :> 6 @@ 7 :> 6]
Programs ==
    {Program(order, refs, counts) :
        order \in {<<>>, 1 :> 0 @@ 4 :> 1 @@ 7 :> 2, 1 :> 2 @@ 4 :> 1 @@ 7 :> 0},
        refs \in {{}, {<<7, 1>>, <<6, 1>>}}, counts \in {<<>>, 1 :> 1 @@ 4 :> 2 @@ 7 :> 3}}
    \union {[Program(<<>>, {}, <<>>) EXCEPT !.format = "elf"]}

(* The code as it was when the functions of done were there. *)
SoFar(an, done) ==
    [an EXCEPT !.functions = [f \in done |-> @[f]],
               !.instructions = [i \in {x \in DOMAIN @ : \E f \in done : f <= x /\ x < f + an.functions[f]} |-> @[i]]]

(* Blocks of the same three functions; two share one. *)
Block(a, tails) == [address |-> a, tails |-> tails]
Layouts ==
    {1 :> <<Block(1, t), Block(3, <<>>)>> @@ 4 :> <<Block(4, u), Block(7, <<9>>)>> @@ 7 :> <<Block(7, <<9>>), Block(8, v)>> :
        t, u, v \in {<<>>, <<1>>, <<4>>, <<7, 4>>}}

----------------------------------------------------------------------------
Scan(signatures, bytes) == SelectSeq(signatures, LAMBDA s : SignatureHeadMatches(s, bytes) /\ RestMatches(s, bytes))
Seen(an, signatures, a) == IF a \in DOMAIN an.bytes THEN Range(Scan(signatures, BytesFrom(an, a))) ELSE {}
ReferenceFree(s) == \A y \in Range(s.names) : y.kind # "reference"

(* The index answers as a scan of all signatures does, and the prefilter    *)
(* passes every function that a signature with local names matches.         *)
IndexIsAScan(an, databases) ==
    \A i \in DOMAIN databases : \A a \in DOMAIN an.functions :
        LET bytes == BytesFrom(an, a)
        IN  /\ Match(databases[i], bytes) = Scan(databases[i], bytes)
            /\ (\E s \in Range(Scan(databases[i], bytes)) : NamesLocal(s))
                 => HasLocalCandidate(databases[i], SubSeq(bytes, 1, Min({PrefixLength, Len(bytes)})))

(* What some signature of some database calls the address. *)
PossibleNames(an, databases, a) ==
    UNION {UNION {{y.name : y \in {z \in Range(s.names) : z.offset = a - base}} : s \in Seen(an, databases[i], base)}
              : <<i, base>> \in (DOMAIN databases) \X (DOMAIN an.functions)}

ReferenceIsThere(an, databases, base, y) ==
    LET i == ContainingInstruction(an, base + y.offset)
    IN  IF i = None THEN FALSE
        ELSE IF y.name = "." THEN i \in an.dataRefs
        ELSE \E t \in Range(CodeTargets(an, i)) : y.name \in PossibleNames(an, databases, t)

(* A recognised name is one that a signature gives the address; what the    *)
(* signature calls is there under its name, and no other signature that     *)
(* needs no calls disputes it.                                              *)
NameIsJustified(an, databases, a, name) ==
    \E i \in DOMAIN databases, base \in DOMAIN an.functions :
        \E s \in Seen(an, databases[i], base) :
            /\ \E y \in Range(s.names) : y.kind # "reference" /\ y.offset = a - base /\ y.name = name
            /\ \A t \in Seen(an, databases[i], base) : ReferenceFree(t) => RootName(t) = RootName(s)
            /\ \A y \in Range(s.names) : y.kind = "reference" => ReferenceIsThere(an, databases, base, y)

NamesAreJustified(an, databases, recognized) ==
    \A a \in DOMAIN recognized : NameIsJustified(an, databases, a, recognized[a])

RECURSIVE Reached(_, _)
Reached(blocks, set) ==
    LET more == set \union UNION {Range(TailsOf(blocks[f])) \intersect DOMAIN blocks : f \in set}
    IN  IF more = set THEN set ELSE Reached(blocks, more)
TailsAreReached(blocks, whole) ==
    \A f \in DOMAIN blocks :
        {b.address : b \in Range(whole[f])} = UNION {{b.address : b \in Range(blocks[g])} : g \in Reached(blocks, {f})}
=============================================================================
