----------------------------- MODULE MCRecovery -----------------------------
(* Small images for code recovery: every program of three free slots in     *)
(* front of fixed callees, natively and in compatibility mode, and one      *)
(* image for each mechanism that such programs do not reach.                *)
EXTENDS Recovery

Op(flow) ==
    [flow |-> flow, len |-> 1, direct |-> None, mem |-> None, index |-> FALSE, scale |-> 4,
     size |-> 0, imms |-> <<>>, lea |-> FALSE, rip |-> FALSE, mnemonic |-> flow,
     sets |-> "keep", value |-> None, fault |-> "no", bad |-> FALSE, exits |-> FALSE,
     far |-> FALSE, hook |-> "returns", args |-> <<>>, priv |-> FALSE]

To(flow, t) == [Op(flow) EXCEPT !.direct = t]
Via(flow, slot) == [Op(flow) EXCEPT !.mem = slot, !.size = Width]

(* An image with the given instructions; the rest of it is data. *)
Blank ==
    [format |-> "pe", x86 |-> TRUE, arm |-> FALSE, compat |-> FALSE, entry |-> 0,
     at |-> [a \in Addr |-> None], exec |-> 0..7, mapped |-> Addr, readable |-> Addr,
     dead |-> {}, uninit |-> {}, word |-> <<>>, imports |-> {14}, noretApis |-> {14},
     callbackApis |-> {}, relocs |-> <<>>, plt |-> <<>>, got |-> [a \in Addr |-> None],
     text |-> <<>>, padding |-> <<>>, thunkBytes |-> {}, adds |-> {}, seh3 |-> {},
     dispatch |-> <<>>, seeds |-> (0 :> {"entry"}), fallback |-> <<>>, plausible |-> {},
     locals |-> <<>>, cookies |-> <<>>, gomain |-> None]

With(image, code) == [image EXCEPT !.at = code @@ @]

(* Slots 0 to 2 are free; 3 is a thunk to an API that never returns, 4      *)
(* loops, 5 returns.                                                        *)
Menu == {Op("next"), Op("ret"), To("call", 1), To("call", 2), To("call", 3), To("call", 4),
         To("call", 5), To("cond", 5), To("cond", 2), To("cond", 0), To("jmp", 1), To("jmp", 4)}
Fixed == (3 :> Via("ijmp", 14)) @@ (4 :> To("jmp", 4)) @@ (5 :> To("call", 1)) @@ (6 :> Op("ret"))

Programs == {With(Blank, (0 :> a) @@ (1 :> b) @@ (2 :> c) @@ Fixed) :
                a \in Menu, b \in Menu, c \in Menu}

Both(image) == {[image EXCEPT !.compat = c] : c \in BOOLEAN}
Compat(image) == [image EXCEPT !.compat = TRUE]

(* Pointers: relocated slots, words of an ELF image, operands. *)
Returning == (0 :> Op("ret")) @@ (2 :> Op("next")) @@ (3 :> Op("ret")) @@ (5 :> Op("ret"))
Relocated == Compat(With([Blank EXCEPT !.relocs = <<8, 10, 12>>, !.text = (9 :> 1),
                            !.word = (8 :> 2) @@ (10 :> 9) @@ (12 :> 6)], Returning))
LastSlotUnmapped == [Relocated EXCEPT !.word = (8 :> 2)]
Scanned == Compat(With([Blank EXCEPT !.format = "elf", !.word = (1 :> 5) @@ (8 :> 2) @@ (10 :> 9) @@ (12 :> 2)],
                       Returning))
Emulated == Compat(With(Blank, (0 :> [Op("next") EXCEPT !.imms = <<2, 4, 5>>]) @@ (1 :> Op("ret"))
                     @@ (2 :> Op("next")) @@ (3 :> Op("ret"))
                     @@ (5 :> [Op("next") EXCEPT !.fault = "unsupported"])))
ManyCandidates == Compat(With([Blank EXCEPT !.seeds = [a \in 0..5 |-> IF a = 0 THEN {"entry"} ELSE {"emulated"}]],
                              [a \in 0..5 |-> Op("ret")]))
TypedPointer == Compat(With([Blank EXCEPT !.word = (8 :> 3)],
                            (0 :> Via("next", 8)) @@ (1 :> Op("ret")) @@ (3 :> Op("ret"))))
LeaPointer == Compat(With([Blank EXCEPT !.word = (8 :> 3)],
                     (0 :> [Via("next", 8) EXCEPT !.lea = TRUE]) @@ (1 :> Op("ret")) @@ (3 :> Op("ret"))))
Retyped == Compat(With([Blank EXCEPT !.word = (4 :> 9)],
                       (0 :> Via("next", 4)) @@ (1 :> To("jmp", 4)) @@ (4 :> Op("ret"))))
Overlapped == Compat(With([Blank EXCEPT !.word = (4 :> 9), !.seeds = (0 :> {"entry"}) @@ (6 :> {"export"})],
                     (0 :> Via("next", 4)) @@ (1 :> To("cond", 3)) @@ (2 :> To("jmp", 5))
                     @@ (3 :> [Op("ret") EXCEPT !.len = 2]) @@ (5 :> Op("ret")) @@ (6 :> To("jmp", 5))))

(* The last byte of a slot is an instruction. *)
SlotIntoCode == Compat(With([Blank EXCEPT !.word = (4 :> 9)],
    (0 :> To("call", 5)) @@ (1 :> Via("next", 4)) @@ (2 :> Op("ret")) @@ (5 :> Op("ret"))))
PointerToData == [TypedPointer EXCEPT !.word = (8 :> 10), !.at[10] = Op("ret")]
Straddling == With(Blank, (0 :> To("cond", 2)) @@ (1 :> [Op("next") EXCEPT !.len = 2]) @@ (2 :> Op("next")) @@ (3 :> Op("ret")))

(* Functions that branch into a caller still being walked, one inside the   *)
(* other: the first release does not reach the inner one.                   *)
NestedWaits == {Compat(With(Blank, (0 :> To("call", 2)) @@ (1 :> Op("ret")) @@ c @@ (5 :> To("jmp", 2)))) :
                  c \in {(2 :> To("call", 5)) @@ (3 :> To("jmp", 0)),
                        (2 :> To("cond", 0)) @@ (3 :> To("call", 5)) @@ (4 :> Op("ret"))}}

(* A function that waits for good in the first walk and is completed, but   *)
(* not kept, when the second start calls it.                                *)
CompletedTooLate == Compat(With([Blank EXCEPT !.seeds = (0 :> {"entry"}) @@ (6 :> {"export"})],
    (0 :> To("call", 2)) @@ (1 :> Op("ret")) @@ (2 :> To("call", 5)) @@ (3 :> To("jmp", 0))
    @@ (5 :> To("jmp", 2)) @@ (6 :> To("call", 5)) @@ (7 :> Op("ret"))))

(* Indirect branches. *)
Table == With([Blank EXCEPT !.word = (8 :> 2) @@ (10 :> 3) @@ (12 :> 9)],
              (0 :> [Via("ijmp", 8) EXCEPT !.index = TRUE]) @@ (2 :> Op("ret")) @@ (3 :> Op("ret")))
AdjacentTables == Compat(With([Blank EXCEPT !.word = (8 :> 4) @@ (10 :> 5) @@ (12 :> 6)],
    (0 :> To("cond", 2)) @@ (1 :> [Via("ijmp", 8) EXCEPT !.index = TRUE])
    @@ (2 :> [Via("ijmp", 10) EXCEPT !.index = TRUE]) @@ [a \in 4..6 |-> Op("ret")]))
PointerJump == With([Blank EXCEPT !.word = (8 :> 2)], (0 :> Via("ijmp", 8)) @@ (2 :> Op("ret")))
Case == [form |-> "absolute", limit |-> 1, inclusive |-> TRUE, table |-> 8, remap |-> <<>>,
         based |-> TRUE, carried |-> FALSE, loose |-> FALSE]
Switched(case) ==
    With([Blank EXCEPT !.x86 = FALSE, !.dispatch = (3 :> case), !.word = (8 :> 4) @@ (10 :> 5)],
         (0 :> [Op("next") EXCEPT !.lea = TRUE, !.rip = TRUE, !.mem = 8, !.sets = "set", !.value = 8])
         @@ (1 :> Op("next")) @@ (2 :> To("cond", 6)) @@ (3 :> Op("ijmp"))
         @@ [a \in 4..6 |-> Op("ret")])
Cases == {Case, [Case EXCEPT !.form = "rva", !.carried = TRUE, !.remap = <<1, 0>>],
          [Case EXCEPT !.form = "relative"], [Case EXCEPT !.limit = 9, !.loose = TRUE]}

(* Waves. *)
Fragment == With([Blank EXCEPT !.word = (4 :> 14), !.seeds = (0 :> {"entry"}) @@ (1 :> {"prologue"})],
                 (0 :> To("jmp", 1)) @@ (1 :> Op("ret"))
                 @@ (3 :> [Via("icall", 14) EXCEPT !.len = 3]) @@ (6 :> To("call", 1)) @@ (7 :> To("cond", 2))
                 @@ (2 :> To("jmp", 3)))
FragmentCallee == [Fragment EXCEPT !.at[7] = To("call", 2), !.at[2] = To("jmp", 6)]
Stubs == Compat(With([Blank EXCEPT !.format = "elf", !.plt = <<<<3, 5>>, <<6, 8>>>>],
                     (0 :> To("call", 3)) @@ (1 :> Op("ret")) @@ (3 :> Via("ijmp", 14)) @@ (4 :> To("call", 6))
                     @@ (5 :> Op("ret")) @@ (6 :> Op("next")) @@ (7 :> Op("ret"))))
LooseRoot == Compat(With([Blank EXCEPT !.format = "elf", !.plt = <<<<3, 5>>>>],
                         (0 :> Op("ret")) @@ (3 :> To("call", 5)) @@ (4 :> Op("ret")) @@ (5 :> To("jmp", 3))))
Local == Compat(With([Blank EXCEPT !.locals = (0 :> {3, 4}) @@ (5 :> {6}), !.seeds = (0 :> {"entry"}) @@ (5 :> {"signature"})],
                     (0 :> Op("ret")) @@ (3 :> To("jmp", 4)) @@ (4 :> Op("jmp")) @@ (5 :> Op("ret")) @@ (6 :> Op("ret"))))
LateLocal == Compat(With([Blank EXCEPT !.locals = (0 :> {1})],
    (0 :> To("call", 2)) @@ (1 :> Op("ret")) @@ [a \in 2..7 |-> IF a = 7 THEN Op("ret") ELSE Op("next")]))
ApiCallback == Compat(With([Blank EXCEPT !.callbackApis = {14}, !.noretApis = {}],
    (0 :> [Via("icall", 14) EXCEPT !.args = <<3>>]) @@ (1 :> Op("ret")) @@ (3 :> Op("ret"))))
Cookie == With([Blank EXCEPT !.cookies = (5 :> 12), !.seeds = (0 :> {"entry"}) @@ (2 :> {"signature"})],
               (0 :> To("cond", 2)) @@ (1 :> Op("ret")) @@ (2 :> [Via("next", 12) EXCEPT !.mnemonic = "mov"])
               @@ (3 :> To("call", 5)) @@ (4 :> Op("ret")) @@ (5 :> Via("next", 12)) @@ (6 :> Op("ret")))
GoMain == With([Blank EXCEPT !.format = "elf", !.gomain = 3], (0 :> Op("ret")) @@ (3 :> Op("ret")))
(* Go's main was decoded as the tail of another function before its seed,   *)
(* which only a pattern supports, was taken from the queue.                 *)
GoMainWalked == With([Blank EXCEPT !.word = (4 :> 14), !.seeds = (0 :> {"entry"}) @@ (1 :> {"prologue"}), !.gomain = 1],
    (0 :> To("jmp", 1)) @@ (1 :> Op("ret")) @@ (2 :> To("call", 1))
    @@ (3 :> [Via("icall", 14) EXCEPT !.len = 3]) @@ (6 :> To("call", 2)) @@ (7 :> Op("ret")))
Overlap == With([Blank EXCEPT !.plausible = {1},
                   !.seeds = (0 :> {"entry"}) @@ (1 :> {"reloc"}) @@ (2 :> {"reloc"}) @@ (3 :> {"prologue"})],
                (0 :> Op("next")) @@ (1 :> Op("next")) @@ (2 :> Op("ret")) @@ (3 :> Op("ret")))
ArmStub == With([Blank EXCEPT !.format = "elf", !.arm = TRUE, !.x86 = FALSE, !.got = [a \in Addr |-> IF a = 3 THEN 14 ELSE None]],
                (0 :> To("call", 3)) @@ (1 :> Op("ret")) @@ (3 :> Op("next")) @@ (4 :> Op("ijmp")))
NotDecoded == With(Blank, (0 :> To("jmp", 7)))
Long == With(Blank, [a \in 0..7 |-> IF a = 7 THEN Op("ret") ELSE IF a = 3 THEN [Op("next") EXCEPT !.priv = TRUE] ELSE Op("next")])

Mechanisms ==
    UNION {Both(i) : i \in {Table, PointerJump, Fragment, Cookie, GoMain, GoMainWalked, Overlap, ArmStub, Long,
                            Relocated, Scanned, TypedPointer, PointerToData, NotDecoded, Straddling, FragmentCallee}
                           \cup {Switched(c) : c \in Cases}}
    \cup {LastSlotUnmapped, Emulated, ManyCandidates, LeaPointer, Retyped, Overlapped,
          AdjacentTables, Stubs, LooseRoot, Local, LateLocal, ApiCallback, SlotIntoCode,
          CompletedTooLate}
    \cup NestedWaits

MCImages == UNION {Both(p) : p \in Programs} \cup Mechanisms
=============================================================================
