-------------------------------- MODULE Cpu ---------------------------------
(* A machine whose registers, flags and stack all have values: what the     *)
(* abstract machine of Emulator approximates.  It is the reference emulator *)
(* with a value everywhere (callees are skipped, a repeated string          *)
(* instruction runs once, rdtsc reads a constant), and computes with        *)
(* ordinary arithmetic; where the abstract machine gives a result up, any   *)
(* of a small set may come out.                                             *)
EXTENDS Emulator

StackMap == StackTop - StackSize..StackTop - 1
Part(v, low, size) == (v \div 2^(ByteBits * low)) % 2^(ByteBits * size)

Get(c, r) == Part(c.regs[r.full], r.low, r.size)
Put(c, r, v) ==
    [c EXCEPT !.regs[r.full] =
        IF r.size >= 4 THEN Wrap(v, r.size)
        ELSE @ - Part(@, r.low, r.size) * 2^(ByteBits * r.low)
               + Wrap(v, r.size) * 2^(ByteBits * r.low)]

Cells(a, size) == a..a + size - 1
Fetch(c, a, size) == Number([x \in Cells(a, size) |-> IF x \in StackMap THEN c.mem[x] ELSE Fill], a, size)
Store(c, a, size, v) ==
    IF Cells(a, size) \subseteq StackMap
    THEN [c EXCEPT !.mem = [x \in Cells(a, size) |-> Piece(v, x - a)] @@ @] ELSE c

Where(c, o) == Wrap(Get(c, o.base) + o.disp, PointerWidth)
Value(c, o) == CASE o.kind = "reg" -> Get(c, o.reg)
                 [] o.kind = "imm" -> o.value
                 [] o.kind = "mem" -> Fetch(c, Where(c, o), o.size)
                 [] OTHER -> 0
PutIn(c, o, v) == CASE o.kind = "reg" -> Put(c, o.reg, v)
                    [] o.kind = "mem" -> Store(c, Where(c, o), o.size, v)
                    [] OTHER -> c

Signed(v, size) == IF 2 * v > Mask(size) THEN v - 2^(size * ByteBits) ELSE v
InRange(v, size) == -(2^(size * ByteBits)) <= 2 * v /\ 2 * v < 2^(size * ByteBits)
Parity(v) == Cardinality({i \in 0..ByteBits - 1 : (v \div 2^i) % 2 = 1}) % 2 = 0
Arithmetic_(result, carry, overflow, size) ==
    [zero |-> Wrap(result, size) = 0, sign |-> Signed(Wrap(result, size), size) < 0,
     carry |-> carry, overflow |-> overflow, parity |-> Parity(Wrap(result, size) % 2^ByteBits)]

(* Flags by the definition of the arithmetic they report on. *)
CpuFlags(op, a, b) ==
    LET size == op.dst.size
        sa == Signed(a, size)
        sb == Signed(b, size)
    IN  CASE op.m = "add" -> Arithmetic_(a + b, a + b > Mask(size), ~InRange(sa + sb, size), size)
          [] op.m \in {"sub", "cmp"} -> Arithmetic_(a - b + 2^(8 * ByteBits), a < b, ~InRange(sa - sb, size), size)
          [] op.m \in {"and", "test"} -> Arithmetic_(a & b, FALSE, FALSE, size)
          [] op.m = "or" -> Arithmetic_(a | b, FALSE, FALSE, size)
          [] OTHER -> Arithmetic_(a ^^ b, FALSE, FALSE, size)

Defined == {"add", "sub", "cmp", "and", "test", "or", "xor"}
SomeFlags == {[zero |-> b, sign |-> b, carry |-> ~b, overflow |-> ~b, parity |-> b] : b \in BOOLEAN}

PushOn(c, size, v) ==
    LET at == Wrap(Get(c, SP) - size, PointerWidth)
    IN  Store(Put(c, SP, at), at, size, v)
PopOff(c, size) == Put(c, SP, Wrap(Get(c, SP) + size, PointerWidth))

PushAllOn(c) == FoldLeft(LAMBDA d, f : PushOn(d, 4, Get(c, Reg(f, 4))), c, AllRegisters)
PopAllOff(c) ==
    LET slot(k) == Fetch(c, Wrap(Get(c, SP) + 4 * (Len(AllRegisters) - k), PointerWidth), 4)
        put(d, k) == IF AllRegisters[k] = "sp" THEN d ELSE Put(d, Reg(AllRegisters[k], 4), slot(k))
    IN  FoldLeft(put, Put(c, Reg("sp", 4), Get(c, SP) + 4 * Len(AllRegisters)), [k \in DOMAIN AllRegisters |-> k])

OneString(c, op) ==
    LET size == op.dst.size
        step == IF c.backwards THEN -size ELSE size
        from == Get(c, Reg("si", PointerWidth))
        to == Get(c, Reg("di", PointerWidth))
        past(d, f, a) == Put(d, Reg(f, PointerWidth), a + step)
    IN  CASE op.m = "stos" -> past(Store(c, to, size, Get(c, Accumulator(size))), "di", to)
          [] op.m = "scas" -> past(c, "di", to)
          [] op.m = "lods" -> past(Put(c, Accumulator(size), Fetch(c, from, size)), "si", from)
          [] op.m = "cmps" -> past(past(c, "si", from), "di", to)
          [] OTHER -> past(past(Store(c, to, size, Fetch(c, from, size)), "si", from), "di", to)
Strings(c, op) ==
    LET counter == Reg("cx", PointerWidth)
    IN  IF ~op.rep THEN OneString(c, op)
        ELSE IF Get(c, counter) = 0 THEN c
        ELSE Put(OneString(c, op), counter, Get(c, counter) - 1)

(* What one instruction may turn a machine with the new flags into. *)
Results(c, op) ==
    LET a == Value(c, op.dst)
        b == Value(c, op.src)
        size == StackSizeOf(op)
        one(d) == {d}
        some(r) == {Put(c, r, v) : v \in {0, 5}}
        all(f, g) == {Put(Put(c, Reg(f, 8), v), Reg(g, 8), w) : v, w \in {0, 5}}
        acc == Accumulator(op.dst.size)
    IN  CASE op.m \in {"cmp", "test", "nop", "bt", "clc", "bound"} -> one(c)
          [] op.m = "mov" -> one(PutIn(c, op.dst, b))
          [] op.m = "movsx" -> one(PutIn(c, op.dst, Wrap(Signed(b, op.src.size) + 2^(8 * ByteBits), 8)))
          [] op.m = "lea" -> one(PutIn(c, op.dst, Where(c, op.src)))
          [] op.m = "not" -> one(PutIn(c, op.dst, Mask(op.dst.size) - a))
          [] op.m \in {"inc", "dec", "neg"} -> one(PutIn(c, op.dst, Unary(op, a)))
          [] op.m = "sar" -> one(PutIn(c, op.dst, Wrap(Signed(a, op.dst.size) \div
                                 2^(b % ((IF op.dst.size = 8 THEN 8 ELSE 4) * ByteBits)), op.dst.size)))
          [] op.m \in BinaryOps \ {"sar"} -> one(PutIn(c, op.dst, Binary(op, a, b)))
          [] op.m = "cmov" -> one(PutIn(c, op.dst, IF Condition(c.flags, op.cc) # op.negated THEN b ELSE a))
          [] op.m = "set" -> one(PutIn(c, op.dst, IF Condition(c.flags, op.cc) # op.negated THEN 1 ELSE 0))
          [] op.m = "push" -> one(PushOn(c, size, a))
          [] op.m = "pop" -> one(PutIn(PopOff(c, size), op.dst, Fetch(c, Get(c, SP), size)))
          [] op.m = "pushf" -> {PushOn(c, PointerWidth, v) : v \in {0, 5}}
          [] op.m = "enter" ->
               LET at == Wrap(Get(c, SP) - PointerWidth, PointerWidth)
               IN  one(Put(Put(Store(c, at, PointerWidth, Get(c, BP)), BP, at), SP, at - op.src.value))
          [] op.m = "leave" -> one(Put(Put(c, SP, Get(c, BP) + PointerWidth), BP,
                                       Fetch(c, Get(c, BP), PointerWidth)))
          [] op.m = "xchg" -> one(PutIn(PutIn(c, op.dst, b), op.src, a))
          [] op.m = "xadd" -> one(PutIn(PutIn(c, op.src, a), op.dst, a + b))
          [] op.m = "cmpxchg" -> one(IF Get(c, acc) = a THEN PutIn(c, op.dst, b) ELSE Put(c, acc, a))
          [] op.m = "cwde" -> one(Put(c, Reg("ax", 4), Signed(Get(c, Reg("ax", 2)), 2) + 2^(8 * ByteBits)))
          [] op.m = "lahf" -> some(HighByte("ax"))
          [] op.m = "cdq" -> some(Reg("dx", 8))
          [] op.m = "mul" -> all("ax", "dx")
          [] op.m = "div" -> IF a = 0 THEN {} ELSE all("ax", "dx")
          [] op.m = "cpuid" -> {Put(Put(d, Reg("bx", 8), 5), Reg("cx", 8), 5) : d \in all("ax", "dx")}
          [] op.m = "rdtsc" -> one(Put(Put(c, Reg("dx", 4), 0), Reg("ax", 4), TimeStamp))
          [] op.m = "imul3" -> one(PutIn(c, op.dst, b * Value(c, op.third)))
          [] op.m = "pushad" -> one(PushAllOn(c))
          [] op.m = "popad" -> one(PopAllOff(c))
          [] op.m = "popf" -> one(PopOff(c, PointerWidth))
          [] op.m \in {"cld", "std"} -> one([c EXCEPT !.backwards = op.m = "std"])
          [] op.m \in {"stos", "lods", "movs", "cmps", "scas"} -> one(Strings(c, op))
          [] op.m = "call" -> some(Reg("ax", 8))
          [] OTHER -> {PutIn(c, op.dst, v) : v \in {0, 5}}

Outcomes(c, op) ==
    LET flags == IF op.m \in KeepFlags \union {"call"} THEN {c.flags}
                 ELSE IF op.m \in Defined
                      THEN {CpuFlags(op, Value(c, op.dst), Wrap(Value(c, op.src), op.dst.size))}
                 ELSE SomeFlags
    IN  UNION {Results([c EXCEPT !.flags = f], op) : f \in flags}

(* The abstract machine takes an unknown pointer for a taint of the          *)
(* reference, which points off every map: a load behind it reads the taint  *)
(* byte, a known value, and a store is dropped.  It takes an unknown repeat *)
(* counter for one that is not zero.  On a machine where that is not so,    *)
(* the instruction departs from what the abstract machine stands for.       *)
OnStack(a, size) == Cells(a, size) \intersect StackMap # {}
Pushed(op) == CASE op.m = "push" -> StackSizeOf(op)
                [] op.m \in {"pushf", "enter"} -> PointerWidth
                [] op.m = "pushad" -> 4 * Len(AllRegisters)
                [] OTHER -> 0
Departs(s, c, op) ==
    LET target == Reg("di", PointerWidth)
        counter == Reg("cx", PointerWidth)
    IN  \/ \E o \in {op.dst, op.src, op.third} :
              /\ o.kind = "mem" /\ op.m # "lea"
              /\ Address(s, o) = None /\ OnStack(Where(c, o), o.size)
        \/ Register(s, SP) = None /\ OnStack(Wrap(Get(c, SP) - Pushed(op), PointerWidth), Pushed(op))
        \/ /\ op.m \in {"stos", "movs"}
           /\ Register(s, target) = None /\ OnStack(Get(c, target), op.dst.size)
        \/ op.rep /\ Register(s, counter) = None /\ Get(c, counter) = 0

(* The abstract state s tells nothing false about the machine c. *)
Agrees(s, c) ==
    /\ \A f \in DOMAIN s.regs : \A i \in 0..7 :
          s.regs[f][i] # None => s.regs[f][i] = Piece(c.regs[f], i)
    /\ \A a \in DOMAIN s.mem : s.mem[a] # None => s.mem[a] = c.mem[a]
    /\ s.flags # None => s.flags = c.flags
    /\ s.backwards = c.backwards
----------------------------------------------------------------------------
(* Instructions for Emulator and Cpu, and the first states of a run. *)

Ins(m, dst, src) ==
    [m |-> m, dst |-> dst, src |-> src, cc |-> "e", negated |-> FALSE, rep |-> FALSE, nested |-> FALSE,
     third |-> NoOperand]
On(m, dst) == Ins(m, dst, NoOperand)
Plain(m) == On(m, NoOperand)
Conditional(m, cc, negated, dst, src) == [Ins(m, dst, src) EXCEPT !.cc = cc, !.negated = negated]
Repeated(op) == [op EXCEPT !.rep = TRUE]

AX(n) == OfReg(Reg("ax", n))
CX(n) == OfReg(Reg("cx", n))
AH == OfReg(HighByte("ax"))
SI == OfReg(Reg("si", 4))
DI == OfReg(Reg("di", 4))
Top(d, n) == OfMem(SP, d, n)
Sized(n) == [kind |-> "none", size |-> n]

(* Registers and their parts, flags and what depends on them, the stack. *)
General ==
    {Ins("mov", AX(1), OfImm(2)), Ins("mov", AH, OfImm(3)), Ins("mov", AX(4), CX(4)), Ins("mov", CX(8), AX(8)),
     Ins("mov", CX(2), AX(2)), Ins("mov", AX(8), OfImm(40000)), Ins("movsx", CX(4), AX(1)), Ins("movsx", CX(8), AX(4)),
     Ins("add", AX(1), OfImm(3)), Ins("add", AX(4), CX(4)), Ins("sub", AX(2), OfImm(9)), Ins("sub", CX(4), CX(4)),
     Ins("xor", AX(2), AX(2)), Ins("and", AX(8), OfImm(0)), Ins("and", AX(4), CX(4)), Ins("or", AH, OfImm(1)),
     Ins("cmp", AX(1), OfImm(2)), Ins("cmp", CX(4), AX(4)), Ins("test", AH, AH), On("inc", AX(2)), On("neg", AX(4)),
     On("not", AX(1)), Ins("shl", AX(4), OfImm(3)), Ins("shr", AX(2), OfImm(1)), Ins("sar", AX(1), OfImm(1)),
     Ins("imul", AX(4), CX(4)), Ins("bts", AX(2), CX(1)), On("rol", AX(2)), Ins("lea", CX(4), Top(3, 4)),
     Ins("mov", AX(4), OfMem(BP, 4, 4)), Ins("xor", OfMem(BP, 5, 2), AX(2)),
     Conditional("cmov", "le", FALSE, AX(4), CX(4)), Conditional("cmov", "l", TRUE, CX(8), AX(8)),
     Conditional("set", "b", FALSE, AH, NoOperand), Conditional("set", "p", TRUE, AX(1), NoOperand),
     On("push", AX(4)), On("pop", CX(4)), On("push", AX(2)), Plain("pushf"), Ins("mov", Top(0, 1), AX(1)),
     Ins("mov", AX(4), Top(0, 4)), Ins("add", Top(1, 2), AX(2)), Ins("enter", NoOperand, OfImm(4)), Plain("leave"),
     Ins("xchg", AX(1), AH), Ins("xchg", AX(4), CX(4)), Ins("xadd", AX(4), CX(4)), Ins("xadd", Top(0, 4), CX(4)),
     Ins("cmpxchg", CX(4), AX(4)), Ins("cmpxchg", CX(1), AH), On("cwde", AX(4)), Plain("lahf"), Plain("mul")}

(* Strings, all registers at once, and the instructions with a result of    *)
(* their own.                                                               *)
Special ==
    {Ins("lea", SI, Top(-4, 4)), Ins("lea", DI, Top(-3, 4)), Repeated(On("movs", Sized(2))), On("stos", Sized(1)),
     Repeated(On("lods", Sized(4))), On("scas", Sized(4)), Repeated(On("cmps", Sized(4))), Plain("std"),
     Ins("mov", CX(4), OfImm(0)), Ins("mov", AX(2), OfImm(7)), Plain("pushad"), Plain("popad"), Plain("popf"),
     Plain("cpuid"), Plain("rdtsc"), On("div", CX(4)), Ins("bound", AX(4), Top(0, 4)), Ins("bt", AX(4), CX(4)),
     Plain("clc"), Plain("call"), [Ins("imul3", CX(4), AX(4)) EXCEPT !.third = OfImm(3)], Ins("cmp", AX(4), AX(4)),
     Conditional("set", "e", FALSE, AX(1), NoOperand), Ins("mov", AX(8), Top(0, 8))}

(* A value in every register, another one in each: values that point off    *)
(* the stack, or values most of which point into it, with a counter that is *)
(* zero.  The taint byte is everywhere on the stack.                        *)
FirstValues ==
    {[ax |-> 51234, cx |-> 46119, dx |-> 60948, bx |-> 38717, sp |-> StackBase, bp |-> 55251,
      si |-> 41777, di |-> 47882],
     [ax |-> 33127, cx |-> 23296, dx |-> 60928, bx |-> 27006, sp |-> StackBase, bp |-> 40048,
      si |-> 52580, di |-> 19824]}
FirstMachines ==
    {[regs |-> v, mem |-> [a \in StackMap |-> Fill], backwards |-> FALSE, flags |-> f] :
        v \in FirstValues, f \in SomeFlags}
=============================================================================
