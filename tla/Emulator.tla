------------------------------ MODULE Emulator ------------------------------
(* emucode::State, the abstract machine that candidate evaluation and       *)
(* calling analysis run: a value is known or it is not, and a write through *)
(* an unknown address is dropped.                                           *)
(*                                                                          *)
(* A byte has ByteBits bits (eight in the code), so that a whole register   *)
(* stays small.  The mask of known bits is always a set of whole bytes: a   *)
(* register is a function from byte positions to bytes or None.             *)
EXTENDS Integers, Sequences, SequencesExt, FiniteSets, FiniteSetsExt, TLC, Bitwise

CONSTANTS
    ByteBits,       \* bits in a byte
    PointerWidth,   \* Architecture::pointer_width, in bytes
    StackBase,      \* STACK_BASE
    StackSlots,     \* the argument slots above it
    StackSize,      \* the stack map, 0x8000 bytes in the code
    TimeStamp,      \* what rdtsc reads
    Fill,           \* the taint byte that unmapped memory reads as
    None            \* Option::None

Byte == 0..2^ByteBits - 1
Mask(size) == 2^(size * ByteBits) - 1
Wrap(v, size) == v % 2^(size * ByteBits)

(* A register as an instruction names it: the full one, how many bytes of   *)
(* it, and where they begin (AH and its like begin at the second byte).     *)
Reg(full, size) == [full |-> full, size |-> size, low |-> 0]
HighByte(full) == [full |-> full, size |-> 1, low |-> 1]
BytesOf(r) == r.low..r.low + r.size - 1
SP == Reg("sp", PointerWidth)
BP == Reg("bp", PointerWidth)
Accumulator(size) == Reg("ax", size)

Number(bytes, first, size) ==
    FoldFunctionOnSet(+, 0, [i \in DOMAIN bytes |-> bytes[i] * 2^(ByteBits * (i - first))],
                      first..first + size - 1)
Piece(v, i) == (v \div 2^(ByteBits * i)) % 2^ByteBits

Unknown == [i \in 0..7 |-> None]
AllRegisters == <<"ax", "cx", "dx", "bx", "sp", "bp", "si", "di">>

Register(s, r) ==
    IF \E i \in BytesOf(r) : s.regs[r.full][i] = None THEN None
    ELSE Number(s.regs[r.full], r.low, r.size)

\* Mutant: a 32-bit write leaves the upper half as it was.
SetRegister_KeepsUpper(s, r, v) ==
    [s EXCEPT !.regs[r.full] = [i \in 0..7 |->
        IF i \notin BytesOf(r) THEN @[i]
        ELSE IF v = None THEN None ELSE Piece(v, i - r.low)]]

(* A write of four bytes or more defines the whole register. *)
SetRegister(s, r, v) ==
    LET written == IF r.size >= 4 THEN 0..7 ELSE BytesOf(r)
        byte(i) == IF v = None THEN None
                   ELSE IF i \in BytesOf(r) THEN Piece(v, i - r.low) ELSE 0
    IN  [s EXCEPT !.regs[r.full] = [i \in 0..7 |-> IF i \in written THEN byte(i) ELSE @[i]]]

EntryState ==
    SetRegister([regs |-> [f \in Range(AllRegisters) |-> Unknown],
                 mem |-> <<>>, flags |-> None, backwards |-> FALSE],
                Reg("sp", 8), StackBase)

----------------------------------------------------------------------------
(* Memory: a private layer of written bytes over the image, which is only   *)
(* the stack map here.                                                      *)

StackTop == StackBase + StackSlots * PointerWidth
InStack(a, size) == a >= StackTop - StackSize /\ a + size <= StackTop

Address(s, o) ==
    LET base == Register(s, o.base)
    IN  IF base = None THEN None ELSE Wrap(base + o.disp, PointerWidth)

Read(s, a, size) ==
    LET bytes == [i \in 0..size - 1 |-> IF a + i \in DOMAIN s.mem THEN s.mem[a + i] ELSE Fill]
    IN  IF \E i \in DOMAIN bytes : bytes[i] = None THEN None ELSE Number(bytes, 0, size)

(* Stores outside writable maps are ignored. *)
Write(s, a, size, v) ==
    IF ~InStack(a, size) THEN s
    ELSE [s EXCEPT !.mem = [x \in a..a + size - 1 |->
                               IF v = None THEN None ELSE Piece(v, x - a)] @@ @]

(* Operands: a register, an immediate, or memory behind a base register. *)
OfReg(r) == [kind |-> "reg", reg |-> r, size |-> r.size]
OfImm(v) == [kind |-> "imm", value |-> v, size |-> 8]
OfMem(base, disp, size) == [kind |-> "mem", base |-> base, disp |-> disp, size |-> size]
NoOperand == [kind |-> "none", size |-> 0]

OperandOf(s, o) ==
    CASE o.kind = "reg" -> Register(s, o.reg)
      [] o.kind = "imm" -> o.value
      [] o.kind = "mem" ->
           LET read(a) == IF a = None THEN Number([i \in 0..o.size - 1 |-> Fill], 0, o.size)
                          ELSE Read(s, a, o.size)
           IN  read(Address(s, o))
      [] OTHER -> None

Assign(s, o, v) ==
    CASE o.kind = "reg" -> SetRegister(s, o.reg, v)
      [] o.kind = "mem" -> IF Address(s, o) = None THEN s ELSE Write(s, Address(s, o), o.size, v)
      [] OTHER -> s

----------------------------------------------------------------------------
(* Flags *)

SignBit(v, size) == v \div 2^(size * ByteBits - 1) % 2 = 1
Ones(v) == Cardinality({i \in 0..ByteBits - 1 : v \div 2^i % 2 = 1})

(* The operations whose flags are computed; b > limit - a is their carry.   *)
FlagResult(m, a, b, size) ==
    CASE m \in {"cmp", "sub"} -> [value |-> Wrap(a - b, size), carry |-> a < b, ovf |-> a ^^ b]
      [] m = "add" -> [value |-> Wrap(a + b, size), carry |-> b > Mask(size) - a,
                       ovf |-> Mask(size) - (a ^^ b)]
      [] m \in {"test", "and"} -> [value |-> a & b, carry |-> FALSE, ovf |-> 0]
      [] m = "or" -> [value |-> a | b, carry |-> FALSE, ovf |-> 0]
      [] OTHER -> [value |-> a ^^ b, carry |-> FALSE, ovf |-> 0]

FlagsOf(m, a, b, size) ==
    LET of(r) == [zero |-> r.value = 0, sign |-> SignBit(r.value, size), carry |-> r.carry,
                  overflow |-> SignBit(r.ovf & (a ^^ r.value), size),
                  parity |-> Ones(r.value % 2^ByteBits) % 2 = 0]
    IN  of(FlagResult(m, a, b, size))

(* What rflags_modified says. *)
KeepFlags == {"mov", "movsx", "lea", "not", "push", "pop", "xchg", "cmov", "set", "cwde", "lahf",
              "nop", "enter", "leave", "pushad", "popad", "pushf", "rdtsc", "cdq", "movs", "stos",
              "lods", "vector", "cpuid", "bound", "bswap"}

SameRegister(op) ==
    op.dst.kind = "reg" /\ op.src.kind = "reg" /\ op.dst.reg = op.src.reg

NewFlags(s, op, left, right) ==
    LET size == op.dst.size
        zero == SameRegister(op) /\ op.m \in {"xor", "sub", "cmp"}
        a == IF zero THEN 0 ELSE left
        b == IF zero THEN 0 ELSE right
    IN  IF op.m \in KeepFlags THEN s.flags
        ELSE IF op.m \notin {"cmp", "sub", "add", "test", "and", "or", "xor"}
                \/ a = None \/ b = None \/ size \notin 1..8
             THEN None
        ELSE FlagsOf(op.m, Wrap(a, size), Wrap(b, size), size)

Condition(f, cc) ==
    CASE cc = "o" -> f.overflow
      [] cc = "b" -> f.carry
      [] cc = "e" -> f.zero
      [] cc = "be" -> f.carry \/ f.zero
      [] cc = "s" -> f.sign
      [] cc = "p" -> f.parity
      [] cc = "l" -> f.sign # f.overflow
      [] OTHER -> f.zero \/ f.sign # f.overflow     \* "le"

(* The other eight conditions negate these. *)
Holds(f, op) == IF f = None THEN None ELSE Condition(f, op.cc) # op.negated

----------------------------------------------------------------------------
(* State::step *)

SignExtend(v, size) == IF SignBit(v, size) THEN v + 2^(8 * ByteBits) - 2^(size * ByteBits) ELSE v
Arithmetic(v, size, n) ==       \* shift right, copying the sign
    Wrap((IF SignBit(v, size) THEN v - 2^(size * ByteBits) ELSE v) \div 2^n, size)
ShiftCount(v, size) == v % ((IF size = 8 THEN 8 ELSE 4) * ByteBits)
BitOf(v, size) == 2^(v % (size * ByteBits))

(* The results of instructions that compute one from two known operands. *)
Binary(op, a, b) ==
    CASE op.m = "add" -> a + b
      [] op.m = "sub" -> a - b + 2^(8 * ByteBits)
      [] op.m = "xor" -> a ^^ b
      [] op.m = "and" -> a & b
      [] op.m = "or" -> a | b
      [] op.m = "imul" -> a * b
      [] op.m = "arpl" -> (a - (a % 4)) + Max({a % 4, b % 4})
      [] op.m = "bts" -> a | BitOf(b, op.dst.size)
      [] op.m = "btc" -> a ^^ BitOf(b, op.dst.size)
      [] op.m = "btr" -> a - (a & BitOf(b, op.dst.size))
      [] op.m = "shl" -> a * 2^ShiftCount(b, op.dst.size)
      [] op.m = "shr" -> a \div 2^ShiftCount(b, op.dst.size)
      [] OTHER -> Arithmetic(a, op.dst.size, ShiftCount(b, op.dst.size))     \* sar

Unary(op, a) ==
    CASE op.m = "inc" -> a + 1
      [] op.m = "dec" -> a + Mask(8)
      [] op.m = "neg" -> 2^(8 * ByteBits) - a
      [] OTHER -> Mask(8) - a      \* not

UnaryOps == {"inc", "dec", "neg", "not"}
BinaryOps == {"add", "sub", "xor", "and", "or", "imul", "arpl", "bts", "btc", "btr", "shl", "shr",
              "sar"}
UnknownOps == {"vector", "adc", "rol", "bswap"}       \* supported, result unknown

Select(op, holds, left, right) ==
    IF holds = None THEN (IF left = right THEN left ELSE None)
    ELSE IF holds THEN right ELSE left

(* What the last line of step assigns to the first operand. *)
ValueOf(s, op, left, right) ==
    CASE op.m = "mov" -> right
      [] op.m \in UnknownOps -> None
      [] op.m = "movsx" -> IF right = None THEN None ELSE SignExtend(right, op.src.size)
      [] op.m = "lea" -> Address(s, op.src)
      [] op.m \in {"xor", "sub"} /\ SameRegister(op) -> 0
      [] op.m = "and" /\ right = 0 -> 0
      [] op.m \in UnaryOps -> IF left = None THEN None ELSE Unary(op, left)
      [] op.m = "cmov" -> Select(op, Holds(s.flags, op), left, right)
      [] op.m = "set" -> IF s.flags = None THEN None ELSE IF Holds(s.flags, op) THEN 1 ELSE 0
      [] OTHER -> IF left = None \/ right = None THEN None ELSE Binary(op, left, right)

Push(s, size, v) ==
    LET top == Register(s, SP)
        at == IF top = None THEN None ELSE Wrap(top - size, PointerWidth)
    IN  IF at = None THEN SetRegister(s, SP, None)
        ELSE Write(SetRegister(s, SP, at), at, size, v)

Popped(s, size) ==
    LET top == Register(s, SP)
    IN  [value |-> IF top = None THEN None ELSE Read(s, top, size),
         state |-> SetRegister(s, SP, IF top = None THEN None ELSE Wrap(top + size, PointerWidth))]

StackSizeOf(op) == IF op.dst.kind = "reg" THEN op.dst.size ELSE PointerWidth

(* pushad and popad always use four-byte slots, and popad skips ESP. *)
PushAll_(s) ==
    FoldLeft(LAMBDA t, f : Push(t, 4, Register(IF f = "sp" THEN s ELSE t, Reg(f, 4))), s, AllRegisters)
PopAll(s) ==
    FoldLeft(LAMBDA t, f : LET p == Popped(t, 4)
                           IN  IF f = "sp" THEN p.state ELSE SetRegister(p.state, Reg(f, 4), p.value),
             s, Reverse(AllRegisters))

Exchange(s, op, left, right) == Assign(Assign(s, op.dst, right), op.src, left)

(* The source is written first; a memory destination keeps the address it   *)
(* had before.                                                              *)
ExchangeAdd(s, op, left, right) ==
    LET sum == IF left = None \/ right = None THEN None ELSE left + right
        first == Assign(s, op.src, left)
    IN  IF op.dst.kind # "mem" THEN Assign(first, op.dst, sum)
        ELSE IF Address(s, op.dst) = None THEN first
        ELSE Write(first, Address(s, op.dst), op.dst.size, sum)

CompareExchange(s, op, left, right) ==
    LET acc == Accumulator(op.dst.size)
        a == Register(s, acc)
    IN  IF a = None \/ left = None THEN SetRegister(Assign(s, op.dst, None), acc, None)
        ELSE IF a = left THEN Assign(s, op.dst, right)
        ELSE SetRegister(s, acc, left)

Enter(s, op) ==
    LET top == Register(s, SP)
        at == IF top = None THEN None ELSE Wrap(top - PointerWidth, PointerWidth)
        saved == IF at = None THEN s ELSE Write(s, at, PointerWidth, Register(s, BP))
    IN  SetRegister(SetRegister(saved, BP, at), SP,
                    IF at = None THEN None ELSE Wrap(at - op.src.value, PointerWidth))

Leave(s) ==
    LET frame == Register(s, BP)
        old == IF frame = None THEN None ELSE Read(s, frame, PointerWidth)
    IN  SetRegister(SetRegister(s, BP, old), SP,
                    IF frame = None THEN None ELSE Wrap(frame + PointerWidth, PointerWidth))

(* Multiplication and division leave their registers unknown. *)
Multiply(s) == SetRegister(SetRegister(s, Reg("ax", 8), None), Reg("dx", 8), None)

(* string_step: one iteration, whatever the prefix says. *)
StringElement(s, op, from, to) ==
    LET size == op.dst.size
        loaded == IF from = None THEN None ELSE Read(s, from, size)
    IN  IF op.m = "lods" THEN SetRegister(s, Accumulator(size), loaded)
        ELSE IF op.m \in {"cmps", "scas"} \/ to = None THEN s
        ELSE Write(s, to, size, IF op.m = "stos" THEN Register(s, Accumulator(size)) ELSE loaded)
StringPassed(s, op, from, to) ==
    LET past(t, f, a) == SetRegister(t, Reg(f, PointerWidth),
                                     IF a = None THEN None
                                     ELSE Wrap(IF s.backwards THEN a - op.dst.size ELSE a + op.dst.size, PointerWidth))
        source(t) == IF op.m \in {"stos", "scas"} THEN t ELSE past(t, "si", from)
        target(t) == IF op.m = "lods" THEN t ELSE past(t, "di", to)
    IN  target(source(StringElement(s, op, from, to)))
CountDown(s, counter) ==
    LET down(n) == SetRegister(s, counter, IF n = None THEN None ELSE Wrap(n - 1, PointerWidth))
    IN  down(Register(s, counter))
StringStep(s, op) ==
    LET passed == StringPassed(s, op, Register(s, Reg("si", PointerWidth)), Register(s, Reg("di", PointerWidth)))
        counter == Reg("cx", PointerWidth)
    IN  IF ~op.rep THEN passed
        ELSE IF Register(s, counter) = 0 THEN s ELSE CountDown(passed, counter)

(* cbw and cdqe too: the reference extends AX into EAX for all of them. *)
Cwde(s) ==
    LET v == Register(s, Reg("ax", 2))
    IN  SetRegister(s, Reg("ax", 4), IF v = None THEN None ELSE Wrap(SignExtend(v, 2), 4))

Execute(t, op, left, right) ==
    LET size == StackSizeOf(op)
        taken(p) == Assign(p.state, op.dst, p.value)
    IN  CASE op.m \in {"cmp", "test", "nop", "bt", "clc", "bound"} -> t
          [] op.m = "push" -> Push(t, size, left)
          [] op.m = "pop" -> taken(Popped(t, size))
          [] op.m = "pushad" -> PushAll_(t)
          [] op.m = "popad" -> PopAll(t)
          [] op.m = "pushf" -> Push(t, PointerWidth, None)
          [] op.m = "popf" -> Popped(t, PointerWidth).state
          [] op.m = "enter" -> Enter(t, op)
          [] op.m = "leave" -> Leave(t)
          [] op.m = "xchg" -> Exchange(t, op, left, right)
          [] op.m = "xadd" -> ExchangeAdd(t, op, left, right)
          [] op.m = "cmpxchg" -> CompareExchange(t, op, left, right)
          [] op.m = "lahf" -> SetRegister(t, HighByte("ax"), None)
          [] op.m \in {"cld", "std"} -> [t EXCEPT !.backwards = op.m = "std"]
          [] op.m \in {"stos", "lods", "movs", "cmps", "scas"} -> StringStep(t, op)
          [] op.m = "cdq" -> SetRegister(t, Reg("dx", 8), None)
          [] op.m = "cpuid" -> FoldLeft(LAMBDA u, f : SetRegister(u, Reg(f, 8), None), t,
                                        <<"ax", "bx", "cx", "dx">>)
          [] op.m = "rdtsc" -> SetRegister(SetRegister(t, Reg("dx", 4), 0), Reg("ax", 4), TimeStamp)
          [] op.m = "cwde" -> Cwde(t)
          [] op.m = "imul3" -> Assign(t, op.dst, LET third == OperandOf(t, op.third)
                                                 IN  IF right = None \/ third = None THEN None ELSE right * third)
          [] op.m \in {"mul", "div"} -> Multiply(t)
          [] OTHER -> Assign(t, op.dst, ValueOf(t, op, left, right))

(* step; the flags are set before the instruction itself is carried out.    *)
Step(s, op) ==
    LET flagged(left, right) == Execute([s EXCEPT !.flags = NewFlags(s, op, left, right)], op, left, right)
    IN  flagged(OperandOf(s, op.dst), OperandOf(s, op.src))

(* Instructions that end the path: a division by zero, a bound that fails   *)
(* or is not known, a nested enter, and what is not supported.              *)
Faults(s, op) ==
    LET index == OperandOf(s, op.dst)
        bounds == OperandOf(s, op.src)
        half == op.src.size \div 2
    IN  CASE op.m = "div" -> index = 0
          [] op.m = "bound" ->
               IF index = None \/ bounds = None THEN TRUE
               ELSE \/ SignBit(index, 4)
                    \/ index < Wrap(bounds, half)
                    \/ index > bounds \div 2^(half * ByteBits)
          [] op.m = "enter" -> op.nested
          [] OTHER -> op.m = "unsupported"

(* clobber_call *)
AfterCall(s) == SetRegister(s, Reg("ax", 8), None)

(* hooked_call_return: the return address goes through the stack slot, so   *)
(* it comes back only where the slot is mapped.                             *)
HookedCallReturn(s, next, arguments, cleans) ==
    LET top == Register(s, Reg("sp", 8))
        slot == Wrap(top - PointerWidth, PointerWidth)
        written == Write(s, slot, PointerWidth, next)
        cleanup == IF cleans THEN arguments * PointerWidth ELSE 0
    IN  IF top = None THEN [state |-> s, target |-> None]
        ELSE [state |-> AfterCall(SetRegister(written, Reg("sp", 8), Wrap(top + cleanup, 8))),
              target |-> Read(written, slot, PointerWidth)]
=============================================================================
