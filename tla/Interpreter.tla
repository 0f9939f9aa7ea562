---------------------------- MODULE Interpreter -----------------------------
(* The handlers of the interpreter, one call for each decoded instruction:    *)
(* what they read from and write to registers and memory, in the order of the *)
(* code, around the arithmetic and the lazy flags of LazyFlags.  An           *)
(* instruction i has operands of i.n cells (bytes): of one cell in place of   *)
(* the code's narrow operands, of a whole register in place of its 32-bit     *)
(* ones.  i.an is the address size likewise, i.len the length of the          *)
(* instruction.  Memory is flat and present, and the segment bases are 0.     *)
EXTENDS LazyFlags, Bitwise

CONSTANTS Cell,
          Chunk,      \* elements in one call of a string handler
          Loads,      \* flags loaded before an instruction
          Machines,   \* registers, memory and direction flag before it
          Jumps,      \* displacements of relative jumps
          Bytes       \* immediates

Full == RegWidth \div Cell
W(i) == Cell * i.n
Part(v, from, n) == (v \div 2^(Cell * from)) % 2^(Cell * n)

LinAddr(s, e) ==
  LET reg(x) == IF x = "" THEN 0 ELSE s.r[x]
  IN Wrap(reg(e.reg) + reg(e.index) * 2^e.scale + e.disp)

Place(s, a) == Wrap(a) % Cardinality(DOMAIN s.m)
Read(s, a, n) == s.m[Place(s, a)] + (IF n = 1 THEN 0 ELSE s.m[Place(s, a + 1)] * 2^Cell)
Write(s, a, n, v) ==
  LET t == [s EXCEPT !.m[Place(s, a)] = Part(v, 0, 1)]
  IN IF n = 1 THEN t ELSE [t EXCEPT !.m[Place(s, a + 1)] = Part(v, 1, 1)]

R(s, r, n) == Part(s.r[r], 0, n)
(* v in n cells of the register r, from the cell on.                          *)
SetPart(s, r, cell, n, v) ==
  [s EXCEPT !.r[r] = @ + (Part(v, 0, n) - Part(@, cell, n)) * 2^(Cell * cell)]
SetR(s, r, n, v) == SetPart(s, r, 0, n, v)

Load(s, op, n) == CASE op.kind = "imm" -> Part(op.disp, 0, n)
                    [] op.kind = "reg" -> Part(s.r[op.reg], op.disp, n)
                    [] op.kind = "mem" -> Read(s, LinAddr(s, op), n)
StoreTo(s, op, n, v) == IF op.kind = "mem" THEN Write(s, LinAddr(s, op), n, v)
                        ELSE SetPart(s, op.reg, op.disp, n, v)
(* A memory operand whose address has been computed.                          *)
Fixed(s, op) == IF op.kind # "mem" THEN op
                ELSE [op EXCEPT !.reg = "", !.index = "", !.disp = LinAddr(s, op)]

Eip(s) == s.r["EIP"]
SetEip(s, a) == [s EXCEPT !.r["EIP"] = Wrap(a)]
Skip(s, i) == SetEip(s, Eip(s) + i.len)
Error == <<<<>>, cpu>>

(* Handlers return the machine and the flags they leave.                      *)
Keep(i, t) == <<Skip(t, i), cpu>>
Into(i, op, result) == <<Skip(StoreTo(i.s, op, i.n, result[1]), i), result[2]>>

-----------------------------------------------------------------------------
(* Arithmetic on operands: register with register, immediate and memory.      *)

Dst(i) == Load(i.s, i.dst, i.n)
Src(i) == Load(i.s, i.src, i.n)

ArithForms(i) ==
  Into(i, i.dst,
       CASE i.name = "AND" -> Logic(W(i), Dst(i) & Src(i))
         [] i.name = "OR" -> Logic(W(i), Dst(i) | Src(i))
         [] i.name = "XOR" -> Logic(W(i), Dst(i) ^^ Src(i))
         [] i.name \in {"ADD", "ADC", "SBB", "SUB"} -> Arith(i.name, W(i), Dst(i), Src(i)))
CmpForms(i) == <<Skip(i.s, i), Cmp(W(i), Dst(i), Src(i))[2]>>
TestForms(i) == <<Skip(i.s, i), Logic(W(i), Dst(i) & Src(i))[2]>>
ShiftForms(i) == Into(i, i.dst, ShiftGroup(i.name, W(i), Dst(i), Load(i.s, i.src, 1)))
IncDec(i) == Into(i, i.dst, IF i.name = "INC" THEN Inc(W(i), Dst(i)) ELSE Dec(W(i), Dst(i)))
NotNeg(i) == Into(i, i.dst, IF i.name = "NEG" THEN Sub(W(i), 0, Dst(i))
                            ELSE <<2^W(i) - 1 - Dst(i), cpu>>)
DoubleForms(i) ==
  LET n == Load(i.s, i.count, 1)
  IN Into(i, i.dst, IF i.name = "SHLD" THEN Shld(W(i), Dst(i), Src(i), n)
                    ELSE Shrd(W(i), Dst(i), Src(i), n))

(* The products and quotients of the narrow operands: AX, or AL and AH.       *)
MulDivForms(i) ==
  LET out == CASE i.name = "MUL" -> Mul(Cell, R(i.s, "EAX", 1), Src(i))
               [] i.name = "IMUL" -> Imul(Cell, R(i.s, "EAX", 1), Src(i))
               [] i.name = "DIV" -> Div(Cell, R(i.s, "EAX", 2), Src(i))
               [] i.name = "IDIV" -> Idiv(Cell, R(i.s, "EAX", 2), Src(i))
      ax == IF i.name \in {"MUL", "IMUL"} THEN out[1] ELSE out[1][1] + out[1][2] * 2^Cell
  IN IF i.name \in {"DIV", "IDIV"} /\ out[1] = <<>> THEN Error
     ELSE <<Skip(SetR(i.s, "EAX", 2, ax), i), out[2]>>
ImulForms(i) == Into(i, i.dst, Imul(W(i), Src(i), Load(i.s, i.by, i.n)))

BitScanForms(i) ==
  Into(i, i.dst, IF i.name = "BSF" THEN BitScanForward(W(i), Src(i), Dst(i))
                 ELSE BitScanReverse(W(i), Src(i), Dst(i)))

(* An offset x into memory moves the address by a division without sign.      *)
BitForms(i) ==
  LET x == Src(i)
      op == IF i.dst.kind = "reg" THEN i.dst
            ELSE [i.dst EXCEPT !.disp = @ + (x \div W(i)) * i.n]
      a == Load(i.s, op, i.n)
      mask == 2^(x % W(i))
      r == CASE i.name = "BT" -> a
             [] i.name = "BTS" -> a | mask
             [] i.name = "BTC" -> a ^^ mask
             [] i.name = "BTR" -> a & (2^W(i) - 1 - mask)
  IN Into(i, op, <<r, BitTest(W(i), a, x)[2]>>)

-----------------------------------------------------------------------------
(* Moves.                                                                     *)

MovForms(i) == Keep(i, StoreTo(i.s, i.dst, i.n, Src(i)))
Movzx(i) == Keep(i, SetR(i.s, i.dst.reg, Full, Src(i)))
Movsx(i) == Keep(i, SetR(i.s, i.dst.reg, Full, Extend(Src(i), W(i))))
Cmov(i) == Keep(i, IF CondHolds(i.cond) = 1 THEN StoreTo(i.s, i.dst, i.n, Src(i)) ELSE i.s)
Setcc(i) == Keep(i, StoreTo(i.s, i.dst, i.n, CondHolds(i.cond)))
Lea(i) == Keep(i, StoreTo(i.s, i.dst, i.n, LinAddr(i.s, i.src)))
Xlat(i) ==
  LET a == Part(R(i.s, "EBX", i.an) + R(i.s, "EAX", 1), 0, i.an)
  IN Keep(i, SetR(i.s, "EAX", 1, Read(i.s, a, 1)))
Bswap(i) == Keep(i, StoreTo(i.s, i.dst, i.n, Part(Dst(i), 0, 1) * 2^Cell + Part(Dst(i), 1, 1)))
(* CBW and CWDE, CWD and CDQ.                                                 *)
SignExtend(i) ==
  Keep(i, IF i.name = "CWDE" THEN SetR(i.s, "EAX", Full, Extend(R(i.s, "EAX", 1), Cell))
          ELSE SetR(i.s, "EDX", i.n, IF R(i.s, "EAX", i.n) >= 2^(W(i) - 1) THEN -1 ELSE 0))
ClearDirection(i) == Keep(i, [i.s EXCEPT !.df = 0])
SetDirection(i) == Keep(i, [i.s EXCEPT !.df = 1])

Xchg(i) ==
  LET e == Fixed(i.s, i.dst)
      t == StoreTo(i.s, e, i.n, Src(i))
  IN Keep(i, StoreTo(t, i.src, i.n, Dst(i)))
XaddForms(i) ==
  LET e == Fixed(i.s, i.dst)
      out == Xadd(W(i), Dst(i), Src(i))
  IN <<Skip(StoreTo(StoreTo(i.s, i.src, i.n, Dst(i)), e, i.n, out[1]), i), out[2]>>
CmpxchgForms(i) ==
  LET a == R(i.s, "EAX", i.n)
      out == Cmpxchg(W(i), a, Dst(i), Src(i))
  IN <<Skip(IF a = Dst(i) THEN StoreTo(i.s, i.dst, i.n, Src(i))
            ELSE SetR(i.s, "EAX", i.n, Dst(i)), i), out[2]>>
Cmpxchg8b(i) ==
  LET a == LinAddr(i.s, i.dst)
      low == Read(i.s, a, Full)
      high == Read(i.s, a + Full, Full)
      same == i.s.r["EAX"] = low /\ i.s.r["EDX"] = high
  IN <<Skip(IF same THEN Write(Write(i.s, a, Full, i.s.r["EBX"]), a + Full, Full, i.s.r["ECX"])
            ELSE [i.s EXCEPT !.r["EAX"] = low, !.r["EDX"] = high], i),
       SetZf(cpu, B(same))>>
Bound(i) ==
  LET a == LinAddr(i.s, i.src)
      index == Signed(Dst(i), W(i))
  IN IF \/ index < Signed(Read(i.s, a, i.n), W(i))
        \/ index > Signed(Read(i.s, a + i.n, i.n), W(i))
     THEN Error ELSE Keep(i, i.s)

-----------------------------------------------------------------------------
(* The flags as a register: cpu_get_eflags and cpu_set_eflags, with the       *)
(* direction flag; bit 1 is set, the others are clear in user mode.           *)

Image(c, df) ==
  LET f == GetEflags(c)
  IN 2 + f.CF + 4 * f.PF + 16 * f.AF + 64 * f.ZF + 128 * f.SF + 1024 * df + 2048 * f.OF
FlagsOf(v) == [CF |-> Bit(v, 0), PF |-> Bit(v, 2), AF |-> Bit(v, 4), ZF |-> Bit(v, 6),
               SF |-> Bit(v, 7), OF |-> Bit(v, 11)]

Lahf(i) == Keep(i, SetPart(i.s, "EAX", 1, 1, Image(cpu, 0)))
SahfForm(i) == <<Skip(i.s, i), SetEflags(cpu, [FlagsOf(Part(i.s.r["EAX"], 1, 1))
                                                EXCEPT !.OF = GetOf(cpu)])>>

-----------------------------------------------------------------------------
(* The stack: ESP is stored after the memory has been written or read.        *)

PushValue(s, n, v) ==
  LET esp == Wrap(s.r["ESP"] - n) IN SetR(Write(s, esp, n, v), "ESP", Full, esp)
PopValue(s, n) ==
  [value |-> Read(s, s.r["ESP"], n), s |-> SetR(s, "ESP", Full, s.r["ESP"] + n)]

PushForms(i) == Keep(i, PushValue(i.s, i.n, Dst(i)))
(* The address of the destination is computed from the ESP after the pop.     *)
PopForms(i) ==
  LET p == PopValue(i.s, i.n) IN Keep(i, StoreTo(p.s, i.dst, i.n, p.value))

Registers == <<"EAX", "ECX", "EDX", "EBX", "ESP", "EBP", "ESI", "EDI">>
Pusha(i) ==
  LET down[k \in 0 .. 8] ==
        IF k = 0 THEN i.s
        ELSE Write(down[k - 1], i.s.r["ESP"] - k * i.n, i.n, R(i.s, Registers[k], i.n))
  IN Keep(i, SetR(down[8], "ESP", Full, i.s.r["ESP"] - 8 * i.n))
Popa(i) ==
  LET temp == [k \in 1 .. 8 |-> Read(i.s, i.s.r["ESP"] + (8 - k) * i.n, i.n)]
      loaded[k \in 0 .. 8] ==
        IF k = 0 THEN i.s
        ELSE IF Registers[k] = "ESP" THEN loaded[k - 1]
        ELSE SetR(loaded[k - 1], Registers[k], i.n, temp[k])
  IN Keep(i, SetR(loaded[8], "ESP", Full, i.s.r["ESP"] + 8 * i.n))

Pushf(i) == Keep(i, PushValue(i.s, Full, Image(cpu, i.s.df)))
PopfForm(i) ==
  LET p == PopValue(i.s, Full)
  IN <<Skip([p.s EXCEPT !.df = Bit(p.value, 10)], i), SetEflags(cpu, FlagsOf(p.value))>>

(* The frame pointer is read anew from EBP for every level, which stays.      *)
Enter(i) ==
  LET first == PushValue(i.s, Full, i.s.r["EBP"])
      frame == first.r["ESP"]
      linked[k \in 1 .. i.level] ==
        IF k = 1 THEN first
        ELSE PushValue(linked[k - 1], Full, Read(linked[k - 1], i.s.r["EBP"], Full))
      last == IF i.level = 0 THEN first ELSE PushValue(linked[i.level], Full, frame)
      t == SetR(last, "EBP", Full, frame)
  IN Keep(i, SetR(t, "ESP", Full, t.r["ESP"] - i.imm))
Leave(i) ==
  LET ebp == i.s.r["EBP"]
  IN Keep(i, SetR(SetR(i.s, "EBP", i.n, Read(i.s, ebp, i.n)), "ESP", Full, ebp + i.n))

-----------------------------------------------------------------------------
(* The flow of control.                                                       *)

(* A relative jump is cut to the operand size.                                *)
Target(i) == Part(Eip(i.s) + i.len + i.imm, 0, i.n)
GoTo(t, a) == <<SetEip(t, a), cpu>>
Branch(i, t, taken) == IF taken THEN GoTo(t, Target(i)) ELSE Keep(i, t)

Jmp(i) == GoTo(i.s, Dst(i))
JmpRel(i) == GoTo(i.s, Target(i))
(* CALL: a register is read after the push, memory before it.                 *)
CallForms(i) ==
  LET t == PushValue(i.s, i.n, Eip(i.s) + i.len)
  IN GoTo(t, IF i.dst.kind = "reg" THEN Load(t, i.dst, i.n) ELSE Dst(i))
CallRel(i) == GoTo(PushValue(i.s, i.n, Eip(i.s) + i.len), Target(i))
Ret(i) ==
  LET p == PopValue(i.s, i.n) IN GoTo(SetR(p.s, "ESP", Full, p.s.r["ESP"] + i.imm), p.value)
JccJump(i) == Branch(i, i.s, CondHolds(i.cond) = 1)
Jecxz(i) == Branch(i, i.s, R(i.s, "ECX", i.an) = 0)
Loop(i) ==
  LET count == Part(R(i.s, "ECX", i.an) - 1, 0, i.an)
  IN Branch(i, SetR(i.s, "ECX", i.an, count),
            /\ count # 0
            /\ i.name = "LOOPZ" => GetZf(cpu) = 1
            /\ i.name = "LOOPNZ" => GetZf(cpu) = 0)

-----------------------------------------------------------------------------
(* String instructions: one element, or a call that moves at most Chunk of    *)
(* them and is made again while ECX is not zero.                              *)

Step(i, s, r) == SetR(s, r, i.an, R(s, r, i.an) + (IF s.df = 1 THEN -i.n ELSE i.n))
Counted(i, s) == SetR(s, "ECX", i.an, R(s, "ECX", i.an) - 1)
AtEsi(i, s) == Read(s, R(s, "ESI", i.an), i.n)
AtEdi(i, s) == Read(s, R(s, "EDI", i.an), i.n)

MovsElement(i, s) ==
  Step(i, Step(i, Write(s, R(s, "EDI", i.an), i.n, AtEsi(i, s)), "ESI"), "EDI")
StosElement(i, s) ==
  Step(i, Write(s, R(s, "EDI", i.an), i.n, R(i.s, "EAX", i.n)), "EDI")
LodsElement(i, s) == Step(i, SetR(s, "EAX", i.n, AtEsi(i, s)), "ESI")

Compared(i, dest, src, t) ==
  [s |-> t, c |-> Cmp(W(i), dest, src)[2], ends |-> (src = dest) = (i.rep = "NE")]
ScasElement(i, s) == Compared(i, R(i.s, "EAX", i.n), AtEdi(i, s), Step(i, s, "EDI"))
CmpsElement(i, s) ==
  Compared(i, AtEsi(i, s), AtEdi(i, s), Step(i, Step(i, s, "EDI"), "ESI"))

Element(i, x) ==
  CASE i.name = "SCAS" -> ScasElement(i, x.s)
    [] i.name = "CMPS" -> CmpsElement(i, x.s)
    [] OTHER -> [x EXCEPT !.s = CASE i.name = "MOVS" -> MovsElement(i, x.s)
                                  [] i.name = "STOS" -> StosElement(i, x.s)
                                  [] i.name = "LODS" -> LodsElement(i, x.s)]

(* The loop of one call, with count elements left.                            *)
RECURSIVE Elements(_, _, _)
Elements(i, x, count) ==
  IF count = 0 THEN x
  ELSE LET y == Element(i, x)
           z == [y EXCEPT !.s = Counted(i, y.s)]
       IN IF z.ends THEN z ELSE Elements(i, z, count - 1)

(* Calls until one returns 0.                                                 *)
RECURSIVE Repeated(_, _)
Repeated(i, x) ==
  LET left == R(x.s, "ECX", i.an)
      y == Elements(i, x, IF left > Chunk THEN Chunk ELSE left)
  IN IF y.ends \/ R(y.s, "ECX", i.an) = 0 THEN y ELSE Repeated(i, y)

StringForms(i) ==
  LET start == [s |-> i.s, c |-> cpu, ends |-> FALSE]
      end == IF i.rep = "" THEN Element(i, start) ELSE Repeated(i, start)
  IN <<Skip(end.s, i), end.c>>

-----------------------------------------------------------------------------
ArithNames == {"ADD", "ADC", "SUB", "SBB", "AND", "OR", "XOR"}
BitNames == {"BT", "BTS", "BTR", "BTC"}
LoopNames == {"LOOP", "LOOPZ", "LOOPNZ"}
StringNames == {"MOVS", "STOS", "LODS", "SCAS", "CMPS"}

Handler(i) ==
  CASE i.name \in ArithNames -> ArithForms(i)
    [] i.name = "CMP" -> CmpForms(i)
    [] i.name = "TEST" -> TestForms(i)
    [] i.name \in ShiftOps -> ShiftForms(i)
    [] i.name \in {"INC", "DEC"} -> IncDec(i)
    [] i.name \in {"NOT", "NEG"} -> NotNeg(i)
    [] i.name \in {"SHLD", "SHRD"} -> DoubleForms(i)
    [] i.name \in {"MUL", "IMUL", "DIV", "IDIV"} -> MulDivForms(i)
    [] i.name = "IMUL2" -> ImulForms(i)
    [] i.name \in {"BSF", "BSR"} -> BitScanForms(i)
    [] i.name \in BitNames -> BitForms(i)
    [] i.name = "MOV" -> MovForms(i)
    [] i.name = "MOVZX" -> Movzx(i)
    [] i.name = "MOVSX" -> Movsx(i)
    [] i.name = "CMOV" -> Cmov(i)
    [] i.name = "SETCC" -> Setcc(i)
    [] i.name = "LEA" -> Lea(i)
    [] i.name = "XLAT" -> Xlat(i)
    [] i.name = "BSWAP" -> Bswap(i)
    [] i.name \in {"CWDE", "CWD"} -> SignExtend(i)
    [] i.name = "CLD" -> ClearDirection(i)
    [] i.name = "STD" -> SetDirection(i)
    [] i.name = "XCHG" -> Xchg(i)
    [] i.name = "XADD" -> XaddForms(i)
    [] i.name = "CMPXCHG" -> CmpxchgForms(i)
    [] i.name = "CMPXCHG8B" -> Cmpxchg8b(i)
    [] i.name = "BOUND" -> Bound(i)
    [] i.name = "LAHF" -> Lahf(i)
    [] i.name = "SAHF" -> SahfForm(i)
    [] i.name = "PUSH" -> PushForms(i)
    [] i.name = "POP" -> PopForms(i)
    [] i.name = "PUSHA" -> Pusha(i)
    [] i.name = "POPA" -> Popa(i)
    [] i.name = "PUSHF" -> Pushf(i)
    [] i.name = "POPF" -> PopfForm(i)
    [] i.name = "ENTER" -> Enter(i)
    [] i.name = "LEAVE" -> Leave(i)
    [] i.name = "JMP" -> Jmp(i)
    [] i.name = "JMPREL" -> JmpRel(i)
    [] i.name = "CALL" -> CallForms(i)
    [] i.name = "CALLREL" -> CallRel(i)
    [] i.name = "RET" -> Ret(i)
    [] i.name = "JCC" -> JccJump(i)
    [] i.name = "JECXZ" -> Jecxz(i)
    [] i.name \in LoopNames -> Loop(i)
    [] i.name \in StringNames -> StringForms(i)

(* A handler runs on the flags that a POPF has loaded.                        *)
Runs(i) ==
  LET result == Handler(i)
  IN insn' = i /\ res' = result[1] /\ cpu' = result[2] /\ executed' = 2

-----------------------------------------------------------------------------
(* The instructions of the run.                                               *)

Op(kind, reg, index, scale, disp) ==
  [kind |-> kind, reg |-> reg, index |-> index, scale |-> scale, disp |-> disp]
Reg(r) == Op("reg", r, "", 0, 0)
Imm(v) == Op("imm", "", "", 0, v)
Regs(n) == {Reg("EAX"), Reg("ECX"), Reg("ESP")} \cup
           (IF n = 1 THEN {Op("reg", "EAX", "", 0, 1)} ELSE {})
Mems == {Op("mem", "ESP", "", 0, 0), Op("mem", "EBX", "ECX", 1, 2^RegWidth - 3)}
Rm(n) == Regs(n) \cup Mems
Imms == {Imm(v) : v \in Bytes}

(* The combinations of operands that instructions have.                       *)
Forms(n) == ((Rm(n) \X Regs(n)) \cup (Rm(n) \X Imms) \cup (Regs(n) \X Mems))

Insn(s, name, n, dst, src) ==
  [name |-> name, s |-> s, n |-> n, an |-> Full, len |-> 3, dst |-> dst, src |-> src,
   by |-> src, count |-> src, cond |-> 0, imm |-> 0, level |-> 0, rep |-> ""]
None == Imm(0)

Insns(s, names, n, forms) == {Insn(s, name, n, f[1], f[2]) : name \in names, f \in forms}

OnOperands(s, n) ==
  LET ones == Rm(n) \X {None}
      loads == Regs(n) \X Rm(n)
      counts == Imms \cup {Reg("ECX")}
      double == {[f EXCEPT !.count = c] :
                   f \in Insns(s, {"SHLD", "SHRD"}, n, Rm(n) \X Regs(n)), c \in counts}
      cmovs == {[f EXCEPT !.cond = c] : f \in Insns(s, {"CMOV"}, n, loads), c \in 0 .. 15}
  IN Insns(s, ArithNames \cup {"CMP", "TEST"}, n, Forms(n))
     \cup Insns(s, BitNames \cup {"MOV"}, n, Rm(n) \X (Regs(n) \cup Imms))
     \cup Insns(s, {"INC", "DEC", "NOT", "NEG", "PUSH", "POP", "JMP", "CALL"}, n, ones)
     \cup Insns(s, ShiftOps, n, Rm(n) \X counts)
     \cup Insns(s, {"XCHG", "XADD", "CMPXCHG"}, n, Rm(n) \X Regs(n))
     \cup Insns(s, {"MOV", "BSF", "BSR"}, n, loads)
     \cup Insns(s, {"LEA", "BOUND"}, n, Regs(n) \X Mems)
     \cup double \cup cmovs

OnBytes(s) ==
  LET by(c) == {[f EXCEPT !.by = c] : f \in Insns(s, {"IMUL2"}, 1, Regs(1) \X Rm(1))}
      setcc == {[f EXCEPT !.cond = c] : f \in Insns(s, {"SETCC"}, 1, Rm(1) \X {None}), c \in 0 .. 15}
      imul == {[f EXCEPT !.by = f.dst] : f \in Insns(s, {"IMUL2"}, 1, Regs(1) \X Rm(1))}
  IN Insns(s, {"MUL", "IMUL", "DIV", "IDIV"}, 1, {None} \X Rm(1))
     \cup Insns(s, {"MOVZX", "MOVSX"}, 1, Regs(Full) \X Rm(1))
     \cup UNION {by(c) : c \in Imms} \cup imul \cup setcc

Plain(s) ==
  LET at(names, n) == Insns(s, names, n, {<<None, None>>})
      sized(names) == UNION {at(names, n) : n \in {1, Full}}
      jumps == {[f EXCEPT !.imm = d, !.an = an] :
                  f \in sized({"JMPREL", "CALLREL", "JECXZ"} \cup LoopNames), d \in Jumps, an \in {1, Full}}
      strings == {[f EXCEPT !.an = an, !.rep = rep] :
                    f \in sized(StringNames), an \in {1, Full}, rep \in {"", "E", "NE"}}
  IN at({"CWDE", "CLD", "STD", "LAHF", "SAHF", "XLAT"}, 1) \cup at({"PUSHF", "POPF"}, Full)
     \cup sized({"CWD", "PUSHA", "POPA", "LEAVE"})
     \cup {Insn(s, "BSWAP", Full, dst, None) : dst \in Regs(Full)}
     \cup {Insn(s, "CMPXCHG8B", Full, dst, None) : dst \in Mems}
     \cup {[f EXCEPT !.level = level, !.imm = v] : f \in at({"ENTER"}, Full), level \in 0 .. 3, v \in {0, 4}}
     \cup {[f EXCEPT !.imm = v] : f \in sized({"RET"}), v \in {0, 4}}
     \cup {[f EXCEPT !.imm = d, !.cond = c] : f \in sized({"JCC"}), d \in Jumps, c \in 0 .. 15}
     \cup jumps \cup {f \in strings : f.rep = "" \/ R(s, "ECX", f.an) <= 9}

Instructions(s) == OnOperands(s, 1) \cup OnOperands(s, Full) \cup OnBytes(s) \cup Plain(s)

(* Some flags, and one instruction on a machine.                              *)
RunNext ==
  \/ Continue
  \/ insn = <<>> /\ executed = 0 /\ \E f \in Loads : Popf(f)
  \/ insn = <<>> /\ executed = 1 /\ \E s \in Machines : \E i \in Instructions(s) : Runs(i)

-----------------------------------------------------------------------------
Machine == INSTANCE X86Machine WITH flags <- GetEflags(cpu), Tracked <- DOMAIN NoFlags

(* What comes out wrong on operands: a call through the register that it      *)
(* pushes with; frames of a procedure nested deeper than one; and a bit       *)
(* offset beyond the operand, which the division takes as unsigned if it is   *)
(* in a register, and which moves the address if it is an immediate.          *)
DeviatesOn(i) ==
  \/ i.name = "CALL" /\ i.dst = Reg("ESP")
  \/ i.name = "ENTER" /\ i.level > 1
  \/ /\ i.name \in BitNames /\ i.dst.kind = "mem"
     /\ Src(i) >= IF i.src.kind = "imm" THEN W(i) ELSE 2^(W(i) - 1)
  \/ i.name = "SHRD" /\ Load(i.s, i.count, 1) % RegWidth = W(i)

RunConforms == Machine!MachineNext \/ (insn' # <<>> /\ "s" \in DOMAIN insn' /\ DeviatesOn(insn'))
=============================================================================
