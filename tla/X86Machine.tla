----------------------------- MODULE X86Machine -----------------------------
(* What a program sees of the instructions that move data and control: the    *)
(* registers s.r, the memory s.m in cells of Cell bits, the lowest first, and *)
(* the direction flag s.df.  An operand of n cells is an immediate, a part of *)
(* a register from cell disp on, or memory at a sum of registers and disp.    *)
(* What an instruction reads, it reads before it writes anything.             *)
EXTENDS X86Flags, Bitwise

CONSTANT Cell

Operand(kind, reg, index, scale, disp) ==
  [kind |-> kind, reg |-> reg, index |-> index, scale |-> scale, disp |-> disp]
Reg(r) == Operand("reg", r, "", 0, 0)
High(r) == Operand("reg", r, "", 0, 1)
At(r, d) == Operand("mem", r, "", 0, d)
Imm(v) == Operand("imm", "", "", 0, v)

Part(v, from, n) == (v \div 2^(Cell * from)) % 2^(Cell * n)
CellAt(m, a) == (a % 2^RegWidth) % Cardinality(DOMAIN m)
Word(m, a, n) ==
  LET sum[k \in 0 .. n] ==
        IF k = 0 THEN 0 ELSE sum[k - 1] + m[CellAt(m, a + k - 1)] * 2^(Cell * (k - 1))
  IN sum[n]
Stored(m, a, n, v) ==
  LET cell(k) == CellAt(m, a + k)
  IN [x \in DOMAIN m |-> IF \E k \in 0 .. n - 1 : cell(k) = x
                         THEN Part(v, CHOOSE k \in 0 .. n - 1 : cell(k) = x, 1) ELSE m[x]]

Address(s, op) ==
  LET reg(x) == IF x = "" THEN 0 ELSE s.r[x]
  IN (reg(op.reg) + reg(op.index) * 2^op.scale + op.disp) % 2^RegWidth
Value(s, op, n) == CASE op.kind = "imm" -> op.disp % 2^(Cell * n)
                     [] op.kind = "mem" -> Word(s.m, Address(s, op), n)
                     [] op.kind = "reg" -> Part(s.r[op.reg], op.disp, n)

(* t with v in the operand that op is in s.                                   *)
Put(t, s, op, n, v) ==
  IF op.kind = "mem" THEN [t EXCEPT !.m = Stored(t.m, Address(s, op), n, v)]
  ELSE [t EXCEPT !.r[op.reg] =
          @ + ((v % 2^(Cell * n)) - Part(@, op.disp, n)) * 2^(Cell * op.disp)]

(* t with the registers in the domain of rs replaced.                         *)
With(t, rs) ==
  [t EXCEPT !.r = [x \in DOMAIN t.r |-> IF x \in DOMAIN rs THEN rs[x] % 2^RegWidth ELSE t.r[x]]]

-----------------------------------------------------------------------------
(* The parts of an instruction.                                               *)

W(i) == Cell * i.n
Dst(i) == Value(i.s, i.dst, i.n)
Src(i) == Value(i.s, i.src, i.n)
After(i) == i.s.r["EIP"] + i.len
Onward(i) == With(i.s, "EIP" :> After(i))
Store(i, v) == Put(Onward(i), i.s, i.dst, i.n, v)
Holds(cond) == Outcome([name |-> "JCC", a |-> cond]).r = 1
Plain(t) == Gives(t, <<>>, {})

(* The machine that f makes of the result of an arithmetic outcome.           *)
Leaving(o, t) == Gives(t, o.vals, o.undefined)

Arithmetic(i) ==
  LET a == Dst(i)
      b == Src(i)
      logic(v) == Outcome([name |-> "LOGIC", w |-> W(i), a |-> v])
      o == CASE i.name \in {"AND", "TEST"} -> logic(a & b)
             [] i.name = "OR" -> logic(a | b)
             [] i.name = "XOR" -> logic(a ^^ b)
             [] i.name = "NEG" -> Outcome([name |-> "SUB", w |-> W(i), a |-> 0, b |-> a])
             [] OTHER -> Outcome([name |-> i.name, w |-> W(i), a |-> a, b |-> b])
  IN Leaving(o, IF i.name \in {"CMP", "TEST"} THEN Onward(i) ELSE Store(i, o.r))

(* Counts are bytes.                                                          *)
ShiftOperand(i) ==
  LET o == Outcome([name |-> i.name, w |-> W(i), a |-> Dst(i), b |-> Value(i.s, i.src, 1)])
  IN Leaving(o, Store(i, o.r))
DoubleShiftOperand(i) ==
  LET o == Outcome([name |-> i.name, w |-> W(i), a |-> Dst(i), b |-> Src(i),
                    n |-> Value(i.s, i.count, 1)])
  IN Leaving(o, Store(i, o.r))

ScanBits(i) ==
  LET o == Outcome([name |-> i.name, w |-> W(i), a |-> Src(i)]) IN Leaving(o, Store(i, o.r))

(* An immediate bit offset is taken modulo the width, and so is one in a      *)
(* register for a register; for memory the register's is a signed number that *)
(* may lead far from the operand.                                             *)
TestBit(i) ==
  LET off == Src(i)
      far == i.dst.kind = "mem" /\ i.src.kind = "reg"
      op == IF far THEN [i.dst EXCEPT !.disp = @ + i.n * (Signed(off, W(i)) \div W(i))] ELSE i.dst
      a == Value(i.s, op, i.n)
      mask == 2^(off % W(i))
      r == CASE i.name = "BT" -> a
             [] i.name = "BTS" -> a | mask
             [] i.name = "BTR" -> a & (2^W(i) - 1 - mask)
             [] i.name = "BTC" -> a ^^ mask
  IN Leaving(Outcome([name |-> "BT", w |-> W(i), a |-> a, b |-> off]),
             IF i.name = "BT" THEN Onward(i) ELSE Put(Onward(i), i.s, op, i.n, r))

(* Products and quotients of a cell: AX, or AL and AH.                        *)
Accumulate(i) ==
  LET o == Outcome([name |-> i.name, w |-> Cell, b |-> Src(i),
                    a |-> Part(i.s.r["EAX"], 0, IF i.name \in {"DIV", "IDIV"} THEN 2 ELSE 1)])
      ax == CASE i.name \in {"MUL", "IMUL"} -> o.r
              [] o.r = <<>> -> 0
              [] OTHER -> o.r[1] + o.r[2] * 2^Cell
  IN IF i.name \in {"DIV", "IDIV"} /\ o.r = <<>> THEN Plain(<<>>)
     ELSE Leaving(o, Put(Onward(i), i.s, Reg("EAX"), 2, ax))
MultiplyOperand(i) ==
  LET o == Outcome([name |-> "IMUL", w |-> W(i), a |-> Src(i), b |-> Value(i.s, i.by, i.n)])
  IN Leaving(o, Store(i, o.r))

-----------------------------------------------------------------------------
(* Moves and exchanges.  Of two destinations the first is written last.       *)

SignExtended(v, n, to) == Signed(v, Cell * n) % 2^(Cell * to)
Exchange(i) == Plain(Put(Put(Onward(i), i.s, i.src, i.n, Dst(i)), i.s, i.dst, i.n, Src(i)))
ExchangeAdd(i) ==
  LET o == Outcome([name |-> "XADD", w |-> W(i), a |-> Dst(i), b |-> Src(i)])
  IN Leaving(o, Put(Put(Onward(i), i.s, i.src, i.n, Dst(i)), i.s, i.dst, i.n, o.r))
CompareExchangeOperand(i) ==
  LET acc == Value(i.s, Reg("EAX"), i.n)
      o == Outcome([name |-> "CMP", w |-> W(i), a |-> acc, b |-> Dst(i)])
  IN Leaving(o, IF acc = Dst(i) THEN Store(i, Src(i))
                ELSE Put(Onward(i), i.s, Reg("EAX"), i.n, Dst(i)))
CompareExchangePair(i) ==
  LET a == Address(i.s, i.dst)
      same == i.s.r["EAX"] = Word(i.s.m, a, 2) /\ i.s.r["EDX"] = Word(i.s.m, a + 2, 2)
      t == IF same THEN [Onward(i) EXCEPT !.m = Stored(Stored(@, a, 2, i.s.r["EBX"]),
                                                       a + 2, 2, i.s.r["ECX"])]
           ELSE With(Onward(i), "EAX" :> Word(i.s.m, a, 2) @@ "EDX" :> Word(i.s.m, a + 2, 2))
  IN Gives(t, "ZF" :> B(same), {})

(* The image of the flags in a register; bit 1 is set.                        *)
Place == [CF |-> 0, PF |-> 2, AF |-> 4, ZF |-> 6, SF |-> 7, OF |-> 11]
Image(f, df) == 2 + f["CF"] + 4 * f["PF"] + 16 * f["AF"] + 64 * f["ZF"] + 128 * f["SF"]
                + 1024 * df + 2048 * f["OF"]
Loaded(v, fs) == [f \in fs |-> BitOf(v, Place[f])]

Move(i) ==
  CASE i.name = "MOV" -> Plain(Store(i, Src(i)))
    [] i.name = "MOVZX" -> Plain(Put(Onward(i), i.s, i.dst, 2, Src(i)))
    [] i.name = "MOVSX" -> Plain(Put(Onward(i), i.s, i.dst, 2, SignExtended(Src(i), i.n, 2)))
    [] i.name = "LEA" -> Plain(Store(i, Address(i.s, i.src)))
    [] i.name = "CMOV" -> Plain(IF Holds(i.cond) THEN Store(i, Src(i)) ELSE Onward(i))
    [] i.name = "SETCC" -> Plain(Store(i, B(Holds(i.cond))))
    [] i.name = "NOT" -> Plain(Store(i, 2^W(i) - 1 - Dst(i)))
    [] i.name = "XLAT" -> Plain(Put(Onward(i), i.s, Reg("EAX"), 1,
                                    Word(i.s.m, (Value(i.s, Reg("EBX"), i.an) + Part(i.s.r["EAX"], 0, 1))
                                                 % 2^(Cell * i.an), 1)))
    [] i.name = "BSWAP" -> Plain(Store(i, Part(Dst(i), 0, 1) * 2^Cell + Part(Dst(i), 1, 1)))
    [] i.name = "CWDE" -> Plain(Put(Onward(i), i.s, Reg("EAX"), 2,
                                    SignExtended(Part(i.s.r["EAX"], 0, 1), 1, 2)))
    [] i.name = "CWD" -> Plain(Put(Onward(i), i.s, Reg("EDX"), i.n,
                                   -Top(Value(i.s, Reg("EAX"), i.n), W(i))))
    [] i.name = "LAHF" -> Plain(Put(Onward(i), i.s, High("EAX"), 1, Image(flags, 0)))
    [] i.name = "SAHF" -> Gives(Onward(i), Loaded(Part(i.s.r["EAX"], 1, 1), Flag \ {"OF"}), {})
    [] i.name \in {"CLD", "STD"} -> Plain([Onward(i) EXCEPT !.df = B(i.name = "STD")])

-----------------------------------------------------------------------------
(* The stack and the flow of control.                                         *)

Push(t, n, v) ==
  LET esp == t.r["ESP"] - n IN With([t EXCEPT !.m = Stored(@, esp, n, v)], "ESP" :> esp)
Top0(s, n) == Word(s.m, s.r["ESP"], n)
Popped(t, n) == With(t, "ESP" :> t.r["ESP"] + n)
Order == <<"EAX", "ECX", "EDX", "EBX", "ESP", "EBP", "ESI", "EDI">>

PushAll(i) ==
  LET pushed[k \in 0 .. 8] ==
        IF k = 0 THEN Onward(i) ELSE Push(pushed[k - 1], i.n, Value(i.s, Reg(Order[k]), i.n))
  IN pushed[8]
PopAll(i) ==
  LET popped[k \in 0 .. 8] ==
        IF k = 0 THEN Onward(i)
        ELSE LET t == popped[k - 1]
                 reg == Order[9 - k]
             IN IF reg = "ESP" THEN Popped(t, i.n)
                ELSE Put(Popped(t, i.n), t, Reg(reg), i.n, Top0(t, i.n))
  IN popped[8]

(* A procedure at nesting level k copies the k - 1 frame pointers below the   *)
(* one of its caller, and appends its own.                                    *)
EnterFrame(i) ==
  LET first == Push(Onward(i), 2, i.s.r["EBP"])
      frame == first.r["ESP"]
      copied[k \in 0 .. i.level] ==
        IF k <= 1 THEN first
        ELSE Push(copied[k - 1], 2, Word(copied[k - 1].m, i.s.r["EBP"] - 2 * (k - 1), 2))
      last == IF i.level = 0 THEN first ELSE Push(copied[i.level], 2, frame)
  IN With(last, "EBP" :> frame @@ "ESP" :> last.r["ESP"] - i.imm)

Relative(i) == (After(i) + i.imm) % 2^W(i)
Goto(i, t, taken, eip) == Plain(IF taken THEN With(t, "EIP" :> eip) ELSE t)

Stack(i) ==
  CASE i.name = "PUSH" -> Plain(Push(Onward(i), i.n, Dst(i)))
    [] i.name = "POP" -> LET t == Popped(Onward(i), i.n)
                         IN Plain(Put(t, t, i.dst, i.n, Top0(i.s, i.n)))
    [] i.name = "PUSHA" -> Plain(PushAll(i))
    [] i.name = "POPA" -> Plain(PopAll(i))
    [] i.name = "PUSHF" -> Plain(Push(Onward(i), i.n, Image(flags, i.s.df)))
    [] i.name = "POPF" -> Gives([Popped(Onward(i), 2) EXCEPT !.df = BitOf(Top0(i.s, 2), 10)],
                                Loaded(Top0(i.s, 2), Flag), {})
    [] i.name = "ENTER" -> Plain(EnterFrame(i))
    [] i.name = "LEAVE" -> Plain(Put(With(Onward(i), "ESP" :> i.s.r["EBP"] + i.n), i.s, Reg("EBP"),
                                     i.n, Word(i.s.m, i.s.r["EBP"], i.n)))
    [] i.name = "CALL" -> Goto(i, Push(Onward(i), i.n, After(i)), TRUE, Dst(i))
    [] i.name = "CALLREL" -> Goto(i, Push(Onward(i), i.n, After(i)), TRUE, Relative(i))
    [] i.name = "RET" -> Goto(i, With(i.s, "ESP" :> i.s.r["ESP"] + i.n + i.imm), TRUE,
                              Top0(i.s, i.n))

Flow(i) ==
  LET count == (Value(i.s, Reg("ECX"), i.an) - 1) % 2^(Cell * i.an)
  IN CASE i.name = "JMP" -> Goto(i, i.s, TRUE, Dst(i))
       [] i.name = "JMPREL" -> Goto(i, i.s, TRUE, Relative(i))
       [] i.name = "JCC" -> Goto(i, Onward(i), Holds(i.cond), Relative(i))
       [] i.name = "JECXZ" -> Goto(i, Onward(i), Value(i.s, Reg("ECX"), i.an) = 0, Relative(i))
       [] i.name \in {"LOOP", "LOOPZ", "LOOPNZ"} ->
            Goto(i, Put(Onward(i), i.s, Reg("ECX"), i.an, count),
                 /\ count # 0
                 /\ i.name = "LOOPZ" => flags["ZF"] = 1
                 /\ i.name = "LOOPNZ" => flags["ZF"] = 0, Relative(i))
       [] i.name = "BOUND" ->
            LET a == Address(i.s, i.src)
                low == Signed(Word(i.s.m, a, i.n), W(i))
                high == Signed(Word(i.s.m, a + i.n, i.n), W(i))
            IN Plain(IF Signed(Dst(i), W(i)) \in low .. high THEN Onward(i) ELSE <<>>)

-----------------------------------------------------------------------------
(* String instructions: ECX elements with a repeat prefix, one without.  A    *)
(* comparison stops after the first element that ends the repetition.         *)
String(i) ==
  LET s == i.s
      reg(r) == Value(s, Reg(r), i.an)
      n == IF i.rep = "" THEN 1 ELSE reg("ECX")
      step == i.n * (1 - 2 * s.df)
      from(k) == (reg("ESI") + step * (k - 1)) % 2^(Cell * i.an)
      to(k) == (reg("EDI") + step * (k - 1)) % 2^(Cell * i.an)
      acc == Value(s, Reg("EAX"), i.n)
      a(k) == IF i.name = "CMPS" THEN Word(s.m, from(k), i.n) ELSE acc
      b(k) == Word(s.m, to(k), i.n)
      stops == {k \in 1 .. n : i.rep # "" /\ (a(k) = b(k)) = (i.rep = "NE")}
      compares == i.name \in {"SCAS", "CMPS"}
      done == IF compares /\ stops # {} THEN CHOOSE k \in stops : \A j \in stops : k <= j ELSE n
      memory[k \in 0 .. n] ==
        IF k = 0 THEN s.m
        ELSE Stored(memory[k - 1], to(k), i.n,
                    IF i.name = "MOVS" THEN Word(memory[k - 1], from(k), i.n) ELSE acc)
      written == [Onward(i) EXCEPT !.m = IF i.name \in {"MOVS", "STOS"} THEN memory[n] ELSE s.m]
      source == IF i.name \in {"MOVS", "CMPS", "LODS"}
                THEN Put(written, s, Reg("ESI"), i.an, reg("ESI") + step * done) ELSE written
      dest == IF i.name # "LODS"
              THEN Put(source, s, Reg("EDI"), i.an, reg("EDI") + step * done) ELSE source
      t == IF i.rep = "" THEN dest ELSE Put(dest, s, Reg("ECX"), i.an, n - done)
  IN Gives(IF i.name = "LODS" /\ n > 0 THEN Put(t, s, Reg("EAX"), i.n, Word(s.m, from(n), i.n))
           ELSE t,
           IF compares /\ n > 0 THEN Borrowed(a(done), b(done), W(i), 0) ELSE <<>>, {})

-----------------------------------------------------------------------------
Machine(i) ==
  CASE i.name \in {"ADD", "ADC", "SUB", "SBB", "CMP", "AND", "OR", "XOR", "TEST", "NEG",
                   "INC", "DEC"} -> Arithmetic(i)
    [] i.name \in {"SHL", "SHR", "SAR", "ROL", "ROR", "RCL", "RCR"} -> ShiftOperand(i)
    [] i.name \in {"SHLD", "SHRD"} -> DoubleShiftOperand(i)
    [] i.name \in {"BSF", "BSR"} -> ScanBits(i)
    [] i.name \in {"BT", "BTS", "BTR", "BTC"} -> TestBit(i)
    [] i.name \in {"MUL", "IMUL", "DIV", "IDIV"} -> Accumulate(i)
    [] i.name = "IMUL2" -> MultiplyOperand(i)
    [] i.name = "XCHG" -> Exchange(i)
    [] i.name = "XADD" -> ExchangeAdd(i)
    [] i.name = "CMPXCHG" -> CompareExchangeOperand(i)
    [] i.name = "CMPXCHG8B" -> CompareExchangePair(i)
    [] i.name \in {"JMP", "JMPREL", "JCC", "JECXZ", "LOOP", "LOOPZ", "LOOPNZ", "BOUND"} -> Flow(i)
    [] i.name \in {"PUSH", "POP", "PUSHA", "POPA", "PUSHF", "POPF", "ENTER", "LEAVE", "CALL",
                   "CALLREL", "RET"} -> Stack(i)
    [] i.name \in {"MOVS", "STOS", "LODS", "SCAS", "CMPS"} -> String(i)
    [] OTHER -> Move(i)

(* Where the result is undefined only the destination is.                     *)
FreeResult(i) == \/ i.name \in {"BSF", "BSR"} /\ Src(i) = 0
                 \/ i.name \in {"SHLD", "SHRD"} /\ Value(i.s, i.count, 1) % RegWidth > W(i)

Perform(i) ==
  LET o == Machine(i)
  IN /\ res' = IF FreeResult(i) THEN Put(o.r, i.s, i.dst, i.n, Value(res', i.dst, i.n)) ELSE o.r
     /\ SetsFlags(o)

MachineNext == CASE insn # <<>> -> Retire
                 [] insn = <<>> /\ "s" \in DOMAIN insn' -> Perform(insn')
                 [] OTHER -> Execute(insn')
=============================================================================
