------------------------------ MODULE JitCode -------------------------------
(* What the code that the JIT emits for an instruction does to its operands   *)
(* and to EFLAGS.  The host has only full registers, of RegWidth bits (32 in  *)
(* the code): a narrow operand is extended to one, and what a narrow          *)
(* instruction leaves above its width is cut off only when it is stored.      *)
(* Host shifts take their count modulo RegWidth.                              *)
EXTENDS Integers, Sequences, FiniteSets

CONSTANTS RegWidth, Width,
          Names,      \* the instructions of each step; its length bounds the run
          Value,   \* operand values of each width
          Counts,     \* counts of shifts, as encoded
          Machines,   \* registers and memory before instructions that move
          Memory,     \* contents of the memory string instructions see
          Patterns    \* flags loaded by POPFD and SAHF

VARIABLES insn, res, eflags,
          executed    \* instructions executed

vars == <<insn, res, eflags, executed>>

B(p) == IF p THEN 1 ELSE 0
Xor(a, b) == (a + b) % 2
Wrap(x) == x % 2^RegWidth
Bit(x, n) == (x \div 2^n) % 2
Signed(x, w) == IF x >= 2^(w - 1) THEN x - 2^w ELSE x
Lsl(x, n) == Wrap(x * 2^(n % RegWidth))
Lsr(x, n) == x \div 2^(n % RegWidth)
(* Two numbers without a common bit, and with common bits.                    *)
Orr(a, b) == LET or[n \in 0 .. RegWidth] ==
                   IF n = 0 THEN 0
                   ELSE or[n - 1] + 2^(n - 1) * B(Bit(a, n - 1) + Bit(b, n - 1) > 0)
             IN or[RegWidth]

-----------------------------------------------------------------------------
(* The host's condition flags.                                                *)

Adcs(a, b, c) ==
  LET r == Wrap(a + b + c)
  IN [r |-> r, N |-> Bit(r, RegWidth - 1), Z |-> B(r = 0), C |-> B(a + b + c # r),
      V |-> B(Signed(a, RegWidth) + Signed(b, RegWidth) + c # Signed(r, RegWidth))]
Adds(a, b) == Adcs(a, b, 0)
Sbcs(a, b, c) == Adcs(a, 2^RegWidth - 1 - b, c)
Subs(a, b) == Sbcs(a, b, 1)
Tst(r, w) == [r |-> r, N |-> Bit(r, w - 1), Z |-> B(r % 2^w = 0), C |-> 0, V |-> 0]

-----------------------------------------------------------------------------
(* emit_update_flags: h is the host's result and condition flags.             *)

Rotates == {"rol", "ror", "rcr"}
ShiftOps == Rotates \cup {"shr", "shl", "sar", "shld", "shrd"}

(* Mutant of Written: INC and DEC write the carry.                            *)
WrittenAll(op) == CASE op \in Rotates -> {"CF", "OF"}
                    [] op = "bsf" -> {"ZF"}
                    [] OTHER -> {"SF", "ZF", "CF", "OF"}

Written(op) == CASE op \in Rotates -> {"CF", "OF"}
                 [] op = "bsf" -> {"ZF"}
                 [] op \in {"inc", "dec"} -> {"SF", "ZF", "OF"}
                 [] OTHER -> {"SF", "ZF", "CF", "OF"}

NoFlags == [CF |-> 0, PF |-> 0, AF |-> 0, ZF |-> 0, SF |-> 0, OF |-> 0]

(* A full-size instruction takes the host's flags, with the carry of a        *)
(* subtraction inverted.                                                      *)
FullFlags(op, h) ==
  [NoFlags EXCEPT !.SF = h.N, !.ZF = h.Z, !.OF = h.V,
                  !.CF = CASE op = "sub" -> 1 - h.C
                           [] op \in {"inc", "dec"} -> 0
                           [] OTHER -> h.C]

(* "smaller size. Need to simulate most flags": from the signs, and from the  *)
(* bit above the result.                                                      *)
NarrowFlags(op, w, r, src1, src2) ==
  LET top(x) == Bit(x, w - 1)
  IN [NoFlags EXCEPT
       !.ZF = B(r % 2^w = 0), !.SF = top(r),
       !.CF = IF op \in {"add", "sub"} THEN Bit(r, w) ELSE 0,
       !.OF = B(CASE op = "add" -> top(src1) = top(src2) /\ top(src1) # top(r)
                  [] op = "sub" -> top(src1) # top(src2) /\ top(src1) # top(r)
                  [] op = "inc" -> top(src1) = 0 /\ top(r) = 1
                  [] op = "dec" -> top(src1) = 1 /\ top(r) = 0
                  [] OTHER -> FALSE)]

(* The bit that a shift by n moves out.                                       *)
ShiftedOut(op, w, r, src1, n) ==
  CASE op = "rol" -> r % 2
    [] op = "ror" -> Bit(r, w - 1)
    [] op \in {"shr", "sar", "shrd", "rcr"} -> Bit(src1, (n - 1) % RegWidth)
    [] op \in {"shl", "shld"} -> Bit(src1, (w - n) % RegWidth)

ShiftOverflow(op, w, r, carry) ==
  CASE op = "sar" -> 0
    [] op \in {"shr", "shrd", "ror", "rcr"} -> Xor(Bit(r, w - 1), Bit(r, w - 2))
    [] op \in {"shl", "shld"} -> Xor(carry, Bit(r, w - 1))
    [] op = "rol" -> Xor(Bit(r, w - 1), r % 2)

UpdateFlags(op, w, h, src1, src2) ==
  LET r == h.r
      general == IF w = RegWidth THEN FullFlags(op, h) ELSE NarrowFlags(op, w, r, src1, src2)
      carry == ShiftedOut(op, w, r, src1, src2)
      wide == B(IF op = "mul" THEN r >= 2^w
                ELSE Signed(r % 2^w, w) # Signed(r, 2 * RegWidth))
      upd == CASE op \in ShiftOps ->
                    [general EXCEPT !.CF = carry, !.OF = ShiftOverflow(op, w, r, carry)]
               [] op \in {"mul", "imul"} -> [general EXCEPT !.CF = wide, !.OF = wide]
               [] op = "bsf" -> [NoFlags EXCEPT !.ZF = B(r >= RegWidth)]
               [] OTHER -> general
  IN IF op \in ShiftOps /\ src2 = 0 THEN eflags
     ELSE [f \in DOMAIN eflags |-> IF f \in Written(op) THEN upd[f] ELSE eflags[f]]

(* emit_test_flags: val is the number of the condition, odd ones negated.     *)
TestFlags(val) ==
  LET f == eflags
      cond == CASE val \div 2 = 0 -> f.OF
                [] val \div 2 = 1 -> f.CF
                [] val \div 2 = 2 -> f.ZF
                [] val \div 2 = 3 -> B(f.CF + f.ZF > 0)
                [] val \div 2 = 4 -> f.SF
                [] val \div 2 = 5 -> f.PF
                [] val \div 2 = 6 -> Xor(f.SF, f.OF)
                [] val \div 2 = 7 -> B(Xor(f.SF, f.OF) + f.ZF > 0)
  IN Xor(cond, val % 2)

-----------------------------------------------------------------------------
(* The instructions.                                                          *)

Executes(i, r, f) == /\ i.name \in Names[executed + 1] /\ executed' = executed + 1
                     /\ insn' = i /\ res' = r /\ eflags' = f
(* A division error, no result, stops the process: its interrupt is a panic.  *)
Retire == /\ insn # <<>>
          /\ insn.name \in {"DIV", "IDIV"} => res # <<>>
          /\ insn' = <<>> /\ res' = 0 /\ UNCHANGED <<eflags, executed>>

Two(name, w, a, b) == [name |-> name, w |-> w, a |-> a, b |-> b]
Binary(name, op, w, a, b, h) ==
  Executes(Two(name, w, a, b), h.r % 2^w, UpdateFlags(op, w, h, a, b))

Inc(w, a) == LET h == Adds(a, 1)
             IN Executes(Two("INC", w, a, 1), h.r % 2^w, UpdateFlags("inc", w, h, a, a))
Dec(w, a) == LET h == Subs(a, 1)
             IN Executes(Two("DEC", w, a, 1), h.r % 2^w, UpdateFlags("dec", w, h, a, a))
Add(w, a, b) == Binary("ADD", "add", w, a, b, Adds(a, b))
(* The guest's carry, tested, becomes the host's; a borrow inverted.          *)
Adc(w, a, b) == Binary("ADC", "add", w, a, b, Adcs(a, b, TestFlags(2)))
Sbb(w, a, b) == Binary("SBB", "sub", w, a, b, Sbcs(a, b, TestFlags(3)))
Sub(w, a, b) == Binary("SUB", "sub", w, a, b, Subs(a, b))
Neg(w, a) == Binary("SUB", "sub", w, 0, a, Subs(0, a))
Cmp(w, a, b) == Binary("CMP", "sub", w, a, b, Subs(a, b))
(* AND, OR, XOR and TEST with the result a; NOT changes no flag.              *)
Logic(w, a) == Binary("LOGIC", "or_", w, a, 0, Tst(a, RegWidth))

(* EAX = a is compared with the destination b, which becomes c if they are    *)
(* equal; EAX is not loaded when they are not.                                *)
CmpXchg(a, b, c) ==
  Executes([name |-> "CMPXCHG", w |-> RegWidth, a |-> a, b |-> b, c |-> c],
           <<IF a = b THEN c ELSE b, a>>, UpdateFlags("sub", RegWidth, Subs(a, b), a, b))

Mul(w, a, b) == LET h == Tst(a * b, RegWidth)
                IN Executes(Two("MUL", w, a, b), h.r, UpdateFlags("mul", w, h, a, b))
Imul(w, a, b) ==
  LET h == Tst((Signed(a, w) * Signed(b, w)) % 2^(2 * RegWidth), 2 * RegWidth)
  IN Executes(Two("IMUL", w, a, b), h.r % 2^(2 * w), UpdateFlags("imul", w, h, a, b))

(* The quotient is tested above the width; the flags stay.                    *)
Div(w, a, b) ==
  LET q == a \div b
  IN Executes(Two("DIV", w, a, b),
              IF b = 0 \/ q >= 2^w THEN <<>> ELSE <<q, a - q * b>>, eflags)
(* In full size only.  The dividend is signed; the divisor, loaded into the   *)
(* lower half of the host's register, is not.  Rounded towards zero.          *)
Idiv(a, b) ==
  LET n == Signed(a, 2 * RegWidth)
      q == IF n < 0 THEN -((-n) \div b) ELSE n \div b
      fits == b # 0 /\ q \in -(2^(RegWidth - 1)) .. 2^(RegWidth - 1) - 1
  IN Executes(Two("IDIV", RegWidth, a, b),
              IF fits THEN <<Wrap(q), Wrap(n - q * b)>> ELSE <<>>, eflags)

ShiftBy(name, op, w, a, b, r, src1, n) ==
  Executes(Two(name, w, a, b), r % 2^w, UpdateFlags(op, w, Tst(r, RegWidth), src1, n))
Shr(w, a, b) == LET n == b % RegWidth IN ShiftBy("SHR", "shr", w, a, b, Lsr(a, n), a, n)
Shl(w, a, b) == LET n == b % RegWidth IN ShiftBy("SHL", "shl", w, a, b, Lsl(a, n), a, n)
Sar(w, a, b) ==
  LET n == b % RegWidth
  IN ShiftBy("SAR", "sar", w, a, b, Wrap(Signed(a, w) \div 2^n), Wrap(Signed(a, w)), n)
(* "a bit of bit magic": the width is a power of two.                         *)
Rol(w, a, b) ==
  LET n == b % RegWidth
  IN ShiftBy("ROL", "rol", w, a, b, Orr(Lsl(a, n % w), Lsr(a, w - (n % w))), a, n)
Ror(w, a, b) ==
  LET n == b % RegWidth
  IN ShiftBy("ROR", "ror", w, a, b, Orr(Lsr(a, n % w), Lsl(a, w - (n % w))), a, n)
Rcr(w, a, b) ==
  LET n == (b % RegWidth) % (w + 1)
      around == IF n = 1 THEN 0 ELSE Lsl(a, w + 1 - n)
      r == Orr(Orr(Lsr(a, n), around), Lsl(TestFlags(2), w - n))
  IN IF n = 0 THEN Executes(Two("RCR", w, a, b), a, eflags)
     ELSE ShiftBy("RCR", "rcr", w, a, b, r, a, n)

(* Here the count is not reduced: the host's shifts do that, except where a   *)
(* multiple of RegWidth counts as no zero.                                    *)
Double(name, op, w, a, b, n, r) ==
  Executes([name |-> name, w |-> w, a |-> a, b |-> b, n |-> n],
           IF n = 0 THEN a ELSE r % 2^w, UpdateFlags(op, w, Tst(r, RegWidth), a, n))
Shld(w, a, b, n) == Double("SHLD", "shld", w, a, b, n, Orr(Lsl(a, n), Lsr(b, w - n)))
Shrd(w, a, b, n) == Double("SHRD", "shrd", w, a, b, n, Orr(Lsr(a, n), Lsl(b, w - n)))

(* The leading zeroes of the reversed word; the word 0 has RegWidth.          *)
Bsf(w, a) ==
  LET ones == {n \in 0 .. w - 1 : Bit(a, n) = 1}
      r == IF ones = {} THEN RegWidth ELSE CHOOSE n \in ones : \A m \in ones : n <= m
  IN Executes(Two("BSF", w, a, 0), r, UpdateFlags("bsf", w, Tst(r, RegWidth), a, a))

Jcc(val) == Executes([name |-> "JCC", a |-> val], TestFlags(val), eflags)
Popf(f) == Executes([name |-> "POPF", f |-> f], 0, f)
(* AX, not AH, replaces the lower half of EFLAGS: g are the flags in AL, and  *)
(* bit 3 of AH lands on the overflow flag.                                    *)
Sahf(f, g, of) == Executes([name |-> "SAHF", f |-> f], 0, [g EXCEPT !.OF = of])

-----------------------------------------------------------------------------
(* String instructions over elements of memory, as many as ECX says.  mem[k]  *)
(* is the element k steps from the address, mem[0] the one before it.         *)

(* The elements a repeated comparison consumes: up to the first of stops.     *)
Consumed(n, stops) == IF stops = {} THEN n ELSE CHOOSE k \in stops : \A j \in stops : k <= j

(* After the loop the last element is compared again, for the flags, also if  *)
(* there was none.                                                            *)
Scas(w, rep, a, mem, n) ==
  LET k == Consumed(n, {j \in 1 .. n : (mem[j] = a) = (rep = "NE")})
  IN Executes([name |-> "SCAS", w |-> w, rep |-> rep, a |-> a, mem |-> mem, n |-> n],
              k, UpdateFlags("sub", w, Subs(a, mem[k]), a, mem[k]))
CmpsBy(w, src, mem, n, k, a, b) ==
  Executes([name |-> "CMPS", w |-> w, src |-> src, mem |-> mem, n |-> n],
           k, UpdateFlags("sub", w, Subs(a, b), a, b))
(* CMPSB and CMPSW.                                                           *)
Cmps(w, src, mem, n) ==
  LET k == Consumed(n, {j \in 1 .. n : src[j] # mem[j]})
  IN w < RegWidth /\ CmpsBy(w, src, mem, n, k, src[k], mem[k])
(* The loop of CMPSD compares, counts and passes bytes; what it compares for  *)
(* the flags are the last full elements.                                      *)
Byte == CHOOSE w \in Width : \A v \in Width : w <= v
CmpsD(src, mem, n) ==
  LET parts == RegWidth \div Byte
      part(x, j) == Lsr(x[((j - 1) \div parts) + 1], Byte * ((j - 1) % parts)) % 2^Byte
      element(x, j) == LET sum[o \in 0 .. parts] ==
                             IF o = 0 THEN 0
                             ELSE sum[o - 1] + part(x, j - parts + o) * 2^(Byte * (o - 1))
                       IN sum[parts]
      k == Consumed(n, {j \in 1 .. n : part(src, j) # part(mem, j)})
  IN CmpsBy(RegWidth, src, mem, n, k, element(src, k), element(mem, k))

(* memmove.                                                                   *)
Movs(mem, src, dst, n) ==
  Executes([name |-> "MOVS", mem |-> mem, src |-> src, dst |-> dst, n |-> n],
           [k \in DOMAIN mem |-> IF k \in dst .. dst + n - 1 THEN mem[src + k - dst] ELSE mem[k]],
           eflags)

-----------------------------------------------------------------------------
(* Instructions that move between registers and memory.  s has the registers  *)
(* s.r and the memory s.m, in cells of half a word, the lower first; an       *)
(* operand of n cells is a part of a register or memory at a register plus a  *)
(* displacement.  Addresses of stores are computed when they are made, from   *)
(* the registers as they are then.                                            *)

Half == RegWidth \div 2
Operand(kind, r, d) == [kind |-> kind, reg |-> r, index |-> "", scale |-> 0, disp |-> d]
Reg(r) == Operand("reg", r, 0)
At(r, d) == Operand("mem", r, d)
Address(s, op, k) == (s.r[op.reg] + op.disp + k) % Cardinality(DOMAIN s.m)
LoadOperand(s, op, n) ==
  IF op.kind = "reg" THEN s.r[op.reg] % 2^(Half * n)
  ELSE s.m[Address(s, op, 0)] + IF n = 2 THEN s.m[Address(s, op, 1)] * 2^Half ELSE 0
StoreOperand(s, op, n, v) ==
  CASE op.kind = "reg" -> [s EXCEPT !.r[op.reg] = @ - (@ % 2^(Half * n)) + (v % 2^(Half * n))]
    [] n = 1 -> [s EXCEPT !.m[Address(s, op, 0)] = v % 2^Half]
    [] n = 2 -> [s EXCEPT !.m[Address(s, op, 0)] = v % 2^Half, !.m[Address(s, op, 1)] = Lsr(v, Half)]
StoreReg(s, r, v) == StoreOperand(s, Reg(r), 2, v)
Pushed(s, v) == StoreReg(StoreOperand(s, At("ESP", -2), 2, v), "ESP", Wrap(s.r["ESP"] - 2))

Moves(name, s, n, dst, src, imm, t, f) ==
  Executes([name |-> name, s |-> s, n |-> n, len |-> 0, dst |-> dst, src |-> src, imm |-> imm],
           t, f)

(* Whatever the operand's size, the stack moves by 32 bits.                   *)
Push(s, n, op) == Moves("PUSH", s, n, op, op, 0, Pushed(s, LoadOperand(s, op, n)), eflags)
(* The new ESP is stored last.                                                *)
Pop(s, n, op) ==
  Moves("POP", s, n, op, op, 0,
        StoreReg(StoreOperand(s, op, n, LoadOperand(s, At("ESP", 0), 2)), "ESP",
                 Wrap(s.r["ESP"] + 2)), eflags)
Jmp(s, op) == Moves("JMP", s, 2, op, op, 0, StoreReg(s, "EIP", LoadOperand(s, op, 2)), eflags)
Call(s, op) ==
  Moves("CALL", s, 2, op, op, 0,
        StoreReg(Pushed(s, s.r["EIP"]), "EIP", LoadOperand(s, op, 2)), eflags)
Ret(s, imm) ==
  Moves("RET", s, 2, Reg("EIP"), Reg("EIP"), imm,
        StoreReg(StoreReg(s, "EIP", LoadOperand(s, At("ESP", 0), 2)), "ESP",
                 Wrap(s.r["ESP"] + 2 + imm)), eflags)
Leave(s) ==
  Moves("LEAVE", s, 2, Reg("EBP"), Reg("EBP"), 0,
        StoreReg(StoreReg(s, "ESP", Wrap(s.r["EBP"] + 2)), "EBP", LoadOperand(s, At("EBP", 0), 2)),
        eflags)
Mov(s, n, op, src) ==
  Moves("MOV", s, n, op, Reg(src), 0, StoreOperand(s, op, n, LoadOperand(s, Reg(src), n)), eflags)
Lea(s, op, dst) ==
  Moves("LEA", s, 2, Reg(dst), op, 0, StoreReg(s, dst, Wrap(s.r[op.reg] + op.disp)), eflags)
Xchg(s, op, src) ==
  Moves("XCHG", s, 2, op, Reg(src), 0,
        StoreReg(StoreOperand(s, op, 2, s.r[src]), src, LoadOperand(s, op, 2)), eflags)
Xadd(s, op, src) ==
  LET a == LoadOperand(s, op, 2)
      h == Adds(a, s.r[src])
  IN Moves("XADD", s, 2, op, Reg(src), 0, StoreReg(StoreOperand(s, op, 2, h.r), src, a),
           UpdateFlags("add", RegWidth, h, a, s.r[src]))

-----------------------------------------------------------------------------
Init == insn = <<>> /\ res = 0 /\ eflags = NoFlags /\ executed = 0

Arithmetic(w, a, b) == Add(w, a, b) \/ Adc(w, a, b) \/ Sub(w, a, b) \/ Sbb(w, a, b)
                       \/ Cmp(w, a, b) \/ Mul(w, a, b) \/ Imul(w, a, b)
Unary(w, a) == Inc(w, a) \/ Dec(w, a) \/ Neg(w, a) \/ Logic(w, a) \/ Bsf(w, a)
Shift(w, a, n) == Shr(w, a, n) \/ Shl(w, a, n) \/ Sar(w, a, n)
                  \/ Rol(w, a, n) \/ Ror(w, a, n) \/ Rcr(w, a, n)

Operands == {Reg(r) : r \in {"ESP", "EBP"}} \cup {At(r, d) : r \in {"ESP", "EBP"}, d \in {0, 1}}

Next ==
  \/ Retire
  \/ /\ insn = <<>> /\ executed < Len(Names)
     /\ \/ \E w \in Width : \E a \in Value[w] :
             \/ Unary(w, a)
             \/ \E n \in Counts : Shift(w, a, n)
             \/ \E b \in Value[w] :
                  \/ Arithmetic(w, a, b)
                  \/ \E n \in Counts : Shld(w, a, b, n) \/ Shrd(w, a, b, n)
                  \/ \E d \in Value[w] : Div(w, a * 2^w + b, d)
             \/ \E mem \in Memory, n \in 0 .. 2, rep \in {"E", "NE"} : Scas(w, rep, a % 2, mem, n)
        \/ \E a, b \in Value[RegWidth] :
             \/ CmpXchg(a, b, 0)
             \/ \E d \in Value[RegWidth] : Idiv(a * 2^RegWidth + b, d)
        \/ \E src, mem \in Memory, n \in 0 .. 2 :
             CmpsD(src, mem, n) \/ \E w \in Width : Cmps(w, src, mem, n)
        \/ \E mem \in Memory, src, dst \in 0 .. 2, n \in 0 .. 2 : Movs(mem, src, dst, n)
        \/ \E s \in Machines : Leave(s) \/ (\E imm \in {0, 2} : Ret(s, imm)) \/ \E op \in Operands :
             \/ Jmp(s, op) \/ Call(s, op) \/ (\E n \in {1, 2} : Push(s, n, op) \/ Pop(s, n, op))
             \/ \E r \in {"ESP", "EBP"} :
                  \/ (\E n \in {1, 2} : Mov(s, n, op, r)) \/ Xchg(s, op, r) \/ Xadd(s, op, r)
                  \/ op.kind = "mem" /\ Lea(s, op, r)
        \/ \E v \in 0 .. 15 : Jcc(v)
        \/ \E f \in Patterns : Popf(f) \/ \E g \in Patterns, of \in {0, 1} : Sahf(f, g, of)

Spec == Init /\ [][Next]_vars

-----------------------------------------------------------------------------
(* "PF and AF are not implemented".                                           *)
X86 == INSTANCE X86Machine WITH flags <- eflags, Tracked <- {"SF", "ZF", "CF", "OF"},
                               Cell <- Half

(* The instructions after which the guest can see that it is not on an x86.   *)
Deviates(i) ==
  \/ i.name = "CMPXCHG" /\ i.a # i.b
  \/ i.name = "SAHF"
  \/ i.name = "IDIV" /\ i.b >= 2^(RegWidth - 1)
  \/ i.name = "CMPS" /\ i.w = RegWidth
  \/ i.name \in {"PUSH", "POP"} /\ i.n = 1
  \/ i.name \in {"SHLD", "SHRD"} /\ i.n > 0 /\ i.n % RegWidth = 0
  \/ i.name \in {"SCAS", "CMPS"} /\ i.n = 0
  \/ i.name = "POP" /\ i.dst.reg = "ESP"
  \/ i.name = "XADD" /\ "s" \in DOMAIN i /\ i.dst = i.src
  \/ i.name = "MOVS" /\ i.src < i.dst /\ i.dst < i.src + i.n

(* A step leaves the result and the flags of the architecture.                *)
Conforms == X86!MachineNext \/ Deviates(insn')
=============================================================================
