----------------------------- MODULE LazyFlags ------------------------------
(* The lazily computed arithmetic flags of the interpreter. An instruction    *)
(* leaves its operands and its result (lop1, lop2, lr) and the name of a      *)
(* method; the flags are worked out when an instruction reads them. Two bits  *)
(* of laux (sf, pf below) correct the sign and the parity of lr, and eflags   *)
(* holds the carry, auxiliary and overflow flags where a method says so.      *)
(* A full register has RegWidth bits (32 in the code); the 8- and 16-bit      *)
(* variants of an instruction are its narrow width.                           *)
EXTENDS Integers, FiniteSets, Sequences

CONSTANTS RegWidth, Width,
          Names,        \* the instructions of each step; its length bounds the run
          Value,     \* operand values of each width, for the first instruction
          Few,       \* operand values of each width, for the later ones
          Counts,       \* shift counts, for the first instruction
          FewCounts     \* shift counts, for the later ones

VARIABLES insn, res, cpu,
          executed      \* instructions executed

vars == <<insn, res, cpu, executed>>

B(p) == IF p THEN 1 ELSE 0
Differ(a, b) == (a + b) % 2
Wrap(x) == x % 2^RegWidth
Trunc(x, w) == x % 2^w
Extend(x, w) == IF x >= 2^(w - 1) THEN Wrap(x - 2^w) ELSE x
Signed(x, w) == IF x >= 2^(w - 1) THEN x - 2^w ELSE x
Bit(x, n) == (x \div 2^n) % 2
(* A shift of a register, whose count the host takes modulo its width.        *)
Shr(x, n) == x \div 2^(n % RegWidth)

-----------------------------------------------------------------------------
(* Reading the flags.                                                         *)

GetZf(c) == B(c.lr = 0)
GetSf(c) == Differ(Bit(c.lr, RegWidth - 1), c.sf)
GetPf(c) == LET ones == Cardinality({n \in 0 .. 7 : Bit(c.lr, n) = 1})
            IN Differ(B(ones % 2 = 0), c.pf)

GetCf(c) ==
  LET top(x) == Bit(x, c.w - 1)
  IN CASE c.op = "MUL" -> B(c.lop1 # c.lop2)
       [] c.op = "BIT" -> 0
       [] c.op = "ADD" -> B(Trunc(c.lr, c.w) < Trunc(c.lop2, c.w))
       [] c.op = "SUB" -> B(c.lop2 > Trunc(c.lop2 + c.lr, c.w))
       [] c.op = "ADC" -> IF top(c.lop1) # top(c.lop2) /\ top(c.lop2) # top(c.lr)
                          THEN 1 - top(c.lop1) ELSE top(c.lop1)
       [] c.op = "SBB" -> IF top(c.lr) # top(c.lop2) /\ top(c.lop1) # top(c.lop2)
                          THEN 1 - top(c.lr) ELSE top(c.lr)
       [] c.op \in {"SHR", "SAR", "SHRD"} -> Shr(c.lop1, c.lop2 - 1) % 2
       [] c.op = "SHL" -> Shr(c.lop1, c.w - c.lop2) % 2
       [] c.op = "SHLD" -> Shr(c.lop1, (IF c.lop2 <= c.w THEN c.w ELSE RegWidth) - c.lop2) % 2
       [] c.op \in {"INC", "DEC", "FULL"} -> c.eflags.CF

GetOf(c) ==
  LET top(x) == Bit(x, c.w - 1)
      add == Wrap(c.lop2 + c.lr)
      diff == Wrap(c.lr - c.lop2)
  IN CASE c.op = "MUL" -> B(c.lop1 # c.lop2)
       [] c.op \in {"BIT", "SAR"} -> 0
       [] c.op = "ADD" -> B(top(diff) = top(c.lop2) /\ top(c.lop2) # top(c.lr))
       [] c.op = "SUB" -> B(top(add) # top(c.lop2) /\ top(add) # top(c.lr))
       [] c.op = "ADC" -> B(top(c.lop1) # top(c.lr) /\ top(c.lop2) # top(c.lr))
       [] c.op = "SBB" -> B(top(c.lr) # top(c.lop1) /\ top(c.lop2) # top(c.lop1))
       [] c.op = "SHL" -> Differ(top(c.lr), Shr(c.lop1, c.w - c.lop2) % 2)
       [] c.op \in {"SHR", "SHRD"} -> Differ(top(c.lr), Bit(c.lr, c.w - 2))
       [] c.op = "SHLD" -> Differ(GetCf(c), top(c.lr))
       [] c.op = "INC" -> B(Trunc(c.lr, c.w) = 2^(c.w - 1))
       [] c.op = "DEC" -> B(Trunc(c.lr, c.w) = 2^(c.w - 1) - 1)
       [] c.op = "FULL" -> c.eflags.OF

GetAf(c) ==
  LET odd(x, y, z) == (Bit(x, 4) + Bit(y, 4) + Bit(z, 4)) % 2
  IN CASE c.op \in {"BIT", "MUL", "SHL", "SHR", "SAR", "SHLD", "SHRD"} -> 0
       [] c.op = "ADD" -> odd(Wrap(c.lr - c.lop2), c.lop2, c.lr)
       [] c.op = "SUB" -> odd(Wrap(c.lr + c.lop2), c.lop2, c.lr)
       [] c.op \in {"ADC", "SBB"} -> odd(c.lop1, c.lop2, c.lr)
       [] c.op = "INC" -> B(c.lr % 16 = 0)
       [] c.op = "DEC" -> B(c.lr % 16 = 15)
       [] c.op = "FULL" -> c.eflags.AF

GetEflags(c) == [CF |-> GetCf(c), PF |-> GetPf(c), AF |-> GetAf(c),
                 ZF |-> GetZf(c), SF |-> GetSf(c), OF |-> GetOf(c)]

-----------------------------------------------------------------------------
(* Setting single flags: the three that methods compute go through eflags.    *)

Oac(c) == [CF |-> GetCf(c), AF |-> GetAf(c), OF |-> GetOf(c)]
SetCf(c, v) == [c EXCEPT !.eflags = [Oac(c) EXCEPT !.CF = v], !.op = "FULL"]
SetAf(c, v) == [c EXCEPT !.eflags = [Oac(c) EXCEPT !.AF = v], !.op = "FULL"]
SetOf(c, v) == [c EXCEPT !.eflags = [Oac(c) EXCEPT !.OF = v], !.op = "FULL"]
(* The correction is computed from the corrected parity, not from that of lr. *)
SetPf(c, v) == [c EXCEPT !.pf = Differ(GetPf(c), v)]
SetEflags(c, f) ==
  [c EXCEPT !.eflags = [CF |-> f.CF, AF |-> f.AF, OF |-> f.OF], !.op = "FULL",
            !.lr = 1 - f.ZF, !.sf = f.SF, !.pf = Differ(f.PF, f.ZF)]
SetZf(c, v) == SetEflags(c, [GetEflags(c) EXCEPT !.ZF = v])

(* Stores lr, both operands and laux, which clears the two corrections.       *)
Method(c, op, w, lop1, lop2, r) ==
  [c EXCEPT !.op = op, !.w = w, !.sf = 0, !.pf = 0,
            !.lop1 = lop1, !.lop2 = lop2, !.lr = Extend(r, w)]

(* The results of an operation are the destination and the flags it leaves.   *)
Does(i, r, c) == /\ i.name \in Names[executed + 1] /\ executed' = executed + 1
                 /\ insn' = i /\ res' = r /\ cpu' = c
(* The handler returns and the next instruction follows.                      *)
Retire == insn # <<>> /\ insn' = <<>> /\ res' = 0 /\ UNCHANGED <<cpu, executed>>
Two(name, w, d, s, result) ==
  Does([name |-> name, w |-> w, a |-> d, b |-> s], result[1], result[2])
Three(name, w, d, s, n, result) ==
  Does([name |-> name, w |-> w, a |-> d, b |-> s, n |-> n], result[1], result[2])

-----------------------------------------------------------------------------
(* Arithmetic: the destination, and the flags as the operands and the result  *)
(* that the method reads.                                                     *)

Add(w, d, s) ==
  LET r == Trunc(d + s, w) IN <<r, Method(cpu, "ADD", w, cpu.lop1, s, r)>>

Adc(w, d, s) ==
  LET r == Trunc(d + s + GetCf(cpu), w) IN <<r, Method(cpu, "ADC", w, d, s, r)>>

Sbb(w, d, s) ==
  LET r == Trunc(d - (s + GetCf(cpu)), w) IN <<r, Method(cpu, "SBB", w, d, s, r)>>

(* SUB, and NEG with a zero d.                                                *)
Sub(w, d, s) ==
  LET r == Trunc(d - s, w) IN <<r, Method(cpu, "SUB", w, cpu.lop1, s, r)>>

Cmp(w, d, s) ==
  LET r == Trunc(d - s, w) IN <<r, Method(cpu, "SUB", w, cpu.lop1, s, r)>>

(* AND, OR, XOR and TEST with the result d.                                   *)
Logic(w, d) == <<d, Method(cpu, "BIT", w, cpu.lop1, cpu.lop2, d)>>

(* The dispatch on the operation of the arithmetic group.                     *)
Arith(op, w, d, s) == CASE op = "ADD" -> Add(w, d, s)
                        [] op = "ADC" -> Adc(w, d, s)
                        [] op = "SBB" -> Sbb(w, d, s)
                        [] op = "SUB" -> Sub(w, d, s)
                        [] op = "CMP" -> Cmp(w, d, s)
                        [] op = "LOGIC" -> Logic(w, d)

(* The destination d becomes c if it is equal to AL, AX or EAX, which is a;   *)
(* the results are d and a.                                                   *)
Cmpxchg(w, a, d, c) ==
  LET r == Trunc(a - d, w)
  IN <<IF r = 0 THEN <<c, a>> ELSE <<d, d>>, Method(cpu, "SUB", w, cpu.lop1, d, r)>>

Xadd(w, d, s) ==
  LET r == Trunc(d + s, w) IN <<r, Method(cpu, "ADD", w, cpu.lop1, s, r)>>

(* Mutant: the carry of the instruction before is not saved.                  *)
KeepCarryNot == cpu
KeepCarry == [cpu EXCEPT !.eflags.CF = GetCf(cpu)]

Inc(w, d) ==
  LET r == Trunc(d + 1, w)
  IN <<r, Method(KeepCarry, "INC", w, cpu.lop1, cpu.lop2, r)>>

Dec(w, d) ==
  LET r == Trunc(d - 1, w)
  IN <<r, Method(KeepCarry, "DEC", w, cpu.lop1, cpu.lop2, r)>>

Mul(w, d, s) ==
  LET p == d * s
  IN <<p, Method(cpu, "MUL", w, 0, p \div 2^w, Trunc(p, w))>>

(* The high half is compared with the sign of the low half.                   *)
Imul(w, d, s) ==
  LET p == (Signed(d, w) * Signed(s, w)) % 2^(2 * w)
      fill == IF Trunc(p, w) >= 2^(w - 1) THEN Wrap(-1) ELSE 0
  IN <<p, Method(cpu, "MUL", w, fill, Extend(p \div 2^w, w), Trunc(p, w))>>

(* The accumulator n of twice the width by s; no result is an exception. The  *)
(* quotient and the remainder are truncated towards zero.                     *)
Div(w, n, s) ==
  <<IF s = 0 \/ n \div s >= 2^w THEN <<>> ELSE <<n \div s, n % s>>, cpu>>

Idiv(w, n, s) ==
  LET a == Signed(n, 2 * w)
      b == Signed(s, w)
      size(x) == IF x < 0 THEN -x ELSE x
      q == (size(a) \div size(b)) * (IF (a < 0) = (b < 0) THEN 1 ELSE -1)
  IN <<IF b = 0 \/ q \notin -(2^(w - 1)) .. 2^(w - 1) - 1 THEN <<>>
       ELSE <<Trunc(q, w), Trunc(a - q * b, w)>>, cpu>>

-----------------------------------------------------------------------------
(* Shifts and rotates. A count that is zero modulo RegWidth changes nothing.  *)

Shl(w, d, s) ==
  LET n == s % RegWidth
      r == Trunc(d * 2^n, w)
  IN <<r, IF n = 0 THEN cpu ELSE Method(cpu, "SHL", w, d, n, r)>>

ShiftRight(w, d, s) ==
  LET n == s % RegWidth
      r == d \div 2^n
  IN <<r, IF n = 0 THEN cpu ELSE Method(cpu, "SHR", w, d, n, r)>>

Sar(w, d, s) ==
  LET n == s % RegWidth
      r == Trunc(Signed(d, w) \div 2^n, w)
  IN <<r, IF n = 0 THEN cpu ELSE Method(cpu, "SAR", w, Extend(d, w), n, r)>>

Rol(w, d, s) ==
  LET n == s % w
      r == Trunc(d * 2^n, w) + d \div 2^(w - n)
  IN <<r, IF s % RegWidth = 0 THEN cpu
          ELSE SetOf(SetCf(cpu, r % 2), Differ(r % 2, Bit(r, w - 1)))>>

Ror(w, d, s) ==
  LET n == s % w
      r == d \div 2^n + Trunc((d % 2^n) * 2^(w - n), w)
  IN <<r, IF s % RegWidth = 0 THEN cpu
          ELSE SetOf(SetCf(cpu, Bit(r, w - 1)), Differ(Bit(r, w - 1), Bit(r, w - 2)))>>

Rcl(w, d, s) ==
  LET n == (s % RegWidth) % (w + 1)
      r == Trunc(d * 2^n, w) + GetCf(cpu) * 2^(n - 1) + d \div 2^(w + 1 - n)
      cf == Bit(d, w - n)
  IN IF n = 0 THEN <<d, cpu>>
     ELSE <<r, SetOf(SetCf(cpu, cf), Differ(cf, Bit(r, w - 1)))>>

Rcr(w, d, s) ==
  LET n == (s % RegWidth) % (w + 1)
      r == d \div 2^n + GetCf(cpu) * 2^(w - n) + (d % 2^(n - 1)) * 2^(w + 1 - n)
  IN IF n = 0 THEN <<d, cpu>>
     ELSE <<r, SetOf(SetCf(cpu, Bit(d, n - 1)), Differ(Bit(r, w - 1), Bit(r, w - 2)))>>

(* The dispatch of the shift group.                                           *)
ShiftGroup(op, w, d, n) == CASE op = "SHL" -> Shl(w, d, n)
                             [] op = "SHR" -> ShiftRight(w, d, n)
                             [] op = "SAR" -> Sar(w, d, n)
                             [] op = "ROL" -> Rol(w, d, n)
                             [] op = "ROR" -> Ror(w, d, n)
                             [] op = "RCL" -> Rcl(w, d, n)
                             [] op = "RCR" -> Rcr(w, d, n)

(* A narrow count above the width shifts src in from a second copy.           *)
Shld(w, d, s, count) ==
  LET n == count % RegWidth
      r == IF n < w THEN Trunc(d * 2^n, w) + s \div 2^(w - n)
           ELSE Trunc(s * 2^(n - w), w) + d \div 2^(2 * w - n)
  IN IF n = 0 THEN <<d, cpu>>
     ELSE <<r, Method(cpu, "SHLD", w, IF n > w THEN s ELSE d, n, r)>>

(* By the width of a narrow operand: lop2 is 0, and the carry shifts by -1.   *)
Shrd(w, d, s, count) ==
  LET n == count % RegWidth
      r == IF n < w THEN d \div 2^n + (s % 2^n) * 2^(w - n)
           ELSE s \div 2^(n - w) + (d % 2^(n - w)) * 2^(2 * w - n)
  IN CASE n = 0 -> <<d, cpu>>
       [] n > 0 /\ n < w -> <<r, Method(cpu, "SHRD", w, d, n, r)>>
       [] OTHER -> <<r, Method(cpu, "SHRD", w, s, n - w, r)>>

-----------------------------------------------------------------------------
(* Instructions that set some flags and keep the others.                      *)

BitTest(w, d, s) == <<d, SetCf(cpu, Bit(d, s % w))>>

Ones(w, x) == {n \in 0 .. w - 1 : Bit(x, n) = 1}

(* The full-width variant stores lr and a method, the narrow one sets ZF. The *)
(* destination keeps its value s if there is no bit.                          *)
BitScanForward(w, d, s) ==
  LET found == Ones(w, d) # {}
  IN <<IF found THEN CHOOSE n \in Ones(w, d) : \A m \in Ones(w, d) : n <= m ELSE s,
       IF w = RegWidth THEN Method(cpu, "BIT", w, cpu.lop1, cpu.lop2, B(found))
       ELSE SetZf(cpu, B(~found))>>

BitScanReverse(w, d, s) ==
  LET found == Ones(w, d) # {}
  IN <<IF found THEN CHOOSE n \in Ones(w, d) : \A m \in Ones(w, d) : n >= m ELSE s,
       SetZf(cpu, B(~found))>>

(* CLC, STC and CMC (v = 2).                                                  *)
Carry(v) == Does([name |-> "CARRY", a |-> v], 0,
                 SetCf(cpu, IF v = 2 THEN Differ(GetCf(cpu), 1) ELSE v))

FlagValues == [CF : {0, 1}, PF : {0, 1}, AF : {0, 1}, ZF : {0, 1}, SF : {0, 1}, OF : {0, 1}]
NoFlags == [CF |-> 0, PF |-> 0, AF |-> 0, ZF |-> 0, SF |-> 0, OF |-> 0]

Sahf(f) == Does([name |-> "SAHF", f |-> f], 0,
                SetEflags(cpu, [f EXCEPT !.OF = GetOf(cpu)]))
Popf(f) == Does([name |-> "POPF", f |-> f], 0, SetEflags(cpu, f))

(* FCOMI clears all six, then sets carry, parity and zero one by one.         *)
Fcomi(rel) ==
  LET bad == rel = "unordered"
      c == SetCf(SetEflags(cpu, NoFlags), B(bad \/ rel = "less"))
  IN Does([name |-> "FCOMI", rel |-> rel], 0,
          SetZf(SetPf(c, B(bad)), B(bad \/ rel = "equal")))

Ucomis(rel) ==
  LET bad == rel = "unordered"
  IN Does([name |-> "UCOMIS", rel |-> rel], 0,
          SetEflags(cpu, [NoFlags EXCEPT !.CF = B(bad \/ rel = "less"), !.PF = B(bad),
                                         !.ZF = B(bad \/ rel = "equal")]))

(* DAA and DAS store lr without laux, so that corrections of an earlier       *)
(* instruction stay.                                                          *)
Daa(al) ==
  LET low == al % 16 > 9 \/ GetAf(cpu) = 1
      high == al > 153 \/ GetCf(cpu) = 1
      r == (al + (IF low THEN 6 ELSE 0) + (IF high THEN 96 ELSE 0)) % 256
  IN Does([name |-> "DAA", a |-> al], r,
          [SetCf(SetAf(cpu, B(low)), B(high)) EXCEPT !.lr = Extend(r, 8)])

Das(al) ==
  LET low == al % 16 > 9 \/ GetAf(cpu) = 1
      high == al > 153 \/ GetCf(cpu) = 1
      once == (al - (IF low THEN 6 ELSE 0)) % 256
      r == (once - (IF high THEN 96 ELSE 0)) % 256
      cf == high \/ (low /\ (GetCf(cpu) = 1 \/ once > al))
  IN Does([name |-> "DAS", a |-> al], r,
          [SetCf(SetAf(cpu, B(low)), B(cf)) EXCEPT !.lr = Extend(r, 8)])

(* AAA and AAS: the flags are computed before laux is replaced.               *)
Ascii(name, ax) ==
  LET yes == ax % 16 > 9 \/ GetAf(cpu) = 1
      sum == (ax + (IF ~yes THEN 0 ELSE IF name = "AAA" THEN 262 ELSE -262)) % 65536
      c == Method(cpu, "BIT", 8, cpu.lop1, cpu.lop2, sum % 16)
  IN Does([name |-> name, a |-> ax], (sum \div 256) * 256 + (sum % 16),
          SetCf(SetAf(c, B(yes)), B(yes)))

(* AAM and AAD; AAM by zero raises an exception.                              *)
Base(name, ax, n) ==
  LET al == ax % 256
      low == IF name = "AAM" THEN al % n ELSE (al + (ax \div 256) * n) % 256
  IN /\ name = "AAD" \/ n # 0
     /\ Two(name, 8, ax, n, <<IF name = "AAM" THEN ((al \div n) * 256) + low ELSE low,
                              Method(cpu, "BIT", 8, cpu.lop1, cpu.lop2, low)>>)

(* The conditions of jumps, sets and moves.                                   *)
CondHolds(val) ==
  LET k == val \div 2
      cond == CASE k = 0 -> GetOf(cpu)
                [] k = 1 -> GetCf(cpu)
                [] k = 2 -> GetZf(cpu)
                [] k = 3 -> B(GetZf(cpu) = 1 \/ GetCf(cpu) = 1)
                [] k = 4 -> GetSf(cpu)
                [] k = 5 -> GetPf(cpu)
                [] k = 6 -> B(GetSf(cpu) # GetOf(cpu))
                [] k = 7 -> B(GetZf(cpu) = 1 \/ GetSf(cpu) # GetOf(cpu))
  IN Differ(cond, val % 2)
Cond(val) == Does([name |-> "JCC", a |-> val], CondHolds(val), cpu)

-----------------------------------------------------------------------------
(* cpu_init_32bit sets eflags only; the other fields are zero, which is ADD8. *)
Reset == [lr |-> 0, lop1 |-> 0, lop2 |-> 0, op |-> "ADD", w |-> 8, sf |-> 0, pf |-> 0,
          eflags |-> [CF |-> 0, AF |-> 0, OF |-> 0]]
Init == insn = <<>> /\ res = 0 /\ cpu = Reset /\ executed = 0

First == executed = 0
Operand(w) == IF First THEN Value[w] ELSE Few[w]
Count == IF First THEN Counts ELSE FewCounts
Pattern == IF First THEN FlagValues ELSE {NoFlags, [f \in DOMAIN NoFlags |-> 1]}

ArithOps == {"ADD", "ADC", "SBB", "SUB", "CMP", "LOGIC"}
ShiftOps == {"SHL", "SHR", "SAR", "ROL", "ROR", "RCL", "RCR"}

(* A division error stops the process: the exception is a panic.              *)
Continue == (insn # <<>> /\ insn.name \in {"DIV", "IDIV", "BOUND"} => res # <<>>) /\ Retire

Next ==
  \/ Continue
  \/ /\ insn = <<>> /\ executed < Len(Names)
     /\ \/ \E w \in Width : \E d, s \in Operand(w) :
             \/ \E op \in ArithOps : Two(op, w, d, s, Arith(op, w, d, s))
             \/ Two("XADD", w, d, s, Xadd(w, d, s))
             \/ LET result == Cmpxchg(w, d, s, 1)
                IN Does([name |-> "CMPXCHG", w |-> w, a |-> d, b |-> s, c |-> 1], result[1], result[2])
             \/ /\ w < RegWidth
                /\ \/ Two("MUL", w, d, s, Mul(w, d, s))
                   \/ Two("IMUL", w, d, s, Imul(w, d, s))
                   \/ \E high \in Operand(w) :
                        LET n == high * 2^w + d
                        IN Two("DIV", w, n, s, Div(w, n, s)) \/ Two("IDIV", w, n, s, Idiv(w, n, s))
             \/ \E n \in Count : \/ Three("SHLD", w, d, s, n, Shld(w, d, s, n))
                                 \/ Three("SHRD", w, d, s, n, Shrd(w, d, s, n))
        \/ \E w \in Width : \E d \in Operand(w) :
             \/ Two("INC", w, d, 1, Inc(w, d)) \/ Two("DEC", w, d, 1, Dec(w, d))
             \/ Two("BSF", w, d, 0, BitScanForward(w, d, 0))
             \/ Two("BSR", w, d, 0, BitScanReverse(w, d, 0))
             \/ \E n \in Count :
                  \/ \E op \in ShiftOps : Two(op, w, d, n, ShiftGroup(op, w, d, n))
                  \/ Two("BT", w, d, n, BitTest(w, d, n))
        \/ \E d, h \in Operand(8) :
             \/ h = d /\ (Daa(d) \/ Das(d))
             \/ Ascii("AAA", h * 256 + d) \/ Ascii("AAS", h * 256 + d)
             \/ \E n \in {0, 10} : Base("AAM", h * 256 + d, n) \/ Base("AAD", h * 256 + d, n)
        \/ \E v \in 0 .. 2 : Carry(v)
        \/ \E f \in Pattern : Sahf(f) \/ Popf(f)
        \/ \E rel \in {"less", "equal", "greater", "unordered"} : Fcomi(rel) \/ Ucomis(rel)
        \/ \E v \in 0 .. 15 : Cond(v)

Spec == Init /\ [][Next]_vars

-----------------------------------------------------------------------------
(* The registers keep their width, and the corrections are single bits.       *)
TypeOK == /\ {cpu.lr, cpu.lop1, cpu.lop2} \subseteq 0 .. 2^RegWidth - 1
          /\ cpu.w \in 8 .. RegWidth
          /\ {cpu.sf, cpu.pf, cpu.eflags.CF, cpu.eflags.AF, cpu.eflags.OF} \subseteq {0, 1}

X86 == INSTANCE X86Flags WITH flags <- GetEflags(cpu), Tracked <- DOMAIN NoFlags

(* What comes out wrong: the carry of a narrow SHRD by its width, and the     *)
(* sign and parity of a decimal adjustment over corrections left in laux,     *)
(* although "All modifiactions to halfix.lr will come alongside a             *)
(* modification of halfix.laux." (eflags.c:8).                                *)
Deviates(i) == \/ i.name = "SHRD" /\ i.n % RegWidth = i.w
               \/ i.name \in {"DAA", "DAS"} /\ (cpu.sf = 1 \/ cpu.pf = 1)

(* A step leaves the result and the flags of the architecture.                *)
Conforms == X86!Next \/ Deviates(insn')
=============================================================================
