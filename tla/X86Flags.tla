------------------------------ MODULE X86Flags ------------------------------
(* What a program sees of the arithmetic flags: every instruction leaves the  *)
(* six flags as the architecture defines them from its operands, at once.     *)
(* Flags the architecture leaves undefined take any value.  insn is the       *)
(* instruction of the last step and res its result.                           *)
EXTENDS Integers, FiniteSets, TLC

CONSTANTS RegWidth,  \* bits of a full register; shift counts are taken modulo it
          Width,     \* the operand widths
          Tracked    \* the flags the processor keeps

VARIABLES insn, res, flags

vars == <<insn, res, flags>>

Flag == {"CF", "PF", "AF", "ZF", "SF", "OF"}
B(p) == IF p THEN 1 ELSE 0
Signed(x, w) == IF x >= 2^(w - 1) THEN x - 2^w ELSE x
Fits(n, w) == n \in -(2^(w - 1)) .. 2^(w - 1) - 1
Top(x, w) == x \div 2^(w - 1)
BitOf(x, n) == (x \div 2^n) % 2
Even(x) == B(Cardinality({n \in 0 .. 7 : BitOf(x, n) = 1}) % 2 = 0)
SZP(r, w) == "SF" :> Top(r, w) @@ "ZF" :> B(r = 0) @@ "PF" :> Even(r)

(* What an instruction does: its result r, the flags in vals get their        *)
(* values, those in undefined any value, the others stay.                     *)
Gives(r, vals, undefined) == [r |-> r, vals |-> vals, undefined |-> undefined]

SetsFlags(o) ==
  /\ flags' \in [Flag -> {0, 1}]
  /\ \A f \in Tracked \ o.undefined :
       flags'[f] = IF f \in DOMAIN o.vals THEN o.vals[f] ELSE flags[f]

(* The flags after the sum of a, b and a carry.                               *)
Added(a, b, w, carry) ==
  SZP((a + b + carry) % 2^w, w)
    @@ "CF" :> B(a + b + carry >= 2^w)
    @@ "AF" :> B((a % 16) + (b % 16) + carry >= 16)
    @@ "OF" :> B(~Fits(Signed(a, w) + Signed(b, w) + carry, w))

Sum(i, carry) == Gives((i.a + i.b + carry) % 2^i.w, Added(i.a, i.b, i.w, carry), {})

(* The flags after b and a borrow are taken from a.                           *)
Borrowed(a, b, w, borrow) ==
  SZP((a - b - borrow) % 2^w, w)
    @@ "CF" :> B(a < b + borrow)
    @@ "AF" :> B(a % 16 < (b % 16) + borrow)
    @@ "OF" :> B(~Fits(Signed(a, w) - Signed(b, w) - borrow, w))

Difference(i, borrow) ==
  Gives((i.a - i.b - borrow) % 2^i.w, Borrowed(i.a, i.b, i.w, borrow), {})

(* The destination b becomes c if it is equal to the accumulator a, and the   *)
(* accumulator becomes b if it is not.                                        *)
CompareExchange(i) ==
  Gives(IF i.a = i.b THEN <<i.c, i.a>> ELSE <<i.b, i.b>>, Borrowed(i.a, i.b, i.w, 0), {})

Step1(i, d) ==
  LET r == (i.a + d) % 2^i.w
  IN Gives(r, SZP(r, i.w)
               @@ "AF" :> B(i.a % 16 = IF d = 1 THEN 15 ELSE 0)
               @@ "OF" :> B(~Fits(Signed(i.a, i.w) + d, i.w)), {})

Logic(i) == Gives(i.a, SZP(i.a, i.w) @@ "CF" :> 0 @@ "OF" :> 0, {"AF"})

(* Shifts by n: carry is the last bit shifted out, over the one-bit overflow. *)
Shifted(i, n, r, carry, over) ==
  Gives(r, SZP(r, i.w) @@ "CF" :> carry @@ "OF" :> over,
       {"AF"} \cup (IF n = 1 THEN {} ELSE {"OF"})
              \cup (IF n >= i.w /\ i.name \in {"SHL", "SHR"} THEN {"CF"} ELSE {}))

Shift(i) ==
  LET n == i.b % RegWidth
      r == CASE i.name = "SHL" -> (i.a * 2^n) % 2^i.w
             [] i.name = "SHR" -> i.a \div 2^n
             [] i.name = "SAR" -> (Signed(i.a, i.w) \div 2^n) % 2^i.w
      carry == CASE i.name = "SHL" -> IF n > i.w THEN 0 ELSE BitOf(i.a, i.w - n)
                 [] i.name = "SHR" -> BitOf(i.a, n - 1)
                 [] i.name = "SAR" -> (Signed(i.a, i.w) \div 2^(n - 1)) % 2
  IN IF n = 0 THEN Gives(i.a, <<>>, {})
     ELSE Shifted(i, n, r, carry, B(Top(r, i.w) # Top(i.a, i.w)))

(* Rotation of w bits, or of w + 1 with the carry on top, to the left by n.   *)
Rotated(x, m, n) == (x % 2^(m - n)) * 2^n + x \div 2^(m - n)

Rotate(i) ==
  LET n == (i.b % RegWidth) % i.w
      left == i.name = "ROL"
      r == Rotated(i.a, i.w, IF left THEN n ELSE (i.w - n) % i.w)
  IN IF i.b % RegWidth = 0 THEN Gives(i.a, <<>>, {})
     ELSE Gives(r, "CF" :> (IF left THEN r % 2 ELSE Top(r, i.w))
                    @@ "OF" :> (IF left THEN B(Top(r, i.w) # r % 2)
                                        ELSE B(Top(r, i.w) # BitOf(r, i.w - 2))),
               IF i.b % RegWidth = 1 THEN {} ELSE {"OF"})

RotateCarry(i) ==
  LET n == (i.b % RegWidth) % (i.w + 1)
      left == i.name = "RCL"
      bit(k) == IF k = i.w THEN flags["CF"] ELSE BitOf(i.a, k)
      \* bit k of the result comes from k - n or k + n, around the carry
      from(k) == bit((IF left THEN k - n ELSE k + n) % (i.w + 1))
      part[k \in 0 .. i.w] == IF k = 0 THEN 0 ELSE part[k - 1] + from(k - 1) * 2^(k - 1)
      r == part[i.w]
  IN IF n = 0 THEN Gives(i.a, <<>>, {})
     ELSE Gives(r, "CF" :> from(i.w)
                    @@ "OF" :> (IF left THEN B(Top(r, i.w) # from(i.w))
                                        ELSE B(Top(r, i.w) # BitOf(r, i.w - 2))),
               IF n = 1 THEN {} ELSE {"OF"})

(* SHLD and SHRD by more than the width leave everything undefined.           *)
DoubleShift(i) ==
  LET n == i.n % RegWidth
      left == i.name = "SHLD"
      r == IF left THEN (i.a % 2^(i.w - n)) * 2^n + i.b \div 2^(i.w - n)
                   ELSE i.a \div 2^n + (i.b % 2^n) * 2^(i.w - n)
  IN CASE n = 0 -> Gives(i.a, <<>>, {})
       [] n > i.w -> Gives(0, <<>>, Flag)
       [] OTHER -> Shifted(i, n, r, IF left THEN BitOf(i.a, i.w - n) ELSE BitOf(i.a, n - 1),
                           B(Top(r, i.w) # Top(i.a, i.w)))

Multiply(i) ==
  LET signed == i.name = "IMUL"
      p == IF signed THEN Signed(i.a, i.w) * Signed(i.b, i.w) ELSE i.a * i.b
      wide == B(IF signed THEN ~Fits(p, i.w) ELSE p >= 2^i.w)
  IN Gives(p % 2^(2 * i.w), "CF" :> wide @@ "OF" :> wide, {"AF", "PF", "SF", "ZF"})

BitTest(i) == Gives(i.a, "CF" :> BitOf(i.a, i.b % i.w), {"OF", "SF", "AF", "PF"})

BitScan(i) ==
  LET ones == {n \in 0 .. i.w - 1 : BitOf(i.a, n) = 1}
      r == IF ones = {} THEN 0
           ELSE CHOOSE n \in ones : \A m \in ones : IF i.name = "BSF" THEN n <= m ELSE n >= m
  IN Gives(r, "ZF" :> B(ones = {}), Flag \ {"ZF"})

(* The quotient and remainder of a division rounded towards zero: n is their  *)
(* combination, the remainder is smaller than d and has the sign of n.  A     *)
(* quotient that does not fit, or a division by zero, is an error: no result. *)
Divide(i) ==
  LET signed == i.name = "IDIV"
      n == IF signed THEN Signed(i.a, 2 * i.w) ELSE i.a
      d == IF signed THEN Signed(i.b, i.w) ELSE i.b
      range == IF signed THEN -(2^(i.w - 1)) .. 2^(i.w - 1) - 1 ELSE 0 .. 2^i.w - 1
      rest(q) == n - q * d
      size(x) == IF x < 0 THEN -x ELSE x
      right == {q \in range : size(rest(q)) < size(d) /\ rest(q) * n >= 0}
  IN IF right = {} THEN Gives(<<>>, <<>>, {})
     ELSE LET q == CHOOSE q \in right : TRUE
          IN Gives(<<q % 2^i.w, rest(q) % 2^i.w>>, <<>>, Flag)

(* A repeated scan or comparison: the elements consumed, and the flags of the *)
(* last of them; nothing happens to none.                                     *)
Repeat(i, left(_), while) ==
  LET stops == {k \in 1 .. i.n : (left(k) = i.mem[k]) # while}
      last == IF stops = {} THEN i.n ELSE CHOOSE k \in stops : \A j \in stops : k <= j
  IN IF i.n = 0 THEN Gives(0, <<>>, {})
     ELSE Gives(last, Borrowed(left(last), i.mem[last], i.w, 0), {})
Scan(i) == Repeat(i, LAMBDA k : i.a, i.rep = "E")
CompareStrings(i) == Repeat(i, LAMBDA k : i.src[k], TRUE)

(* Elements are copied one after the other, so that a copy onto its own       *)
(* source repeats what it has copied.                                         *)
CopyString(i) ==
  LET copied[k \in 0 .. i.n] ==
        IF k = 0 THEN i.mem
        ELSE [copied[k - 1] EXCEPT ![i.dst + k - 1] = copied[k - 1][i.src + k - 1]]
  IN Gives(copied[i.n], <<>>, {})

(* Floating-point comparisons: unordered sets all three.                      *)
Compare(i) ==
  Gives(0, "CF" :> B(i.rel \in {"less", "unordered"}) @@ "PF" :> B(i.rel = "unordered")
            @@ "ZF" :> B(i.rel \in {"equal", "unordered"})
            @@ "OF" :> 0 @@ "SF" :> 0 @@ "AF" :> 0, {})

(* The sixteen conditions: an odd number is the negation of the even below.   *)
Condition(i) ==
  LET k == i.a \div 2
      holds == CASE k = 0 -> flags["OF"] = 1
                 [] k = 1 -> flags["CF"] = 1
                 [] k = 2 -> flags["ZF"] = 1
                 [] k = 3 -> flags["CF"] = 1 \/ flags["ZF"] = 1
                 [] k = 4 -> flags["SF"] = 1
                 [] k = 5 -> flags["PF"] = 1
                 [] k = 6 -> flags["SF"] # flags["OF"]
                 [] k = 7 -> flags["ZF"] = 1 \/ flags["SF"] # flags["OF"]
  IN Gives(B(holds = (i.a % 2 = 0)), <<>>, {})

(* Decimal adjustment of AL after an addition or a subtraction.               *)
Decimal(i) ==
  LET low == i.a % 16 > 9 \/ flags["AF"] = 1
      high == i.a > 153 \/ flags["CF"] = 1
      adjust == (IF low THEN 6 ELSE 0) + (IF high THEN 96 ELSE 0)
      r == (IF i.name = "DAA" THEN i.a + adjust ELSE i.a - adjust) % 256
      borrow == i.name = "DAS" /\ low /\ i.a < 6
  IN Gives(r, SZP(r, 8) @@ "AF" :> B(low) @@ "CF" :> B(high \/ borrow), {"OF"})

(* Adjustment of AX after an addition or subtraction of unpacked digits.      *)
Ascii(i) ==
  LET carry == i.a % 16 > 9 \/ flags["AF"] = 1
      ax == (IF carry THEN i.a + (IF i.name = "AAA" THEN 1 ELSE -1) * 262 ELSE i.a) % 65536
  IN Gives(ax - (ax % 256) + (ax % 16), "AF" :> B(carry) @@ "CF" :> B(carry),
          {"OF", "SF", "ZF", "PF"})

(* AX from two digits in base b to AL, and back.                              *)
Base(i) ==
  LET al == IF i.name = "AAM" THEN (i.a % 256) % i.b
            ELSE ((i.a % 256) + i.b * (i.a \div 256)) % 256
      ah == IF i.name = "AAM" THEN (i.a % 256) \div i.b ELSE 0
  IN Gives(256 * ah + al, SZP(al, 8), {"OF", "AF", "CF"})

Outcome(i) ==
  CASE i.name \in {"ADD", "XADD"} -> Sum(i, 0)
    [] i.name = "ADC" -> Sum(i, flags["CF"])
    [] i.name \in {"SUB", "CMP"} -> Difference(i, 0)
    [] i.name = "SBB" -> Difference(i, flags["CF"])
    [] i.name = "INC" -> Step1(i, 1)
    [] i.name = "DEC" -> Step1(i, -1)
    [] i.name = "LOGIC" -> Logic(i)
    [] i.name \in {"SHL", "SHR", "SAR"} -> Shift(i)
    [] i.name \in {"ROL", "ROR"} -> Rotate(i)
    [] i.name \in {"RCL", "RCR"} -> RotateCarry(i)
    [] i.name \in {"SHLD", "SHRD"} -> DoubleShift(i)
    [] i.name \in {"MUL", "IMUL"} -> Multiply(i)
    [] i.name \in {"DIV", "IDIV"} -> Divide(i)
    [] i.name = "CMPXCHG" -> CompareExchange(i)
    [] i.name = "SCAS" -> Scan(i)
    [] i.name = "CMPS" -> CompareStrings(i)
    [] i.name = "MOVS" -> CopyString(i)
    [] i.name = "BT" -> BitTest(i)
    [] i.name \in {"BSF", "BSR"} -> BitScan(i)
    [] i.name \in {"FCOMI", "UCOMIS"} -> Compare(i)
    [] i.name \in {"DAA", "DAS"} -> Decimal(i)
    [] i.name \in {"AAA", "AAS"} -> Ascii(i)
    [] i.name \in {"AAM", "AAD"} -> Base(i)
    [] i.name = "JCC" -> Condition(i)
    [] i.name = "CARRY" -> Gives(0, "CF" :> (IF i.a = 2 THEN 1 - flags["CF"] ELSE i.a), {})
    [] i.name = "SAHF" -> Gives(0, [f \in Flag \ {"OF"} |-> i.f[f]], {})
    [] i.name = "POPF" -> Gives(0, i.f, {})

(* The results the architecture leaves undefined.                             *)
NoResult(i) == \/ i.name \in {"BSF", "BSR"} /\ i.a = 0
               \/ i.name \in {"SHLD", "SHRD"} /\ i.n % RegWidth > i.w

Execute(i) == /\ NoResult(i) \/ res' = Outcome(i).r
              /\ SetsFlags(Outcome(i))

Init == insn = <<>> /\ res = 0 /\ flags \in [Flag -> {0, 1}]
Retire == insn' = <<>> /\ res' = 0 /\ flags' = flags
Next == IF insn = <<>> THEN Execute(insn') ELSE Retire
Spec == Init /\ [][Next]_vars
=============================================================================
