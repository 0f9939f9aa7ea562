------------------------------ MODULE X86Simd -------------------------------
(* What a program sees of the MMX, SSE and SSE2 instructions.  A register or  *)
(* memory operand is a function from 0 .. size - 1 to cells of Cell bits (the *)
(* bytes), the lowest first; a lane is a number of 1, 2, 4 or 8 cells.        *)
(* s.x, s.m and s.r are the xmm, mm and general registers, s.ones the mm      *)
(* registers whose exponent is all ones, s.top and s.tags what the FPU sees   *)
(* of them, s.mem the memory.  Floating-point arithmetic is a parameter.      *)
EXTENDS Integers, FiniteSets, TLC, Bitwise

CONSTANTS Cell,
          Float(_, _, _),     \* of an operation, the cells of the result, the operands
          Raises(_, _, _),    \* the exceptions of the same
          Relation(_, _, _)   \* of two operands of so many cells: "lt", "eq", "gt", "un"

Bits(n) == Cell * n
Size(v) == Cardinality(DOMAIN v)
Word(v, a, n) ==
  LET sum[k \in 0 .. n] == IF k = 0 THEN 0 ELSE sum[k - 1] + v[a + k - 1] * 2^Bits(k - 1)
  IN sum[n]
Lane(v, n, k) == Word(v, k * n, n)
Pack(f, n) ==
  [c \in 0 .. Cardinality(DOMAIN f) * n - 1 |-> (f[c \div n] \div 2^Bits(c % n)) % 2^Cell]
Slice(v, a, n) == [c \in 0 .. n - 1 |-> v[a + c]]
Over(v, at, low) == [c \in DOMAIN v |-> IF c - at \in DOMAIN low THEN low[c - at] ELSE v[c]]
Zeros(n) == [c \in 0 .. n - 1 |-> 0]

Signed(v, n) == IF v >= 2^(Bits(n) - 1) THEN v - 2^Bits(n) ELSE v
Clamp(v, low, high) == IF v < low THEN low ELSE IF v > high THEN high ELSE v
SatInt(v, n) == Clamp(v, -(2^(Bits(n) - 1)), 2^(Bits(n) - 1) - 1) % 2^Bits(n)
SatNat(v, n) == Clamp(v, 0, 2^Bits(n) - 1)
Mask(b, n) == IF b THEN 2^Bits(n) - 1 ELSE 0

-----------------------------------------------------------------------------
(* Integer instructions, by the second byte of the opcode: an operation and   *)
(* the cells of a lane.  Without a prefix they work on mm registers, with 66  *)
(* on xmm registers.                                                          *)
Packed ==
  \h60 :> <<"low", 1>> @@ \h61 :> <<"low", 2>> @@ \h62 :> <<"low", 4>> @@ \h6C :> <<"low", 8>> @@
  \h68 :> <<"high", 1>> @@ \h69 :> <<"high", 2>> @@ \h6A :> <<"high", 4>> @@ \h6D :> <<"high", 8>> @@
  \h63 :> <<"packs", 2>> @@ \h6B :> <<"packs", 4>> @@ \h67 :> <<"packu", 2>> @@
  \h64 :> <<"gt", 1>> @@ \h65 :> <<"gt", 2>> @@ \h66 :> <<"gt", 4>> @@
  \h74 :> <<"eq", 1>> @@ \h75 :> <<"eq", 2>> @@ \h76 :> <<"eq", 4>> @@
  \hD1 :> <<"srl", 2>> @@ \hD2 :> <<"srl", 4>> @@ \hD3 :> <<"srl", 8>> @@
  \hE1 :> <<"sra", 2>> @@ \hE2 :> <<"sra", 4>> @@
  \hF1 :> <<"sll", 2>> @@ \hF2 :> <<"sll", 4>> @@ \hF3 :> <<"sll", 8>> @@
  \hFC :> <<"add", 1>> @@ \hFD :> <<"add", 2>> @@ \hFE :> <<"add", 4>> @@ \hD4 :> <<"add", 8>> @@
  \hF8 :> <<"sub", 1>> @@ \hF9 :> <<"sub", 2>> @@ \hFA :> <<"sub", 4>> @@ \hFB :> <<"sub", 8>> @@
  \hEC :> <<"adds", 1>> @@ \hED :> <<"adds", 2>> @@ \hDC :> <<"addu", 1>> @@ \hDD :> <<"addu", 2>> @@
  \hE8 :> <<"subs", 1>> @@ \hE9 :> <<"subs", 2>> @@ \hD8 :> <<"subu", 1>> @@ \hD9 :> <<"subu", 2>> @@
  \hDA :> <<"minu", 1>> @@ \hDE :> <<"maxu", 1>> @@ \hEA :> <<"mins", 2>> @@ \hEE :> <<"maxs", 2>> @@
  \hDB :> <<"and", 1>> @@ \hDF :> <<"andn", 1>> @@ \hEB :> <<"or", 1>> @@ \hEF :> <<"xor", 1>> @@
  \hE0 :> <<"avg", 1>> @@ \hE3 :> <<"avg", 2>> @@ \hD5 :> <<"mul", 2>> @@ \hE5 :> <<"mulh", 2>> @@
  \hE4 :> <<"mulhu", 2>> @@ \hF4 :> <<"muldq", 8>> @@ \hF5 :> <<"madd", 4>> @@ \hF6 :> <<"sad", 8>>

InLane(kind, n, a, b) ==
  LET m == 2^Bits(n)
      half == 2^(Bits(n) \div 2)
      cell(v, k) == (v \div 2^Bits(k)) % 2^Cell
      distance[k \in 0 .. n] ==
        IF k = 0 THEN 0
        ELSE LET x == cell(a, k - 1) - cell(b, k - 1)
             IN distance[k - 1] + (IF x < 0 THEN -x ELSE x)
  IN CASE kind = "add" -> (a + b) % m
       [] kind = "sub" -> (a - b) % m
       [] kind = "adds" -> SatInt(Signed(a, n) + Signed(b, n), n)
       [] kind = "subs" -> SatInt(Signed(a, n) - Signed(b, n), n)
       [] kind = "addu" -> SatNat(a + b, n)
       [] kind = "subu" -> SatNat(a - b, n)
       [] kind = "eq" -> Mask(a = b, n)
       [] kind = "gt" -> Mask(Signed(a, n) > Signed(b, n), n)
       [] kind = "minu" -> IF a < b THEN a ELSE b
       [] kind = "maxu" -> IF a > b THEN a ELSE b
       [] kind = "mins" -> IF Signed(a, n) < Signed(b, n) THEN a ELSE b
       [] kind = "maxs" -> IF Signed(a, n) > Signed(b, n) THEN a ELSE b
       [] kind = "and" -> a & b
       [] kind = "andn" -> (m - 1 - a) & b
       [] kind = "or" -> a | b
       [] kind = "xor" -> a ^^ b
       [] kind = "avg" -> (a + b + 1) \div 2
       [] kind = "mul" -> (Signed(a, n) * Signed(b, n)) % m
       [] kind = "mulh" -> ((Signed(a, n) * Signed(b, n)) \div m) % m
       [] kind = "mulhu" -> (a * b) \div m
       [] kind = "muldq" -> (a % half) * (b % half)
       [] kind = "madd" -> (Signed(a % half, 2) * Signed(b % half, 2)
                            + Signed(a \div half, 2) * Signed(b \div half, 2)) % m
       [] kind = "sad" -> distance[n]

Interleave(d, s, n, from) ==
  Pack([k \in 0 .. Size(d) \div n - 1 |-> Lane(IF k % 2 = 0 THEN d ELSE s, n, from + k \div 2)], n)
Narrow(d, s, n, sat(_)) ==
  LET lanes == Size(d) \div n
  IN Pack([k \in 0 .. 2 * lanes - 1 |-> sat(Signed(Lane(IF k < lanes THEN d ELSE s, n, k % lanes), n))],
          n \div 2)

ShiftLane(kind, w, v, count) ==
  CASE kind = "srl" -> IF count >= w THEN 0 ELSE v \div 2^count
    [] kind = "sll" -> IF count >= w THEN 0 ELSE (v % 2^(w - count)) * 2^count
    [] kind = "sra" -> LET c == IF count >= w THEN w - 1 ELSE count
                           a == IF v >= 2^(w - 1) THEN v - 2^w ELSE v
                       IN (a \div 2^c) % 2^w
Shifted(kind, d, n, count) ==
  Pack([k \in 0 .. Size(d) \div n - 1 |-> ShiftLane(kind, Bits(n), Lane(d, n, k), count)], n)
(* The whole register by k cells: PSLLDQ for k > 0, PSRLDQ for k < 0.         *)
Moved(d, k) == [c \in DOMAIN d |-> IF c - k \in DOMAIN d THEN d[c - k] ELSE 0]

Integer(kind, n, d, s) ==
  CASE kind = "low" -> Interleave(d, s, n, 0)
    [] kind = "high" -> Interleave(d, s, n, Size(d) \div (2 * n))
    [] kind = "packs" -> Narrow(d, s, n, LAMBDA v : SatInt(v, n \div 2))
    [] kind = "packu" -> Narrow(d, s, n, LAMBDA v : SatNat(v, n \div 2))
    [] kind \in {"srl", "sll", "sra"} -> Shifted(kind, d, n, Word(s, 0, 8))
    [] OTHER -> Pack([k \in 0 .. Size(d) \div n - 1 |-> InLane(kind, n, Lane(d, n, k), Lane(s, n, k))], n)

-----------------------------------------------------------------------------
(* Instructions i: the last of the prefixes none, 66, F2, F3 as 0 .. 3, the   *)
(* second byte of the opcode, whether the operand rm is a register, the       *)
(* address otherwise, an immediate, and the machine.                          *)

At(s, a) == a % Size(s.mem)
Fetch(s, a, n) == [c \in 0 .. n - 1 |-> s.mem[At(s, a + c)]]
Store(s, a, v) ==
  [s EXCEPT !.mem = [x \in DOMAIN s.mem |->
     IF \E c \in DOMAIN v : At(s, a + c) = x THEN v[CHOOSE c \in DOMAIN v : At(s, a + c) = x]
     ELSE s.mem[x]]]
Operand(i, file, n) == IF i.isreg THEN Slice(i.s[file][i.rm], 0, n) ELSE Fetch(i.s, i.addr, n)
SetReg(s, file, k, v) ==
  LET t == [s EXCEPT ![file][k] = v] IN IF file = "m" THEN [t EXCEPT !.ones = @ \cup {k}] ELSE t
Wide(file) == CASE file = "x" -> 16 [] file = "m" -> 8 [] file = "r" -> 4

(* An effect: the kinds of registers used, the cells of the operand rm and    *)
(* whether memory must be aligned to 16 cells, the result, and exceptions.    *)
Raising(files, n, t, raised) == [files |-> files, n |-> n, strict |-> n = 16, t |-> t, raised |-> raised]
Effect(files, n, t) == Raising(files, n, t, {})
Loose(e) == [e EXCEPT !.strict = FALSE]

Load(i, file, n, zero) ==
  LET v == Operand(i, file, n)
      old == i.s[file][i.reg]
  IN Effect({file}, n, SetReg(i.s, file, i.reg, Over(IF zero THEN Zeros(Wide(file)) ELSE old, 0, v)))
StoreTo(i, file, from, n, zero) ==
  LET v == Slice(i.s[file][i.reg], from, n)
      old == IF zero THEN Zeros(Wide(file)) ELSE i.s[file][i.rm]
  IN Effect({file}, n, IF i.isreg THEN SetReg(i.s, file, i.rm, Over(old, 0, v))
                       ELSE Store(i.s, i.addr, v))

Moves(i) ==
  LET x == i.s.x[i.reg]
      y == i.s.x[i.rm]
      file == IF i.prefix = 0 THEN "m" ELSE "x"
      size == <<16, 16, 8, 4>>[i.prefix + 1]
      put(at, v) == SetReg(i.s, "x", i.reg, Over(x, at, v))
      byte == i.imm % (Wide(file) \div 2)
  IN CASE i.op = \h10 -> Loose(Load(i, "x", size, ~i.isreg))
       [] i.op = \h11 -> Loose(StoreTo(i, "x", 0, size, FALSE))
       [] i.op = \h12 -> Effect({"x"}, 8, put(0, IF i.isreg THEN Slice(y, 8, 8) ELSE Operand(i, "x", 8)))
       [] i.op = \h13 -> StoreTo(i, "x", 0, 8, FALSE)
       [] i.op = \h16 /\ i.prefix = 3 ->
            LET v == Operand(i, "x", 16)
            IN Effect({"x"}, 16, SetReg(i.s, "x", i.reg,
                                        Pack([k \in 0 .. 3 |-> Lane(v, 4, 2 * (k \div 2) + 1)], 4)))
       [] i.op = \h16 -> Effect({"x"}, 8, put(8, Operand(i, "x", 8)))
       [] i.op = \h17 -> StoreTo(i, "x", 8, 8, FALSE)
       [] i.op = \h28 -> Load(i, "x", 16, FALSE)
       [] i.op \in {\h29, \h2B} -> StoreTo(i, "x", 0, 16, FALSE)
       [] i.op = \h6E -> Effect({file}, 4, SetReg(i.s, file, i.reg,
                                                  Over(Zeros(Wide(file)), 0, Operand(i, "r", 4))))
       [] i.op = \h7E /\ i.prefix = 3 -> Load(i, "x", 8, TRUE)
       [] i.op = \h7E -> LET v == Slice(i.s[file][i.reg], 0, 4)
                         IN Effect({file}, 4, IF i.isreg THEN SetReg(i.s, "r", i.rm, v)
                                              ELSE Store(i.s, i.addr, v))
       [] i.op = \h6F -> LET e == Load(i, file, Wide(file), FALSE) IN IF i.prefix = 3 THEN Loose(e) ELSE e
       [] i.op \in {\h7F, \hE7} ->
            LET e == StoreTo(i, file, 0, Wide(file), FALSE) IN IF i.prefix = 3 THEN Loose(e) ELSE e
       [] i.op = \hD6 /\ i.prefix = 1 -> StoreTo(i, "x", 0, 8, TRUE)
       [] i.op = \hD6 /\ i.prefix = 2 -> Effect({"x", "m"}, 8, SetReg(i.s, "m", i.reg, Slice(y, 0, 8)))
       [] i.op = \hD6 /\ i.prefix = 3 ->
            Effect({"x", "m"}, 8, SetReg(i.s, "x", i.reg, Over(Zeros(16), 0, i.s.m[i.rm])))
       [] i.op = \hC3 -> Effect({}, 4, Store(i.s, i.addr, i.s.r[i.reg]))
       [] i.op = \hC4 -> Effect({file}, 2, SetReg(i.s, file, i.reg,
                                                  Over(i.s[file][i.reg], 2 * byte, Operand(i, "r", 2))))
       [] i.op = \hC5 -> Effect({file}, 2, SetReg(i.s, "r", i.reg,
                                                  Over(Zeros(4), 0, Slice(i.s[file][i.rm], 2 * byte, 2))))
       [] i.op = \hF7 ->
            LET v == i.s[file][i.reg]
                a == Word(i.s.r[7], 0, 4)
                chosen == {c \in DOMAIN v : i.s[file][i.rm][c] >= 2^(Cell - 1)}
            IN Effect({file}, 0, Store(i.s, a, [c \in chosen |-> v[c]]))

(* The sign bits of lanes, and rearrangements by an immediate.                *)
Signs(v, n) ==
  LET sum[k \in 0 .. Size(v) \div n] ==
        IF k = 0 THEN 0
        ELSE sum[k - 1] + (IF Lane(v, n, k - 1) >= 2^(Bits(n) - 1) THEN 2^(k - 1) ELSE 0)
  IN sum[Size(v) \div n]
Pick(imm, k) == (imm \div 4^k) % 4
Shuffles(i) ==
  LET file == IF i.prefix = 0 THEN "m" ELSE "x"
      n == IF i.op = \hD7 THEN 1 ELSE IF i.prefix = 0 THEN 4 ELSE 8
      from == IF i.op = \hD7 THEN file ELSE "x"
      x == i.s.x[i.reg]
      v == Operand(i, "x", 16)
      words(w, at) == Pack([k \in 0 .. 3 |-> Lane(w, 2, at + Pick(i.imm, k))], 2)
      to(f, w) == Effect({f}, Wide(f), SetReg(i.s, f, i.reg, w))
  IN CASE i.op \in {\h50, \hD7} ->
            Effect({from}, Wide(from), SetReg(i.s, "r", i.reg,
                                              Pack(0 :> Signs(Operand(i, from, Wide(from)), n), 4)))
       [] i.op = \h70 /\ i.prefix = 0 -> to("m", words(Operand(i, "m", 8), 0))
       [] i.op = \h70 /\ i.prefix = 1 -> to("x", Pack([k \in 0 .. 3 |-> Lane(v, 4, Pick(i.imm, k))], 4))
       [] i.op = \h70 /\ i.prefix = 2 -> to("x", Over(v, 0, words(v, 0)))
       [] i.op = \h70 /\ i.prefix = 3 -> to("x", Over(v, 8, words(v, 4)))
       [] i.op = \hC6 /\ i.prefix = 0 ->
            to("x", Pack([k \in 0 .. 3 |-> Lane(IF k < 2 THEN x ELSE v, 4, Pick(i.imm, k))], 4))
       [] i.op = \hC6 /\ i.prefix = 1 ->
            to("x", Pack(0 :> Lane(x, 8, i.imm % 2) @@ 1 :> Lane(v, 8, (i.imm \div 2) % 2), 8))
       [] i.op \in {\h14, \h15} ->
            LET lane == IF i.prefix = 0 THEN 4 ELSE 8
            IN to("x", Integer(IF i.op = \h14 THEN "low" ELSE "high", lane, x, v))
       [] i.op \in {\h54, \h55, \h56, \h57} ->
            to("x", Integer(<<"and", "andn", "or", "xor">>[i.op - \h53], 1, x, v))

(* Shifts by an immediate: the operation is in the field reg.                 *)
ShiftImm(i) ==
  LET file == IF i.prefix = 0 THEN "m" ELSE "x"
      d == i.s[file][i.rm]
      n == <<2, 4, 8>>[i.op - \h70]
      v == CASE i.reg = 3 -> Moved(d, -i.imm)
             [] i.reg = 7 -> Moved(d, i.imm)
             [] OTHER -> Shifted(CASE i.reg = 2 -> "srl" [] i.reg = 4 -> "sra" [] i.reg = 6 -> "sll",
                                 d, n, i.imm)
  IN Effect({file}, 0, SetReg(i.s, file, i.rm, v))

Integers2(i) ==
  LET file == IF i.prefix = 0 THEN "m" ELSE "x"
      k == Packed[i.op]
  IN Effect({file}, Wide(file),
            SetReg(i.s, file, i.reg, Integer(k[1], k[2], i.s[file][i.reg], Operand(i, file, Wide(file)))))

-----------------------------------------------------------------------------
(* Floating point: four or two lanes, or the lowest one.                      *)

FloatOps == \h51 :> "sqrt" @@ \h52 :> "rsqrt" @@ \h53 :> "rcp" @@ \h58 :> "add" @@ \h59 :> "mul" @@
            \h5C :> "sub" @@ \h5D :> "min" @@ \h5E :> "div" @@ \h5F :> "max"
LaneCells(i) == IF i.prefix \in {0, 3} THEN 4 ELSE 8
Lanes(i) == IF i.prefix \in {2, 3} THEN 1 ELSE 16 \div LaneCells(i)

FloatLanes(i, op, args(_), f(_)) ==
  LET n == LaneCells(i)
      ks == 0 .. Lanes(i) - 1
  IN Raising({"x"}, n * Lanes(i),
             SetReg(i.s, "x", i.reg, Over(i.s.x[i.reg], 0, Pack([k \in ks |-> f(k)], n))),
             UNION {Raises(op, n, args(k)) : k \in ks})
Arithmetic(i) ==
  LET n == LaneCells(i)
      v == Operand(i, "x", n * Lanes(i))
      op == FloatOps[i.op]
      args(k) == IF i.op < \h58 THEN <<Lane(v, n, k)>> ELSE <<Lane(i.s.x[i.reg], n, k), Lane(v, n, k)>>
  IN FloatLanes(i, op, args, LAMBDA k : Float(op, n, args(k)))

Predicate(imm, rel) ==
  LET p == <<rel = "eq", rel = "lt", rel \in {"lt", "eq"}, rel = "un">>[(imm % 4) + 1]
  IN IF imm % 8 < 4 THEN p ELSE ~p
Compare(i) ==
  LET n == LaneCells(i)
      v == Operand(i, "x", n * Lanes(i))
      args(k) == <<Lane(i.s.x[i.reg], n, k), Lane(v, n, k)>>
  IN FloatLanes(i, IF i.imm % 4 \in {1, 2} THEN "compare" ELSE "compare_quiet", args,
                LAMBDA k : Mask(Predicate(i.imm, Relation(n, args(k)[1], args(k)[2])), n))
CompareFlags(i) ==
  LET n == IF i.prefix = 0 THEN 4 ELSE 8
      args == <<Lane(i.s.x[i.reg], n, 0), Lane(Operand(i, "x", n), n, 0)>>
      rel == Relation(n, args[1], args[2])
  IN Raising({"x"}, n,
             [i.s EXCEPT !.eflags = CASE rel = "un" -> {"ZF", "PF", "CF"} [] rel = "lt" -> {"CF"}
                                      [] rel = "eq" -> {"ZF"} [] rel = "gt" -> {}],
             Raises(IF i.op = \h2E THEN "compare_quiet" ELSE "compare", n, args))

(* Conversions: the operation, the cells of a lane before and after, the      *)
(* number of lanes, where they come from and go to.                           *)
Conversion(i) ==
  LET f2i == IF i.op = \h2C THEN "trunc" ELSE "round"
      row(op, n, m, lanes, from, to) == [op |-> op, n |-> n, m |-> m, lanes |-> lanes, from |-> from, to |-> to]
  IN CASE i.op = \h2A -> <<row("int", 4, 4, 2, "m", "x"), row("int", 4, 8, 2, "m", "x"),
                           row("int", 4, 8, 1, "r", "x"), row("int", 4, 4, 1, "r", "x")>>[i.prefix + 1]
       [] i.op \in {\h2C, \h2D} ->
            <<row(f2i, 4, 4, 2, "x", "m"), row(f2i, 8, 4, 2, "x", "m"),
              row(f2i, 8, 4, 1, "x", "r"), row(f2i, 4, 4, 1, "x", "r")>>[i.prefix + 1]
       [] i.op = \h5A -> <<row("widen", 4, 8, 2, "x", "x"), row("narrow", 8, 4, 2, "x", "x"),
                           row("narrow", 8, 4, 1, "x", "x"), row("widen", 4, 8, 1, "x", "x")>>[i.prefix + 1]
       [] i.op = \h5B -> <<row("int", 4, 4, 4, "x", "x"), row("round", 4, 4, 4, "x", "x"),
                           row("", 1, 1, 1, "x", "x"), row("trunc", 4, 4, 4, "x", "x")>>[i.prefix + 1]
       [] i.op = \hE6 -> <<row("", 1, 1, 1, "x", "x"), row("trunc", 8, 4, 2, "x", "x"),
                           row("round", 8, 4, 2, "x", "x"), row("int", 4, 8, 2, "x", "x")>>[i.prefix + 1]
Convert(i) ==
  LET c == Conversion(i)
      v == Operand(i, c.from, c.n * c.lanes)
      ks == 0 .. c.lanes - 1
      low == Pack([k \in ks |-> Float(c.op, c.m, <<Lane(v, c.n, k)>>)], c.m)
      old == IF c.n > c.m /\ c.lanes = 2 THEN Zeros(Wide(c.to)) ELSE i.s[c.to][i.reg]
      used == IF i.isreg THEN {c.from, c.to} ELSE {c.to, "x"}
  IN Raising(used, c.n * c.lanes, SetReg(i.s, c.to, i.reg, Over(old, 0, low)),
             UNION {Raises(c.op, c.m, <<Lane(v, c.n, k)>>) : k \in ks})

-----------------------------------------------------------------------------
MoveOps == {\h10, \h11, \h12, \h13, \h16, \h17, \h28, \h29, \h2B, \h6E, \h6F, \h7E, \h7F, \hC3, \hC4,
            \hC5, \hD6, \hE7, \hF7}
ShuffleOps == {\h14, \h15, \h50, \h54, \h55, \h56, \h57, \h70, \hC6, \hD7}
ConvertOps == {\h2A, \h2C, \h2D, \h5A, \h5B, \hE6}

Performed(i) ==
  CASE i.op = \h77 -> Effect({"m"}, 0, i.s)
    [] i.op \in MoveOps -> Moves(i)
    [] i.op \in ShuffleOps -> Shuffles(i)
    [] i.op \in {\h71, \h72, \h73} -> ShiftImm(i)
    [] i.op \in DOMAIN Packed -> Integers2(i)
    [] i.op \in DOMAIN FloatOps -> Arithmetic(i)
    [] i.op = \hC2 -> Compare(i)
    [] i.op \in {\h2E, \h2F} -> CompareFlags(i)
    [] i.op \in ConvertOps -> Convert(i)

(* The encodings there are: those of SSE2, and MOVSHDUP.                      *)
Exists(i) ==
  LET p == i.prefix
      ok(prefixes) == p \in prefixes
      reg == i.isreg
  IN CASE i.op \in {\h10, \h11, \h51, \h58, \h59, \h5A, \h5C, \h5D, \h5E, \h5F, \hC2, \h2A, \h2C, \h2D}
            -> ok(0 .. 3)
       [] i.op = \h12 -> p = 0 \/ (p = 1 /\ ~reg)
       [] i.op \in {\h13, \h17, \h2B, \hE7} -> ok({0, 1}) /\ ~reg
       [] i.op = \h16 -> ok({0, 3}) \/ (p = 1 /\ ~reg)
       [] i.op \in {\h50, \hC5, \hD7, \hF7} -> ok({0, 1}) /\ reg
       [] i.op \in {\h71, \h72} -> ok({0, 1}) /\ reg /\ i.reg \in {2, 4, 6}
       [] i.op = \h73 -> ok({0, 1}) /\ reg /\ i.reg \in {2, 6} \cup (IF p = 1 THEN {3, 7} ELSE {})
       [] i.op \in {\h52, \h53} -> ok({0, 3})
       [] i.op = \h5B -> ok({0, 1, 3})
       [] i.op = \hE6 -> ok({1, 2, 3})
       [] i.op = \hD6 -> p = 1 \/ (ok({2, 3}) /\ reg)
       [] i.op = \h70 -> ok(0 .. 3)
       [] i.op \in {\h6F, \h7E, \h7F} -> ok({0, 1, 3})
       [] i.op \in {\h6C, \h6D} -> p = 1
       [] i.op = \hC3 -> p = 0 /\ ~reg
       [] i.op = \h77 -> p = 0 /\ reg
       [] OTHER -> ok({0, 1})

Unavailable(i, files) ==
  LET s == i.s
  IN CASE files = {} -> ""
       [] files # {} /\ ("EM" \in s.cr \/ ("x" \in files /\ "OSFXSR" \notin s.cr)) -> "UD"
       [] files # {} /\ "TS" \in s.cr -> "NM"
       [] "m" \in files /\ s.pending -> "MF"
       [] OTHER -> ""

(* An unmasked exception leaves the registers as they were; the flags of      *)
(* those found before the result is computed are set, all if those are masked.*)
Specified(i) ==
  LET e == Performed(i)
      none == Unavailable(i, e.files)
      unmasked == e.raised \ i.s.masks
      flags == IF unmasked \cap {"I", "D", "Z"} # {} THEN e.raised \cap {"I", "D", "Z"} ELSE e.raised
      t == [e.t EXCEPT !.flags = @ \cup flags]
  IN CASE none # "" -> [i.s EXCEPT !.fault = none]
       [] none = "" /\ e.strict /\ ~i.isreg /\ i.addr % 16 # 0 -> [i.s EXCEPT !.fault = "GP"]
       [] none = "" /\ unmasked # {} ->
            [i.s EXCEPT !.flags = @ \cup flags, !.fault = IF "OSXMMEXCPT" \in i.s.cr THEN "XM" ELSE "UD"]
       [] "m" \in e.files -> [t EXCEPT !.top = 0, !.tags = IF i.op = \h77 THEN "empty" ELSE "valid"]
       [] OTHER -> t
=============================================================================
