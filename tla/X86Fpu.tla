------------------------------- MODULE X86Fpu --------------------------------
(***************************************************************************)
(* What a program sees of the x87 FPU.  A number is a record of its class, *)
(* its sign and a magnitude n; the arithmetic on numbers is a parameter.   *)
(* s.st are the physical registers and s.full those that are not empty,    *)
(* s.masks the exceptions that are masked, s.rc the rest of the control    *)
(* word, s.sw the status word as a set of bits (SF is the stack fault, ES  *)
(* the summary), s.ip, s.op and s.dp the pointers to the last instruction, *)
(* its opcode and its operand, s.out what the instruction writes to memory.*)
(***************************************************************************)
EXTENDS Integers, Sequences, FiniteSets, TLC

CONSTANTS Float(_, _),       \* of an operation and its operands, the result,
          Raises(_, _),      \* the exceptions, and C1 if the result is rounded up,
          Quotient(_),       \* of the operands of a remainder the low bits of the
                             \* quotient, 8 if it is partial, -1 if there is none
          OutOfRange(_)      \* the operands too large for the sine

Exceptions == {"I", "D", "Z", "O", "U", "P"}
Unordered == {"C0", "C2", "C3"}
Conditions == Unordered \cup {"C1"}
Number(class, neg, n) == [class |-> class, neg |-> neg, n |-> n]
Zero == Number("zero", FALSE, 0)
Indefinite == Number("qnan", TRUE, 0)
Constant(k) == IF k = 6 THEN Zero ELSE Number("normal", FALSE, 100 + k)
Opposite(v) == [v EXCEPT !.neg = ~@]
Magnitude(v) == [v EXCEPT !.neg = FALSE]

-----------------------------------------------------------------------------
(* Registers *)

Phys(s, k) == (s.top + k) % 8
St(s, k) == s.st[Phys(s, k)]
IsFull(s, k) == Phys(s, k) \in s.full
Put(s, k, v) == [s EXCEPT !.st[Phys(s, k)] = v, !.full = @ \cup {Phys(s, k)}]
Push(s, v) == Put([s EXCEPT !.top = (@ + 7) % 8], 0, v)
Pops(s, count) ==
  [s EXCEPT !.top = (@ + count) % 8, !.full = @ \ {Phys(s, k) : k \in 0 .. count - 1}]
Unless(s, flags) == [s EXCEPT !.sw = @ \ flags]
With(s, flags) == [s EXCEPT !.sw = @ \cup flags]

-----------------------------------------------------------------------------
(* Exceptions.  Invalid operands, division by zero and denormals are noticed  *)
(* before an instruction computes, and if one is unmasked it does not; the    *)
(* others are noticed with the result.                                        *)

Signal(s, flags) ==
  With(Unless(s, {"C1"}), flags \cup IF (flags \cap Exceptions) \ s.masks = {} THEN {} ELSE {"ES"})
Blocked(s, raised) == (raised \cap {"I", "Z", "D"}) \ s.masks # {}
Report(s, raised) == Signal(s, IF Blocked(s, raised) THEN raised \cap {"I", "Z", "D"} ELSE raised)
Underflow(s) == Signal(s, {"I", "SF"})
Overflow(s) == Signal(s, {"I", "SF", "C1"})
Quiet(s) == "I" \in s.masks

(* A result for a register, out of operands in registers.                     *)
Result(s, from, raised, v, to, pops) ==
  IF \A k \in from : IsFull(s, k)
  THEN IF Blocked(s, raised) THEN Report(s, raised) ELSE Pops(Put(Report(s, raised), to, v), pops)
  ELSE IF Quiet(s) THEN Pops(Put(Underflow(s), to, Indefinite), pops) ELSE Underflow(s)
Operate(s, from, name, args, to, pops) ==
  Result(s, from, Raises(name, args), Float(name, args), to, pops)

Load(s, raised, v) ==
  CASE IsFull(s, 7) -> IF Quiet(s) THEN Push(Overflow(s), Indefinite) ELSE Overflow(s)
    [] ~IsFull(s, 7) /\ Blocked(s, raised) -> Report(s, raised)
    [] OTHER -> Push(Report(s, raised), v)

(* A result for memory is not written if any exception but P is unmasked.     *)
Store(s, name, pops) ==
  LET raised == Raises(name, <<St(s, 0)>>)
      write(t, v) == Pops([t EXCEPT !.out = <<name, Float(name, <<v>>)>>], pops)
  IN CASE ~IsFull(s, 0) -> IF Quiet(s) THEN write(Underflow(s), Indefinite) ELSE Underflow(s)
       [] IsFull(s, 0) /\ (raised \cap Exceptions) \ (s.masks \cup {"P"}) # {} -> Report(s, raised)
       [] OTHER -> write(Report(s, raised), St(s, 0))

(* Two results, of which the second is pushed.                                *)
Twice(s, first, second) ==
  LET v == St(s, 0)
      raised == Raises(first, <<v>>)
      both(t, a, b) == Push(Put(t, 0, a), b)
  IN CASE IsFull(s, 0) /\ ~IsFull(s, 7) ->
            IF Blocked(s, raised) THEN Report(s, raised)
            ELSE both(Report(s, raised), Float(first, <<v>>), Float(second, <<v>>))
       [] IsFull(s, 0) /\ IsFull(s, 7) ->
            IF Quiet(s) THEN both(Overflow(s), Indefinite, Indefinite) ELSE Overflow(s)
       [] OTHER -> IF Quiet(s) THEN both(Underflow(s), Indefinite, Indefinite) ELSE Underflow(s)

-----------------------------------------------------------------------------
(* Comparisons *)

NaN == {"qnan", "snan", "unsupported"}
Order(v) ==
  LET size == CASE v.class = "zero" -> 0 [] v.class = "denormal" -> 1
                [] v.class = "inf" -> 1000 [] OTHER -> 2 + v.n
  IN IF v.neg THEN -size ELSE size
Relation(a, b) ==
  IF {a.class, b.class} \cap NaN # {} THEN Unordered
  ELSE IF Order(a) < Order(b) THEN {"C0"} ELSE IF Order(a) = Order(b) THEN {"C3"} ELSE {}
ComparisonRaises(a, b, quiet) ==
  CASE {a.class, b.class} \cap (NaN \ (IF quiet THEN {"qnan"} ELSE {})) # {} -> {"I"}
    [] {a.class, b.class} \cap NaN = {"qnan"} /\ quiet -> {}
    [] OTHER -> IF "denormal" \in {a.class, b.class} THEN {"D"} ELSE {}
(* To the condition codes, or to the flags of the processor.                  *)
InFlags == "C0" :> "CF" @@ "C2" :> "PF" @@ "C3" :> "ZF"
Compare(s, from, a, b, quiet, pops, decide(_, _)) ==
  LET raised == ComparisonRaises(a, b, quiet)
  IN CASE \E k \in from : ~IsFull(s, k) ->
            IF Quiet(s) THEN Pops(decide(Underflow(s), Unordered), pops) ELSE Underflow(s)
       [] (\A k \in from : IsFull(s, k)) /\ Blocked(s, raised) -> Report(s, raised)
       [] OTHER -> Pops(decide(Report(s, raised), Relation(a, b)), pops)
ToCodes(s, relation) == With(Unless(s, Unordered), relation)
ToEflags(s, relation) == [s EXCEPT !.eflags = {InFlags[c] : c \in relation}]

Class(s) ==
  LET v == St(s, 0)
      codes == CASE ~IsFull(s, 0) -> {"C3", "C0"}
                 [] IsFull(s, 0) /\ v.class \in {"qnan", "snan"} -> {"C0"}
                 [] IsFull(s, 0) /\ v.class = "unsupported" -> {}
                 [] IsFull(s, 0) /\ v.class = "normal" -> {"C2"}
                 [] IsFull(s, 0) /\ v.class = "inf" -> {"C2", "C0"}
                 [] IsFull(s, 0) /\ v.class = "zero" -> {"C3"}
                 [] OTHER -> {"C3", "C2"}
  IN With(Unless(s, Conditions), codes \cup IF v.neg THEN {"C1"} ELSE {})

(* The quotient's low bits are in C0, C3 and C1.                              *)
Remainder(s, name) ==
  LET args == <<St(s, 0), St(s, 1)>>
      q == Quotient(args)
      t == Operate(s, {0, 1}, name, args, 0, 0)
      bits == (IF q % 2 = 1 THEN {"C1"} ELSE {}) \cup (IF (q \div 2) % 2 = 1 THEN {"C3"} ELSE {})
                \cup (IF q \div 4 = 1 THEN {"C0"} ELSE {})
  IN IF ~IsFull(s, 0) \/ ~IsFull(s, 1) \/ Blocked(s, Raises(name, args)) THEN t
     ELSE With(Unless(t, Conditions), CASE q = -1 -> {} [] q = 8 -> {"C2"} [] OTHER -> bits)

(* Of an operand out of range nothing is computed, and C2 says so; t is the   *)
(* outcome for an operand in range, which a fault of the stack comes before.  *)
Trigonometric(s, pushes, t) ==
  CASE ~IsFull(s, 0) \/ (pushes /\ IsFull(s, 7)) -> t
    [] IsFull(s, 0) /\ ~(pushes /\ IsFull(s, 7)) /\ OutOfRange(St(s, 0)) -> With(Unless(s, {"C1"}), {"C2"})
    [] OTHER -> Unless(t, {"C2"})

-----------------------------------------------------------------------------
(* Control *)

Initial(s) ==
  [s EXCEPT !.masks = Exceptions, !.rc = 0, !.sw = {}, !.full = {}, !.top = 0,
            !.ip = 0, !.op = <<>>, !.dp = 0]
TagOf(v) == CASE v.class = "zero" -> "zero" [] v.class = "normal" -> "valid" [] OTHER -> "special"
Environment(s, short) ==
  [masks |-> s.masks, rc |-> s.rc, sw |-> s.sw, top |-> s.top, ip |-> s.ip, dp |-> s.dp,
   op |-> IF short THEN <<>> ELSE s.op,
   tags |-> [p \in 0 .. 7 |-> IF p \in s.full THEN TagOf(s.st[p]) ELSE "empty"]]
Summary(s) == IF (s.sw \cap Exceptions) \ s.masks = {} THEN Unless(s, {"ES"}) ELSE With(s, {"ES"})
LoadEnvironment(s, e, short) ==
  Summary([s EXCEPT !.masks = e.masks, !.rc = e.rc, !.sw = e.sw, !.top = e.top, !.ip = e.ip,
                    !.dp = e.dp, !.op = IF short THEN @ ELSE e.op,
                    !.full = {p \in 0 .. 7 : e.tags[p] # "empty"}])
Registers(s) == [k \in 0 .. 7 |-> St(s, k)]

-----------------------------------------------------------------------------
(* The opcodes: i.op is the first byte, i.reg the middle field of the second, *)
(* i.rm the register or i.m the operand in memory.                            *)

Invalid(s) == [s EXCEPT !.fault = "UD"]
Arithmetic(d, a, b) ==
  CASE d = 0 -> <<"add", <<a, b>>>> [] d = 1 -> <<"mul", <<a, b>>>>
    [] d = 4 -> <<"sub", <<a, b>>>> [] d = 5 -> <<"sub", <<b, a>>>>
    [] d = 6 -> <<"div", <<a, b>>>> [] d = 7 -> <<"div", <<b, a>>>>
Condition(s, k) ==
  CASE k = 0 -> "CF" \in s.eflags [] k = 1 -> "ZF" \in s.eflags
    [] k = 2 -> s.eflags \cap {"CF", "ZF"} # {} [] k = 3 -> "PF" \in s.eflags

WithRegister(i, s) ==
  LET a == St(s, 0)
      b == St(s, i.rm)
      f == Arithmetic(i.reg, a, b)
      at == <<i.op, i.reg>>
      only(rm, t) == IF i.rm = rm THEN t ELSE Invalid(s)
      both == IsFull(s, 0) /\ IsFull(s, i.rm)
      or(k, v) == IF IsFull(s, k) THEN v ELSE Indefinite
      swapped == LET t == IF both THEN Unless(s, {"C1"}) ELSE Underflow(s)
                 IN IF both \/ Quiet(s) THEN Put(Put(t, i.rm, or(0, a)), 0, or(i.rm, b)) ELSE t
  IN CASE i.op \in {\hD8, \hDC, \hDE} /\ i.reg \notin {2, 3} ->
            Operate(s, {0, i.rm}, f[1], f[2], IF i.op = \hD8 THEN 0 ELSE i.rm, IF i.op = \hDE THEN 1 ELSE 0)
       [] i.op \in {\hD8, \hDC} /\ i.reg \in {2, 3} -> Compare(s, {0, i.rm}, a, b, FALSE, i.reg - 2, ToCodes)
       [] at = <<\hDE, 2>> -> Compare(s, {0, i.rm}, a, b, FALSE, 1, ToCodes)
       [] at = <<\hDE, 3>> -> only(1, Compare(s, {0, 1}, a, b, FALSE, 2, ToCodes))
       [] at = <<\hDA, 5>> -> only(1, Compare(s, {0, 1}, a, b, TRUE, 2, ToCodes))
       [] i.op = \hDD /\ i.reg \in {4, 5} -> Compare(s, {0, i.rm}, a, b, TRUE, i.reg - 4, ToCodes)
       [] i.op \in {\hDB, \hDF} /\ i.reg \in {5, 6} ->
            Compare(s, {0, i.rm}, a, b, i.reg = 5, IF i.op = \hDF THEN 1 ELSE 0, ToEflags)
       [] i.op \in {\hDA, \hDB} /\ i.reg \in 0 .. 3 ->
            Result(s, {0, i.rm}, {}, IF Condition(s, i.reg) = (i.op = \hDA) THEN b ELSE a, 0, 0)
       [] at = <<\hD9, 0>> ->
            IF IsFull(s, i.rm) THEN Load(s, {}, b)
            ELSE IF Quiet(s) THEN Push(Underflow(s), Indefinite) ELSE Underflow(s)
       [] at \in {<<\hD9, 1>>, <<\hDD, 1>>, <<\hDF, 1>>} -> swapped
       [] at = <<\hD9, 2>> -> only(0, s)
       [] at \in {<<\hDD, 2>>, <<\hDD, 3>>, <<\hD9, 3>>, <<\hDF, 2>>, <<\hDF, 3>>} ->
            Result(s, {0}, {}, a, i.rm, IF at = <<\hDD, 2>> THEN 0 ELSE 1)
       [] at \in {<<\hDD, 0>>, <<\hDF, 0>>} ->
            LET t == [s EXCEPT !.full = @ \ {Phys(s, i.rm)}] IN IF i.op = \hDF THEN Pops(t, 1) ELSE t
       [] at = <<\hDF, 4>> -> only(0, [s EXCEPT !.out = <<"AX", s.sw, s.top>>])
       [] at = <<\hDB, 4>> ->
            CASE i.rm \in {0, 1, 4} -> s [] i.rm = 2 -> Unless(s, Exceptions \cup {"SF", "ES"})
              [] i.rm = 3 -> Initial(s) [] OTHER -> Invalid(s)
       [] at = <<\hD9, 4>> ->
            CASE i.rm = 0 -> Result(s, {0}, {}, Opposite(a), 0, 0)
              [] i.rm = 1 -> Result(s, {0}, {}, Magnitude(a), 0, 0)
              [] i.rm = 4 -> Compare(s, {0}, a, Zero, FALSE, 0, ToCodes)
              [] i.rm = 5 -> Class(s)
              [] OTHER -> Invalid(s)
       [] at = <<\hD9, 5>> -> IF i.rm = 7 THEN Invalid(s) ELSE Load(s, {}, Constant(i.rm))
       [] at = <<\hD9, 6>> ->
            CASE i.rm = 0 -> Operate(s, {0}, "f2xm1", <<a>>, 0, 0)
              [] i.rm = 1 -> Operate(s, {0, 1}, "fyl2x", <<a, St(s, 1)>>, 1, 1)
              [] i.rm = 2 -> Trigonometric(s, TRUE, Twice(s, "tan", "one"))
              [] i.rm = 3 -> Operate(s, {0, 1}, "fpatan", <<a, St(s, 1)>>, 1, 1)
              [] i.rm = 4 -> Twice(s, "exponent", "significand")
              [] i.rm = 5 -> Remainder(s, "fprem1")
              [] OTHER -> Unless([s EXCEPT !.top = (@ + IF i.rm = 6 THEN 7 ELSE 1) % 8], {"C1"})
       [] at = <<\hD9, 7>> ->
            CASE i.rm = 0 -> Remainder(s, "fprem")
              [] i.rm = 1 -> Operate(s, {0, 1}, "fyl2xp1", <<a, St(s, 1)>>, 1, 1)
              [] i.rm = 2 -> Operate(s, {0}, "sqrt", <<a>>, 0, 0)
              [] i.rm = 3 -> Trigonometric(s, TRUE, Twice(s, "sin", "cos"))
              [] i.rm = 4 -> Operate(s, {0}, "round", <<a>>, 0, 0)
              [] i.rm = 5 -> Operate(s, {0, 1}, "scale", <<a, St(s, 1)>>, 0, 0)
              [] i.rm = 6 -> Trigonometric(s, FALSE, Operate(s, {0}, "sin", <<a>>, 0, 0))
              [] OTHER -> Trigonometric(s, FALSE, Operate(s, {0}, "cos", <<a>>, 0, 0))
       [] OTHER -> Invalid(s)

(* Memory: the format goes with the first byte.  The last byte of a packed    *)
(* decimal holds the sign, the others two digits each.                        *)
DecimalValue(m) ==
  LET sum[b \in DOMAIN m.pairs] == m.pairs[b] * 100^b + IF b = 0 THEN 0 ELSE sum[b - 1]
      n == sum[Cardinality(DOMAIN m.pairs) - 2]
  IN Number(IF n = 0 THEN "zero" ELSE "normal", m.neg, n)
Decimal(v, last) ==
  [neg |-> v.neg, pairs |-> [b \in 0 .. last |-> IF b = last THEN 0 ELSE (v.n \div 100^b) % 100]]
StoreDecimal(s, last) ==
  LET t == Store(s, "bcd", 1)
  IN IF t.out = <<>> \/ t.out[2] = Indefinite THEN t ELSE [t EXCEPT !.out = <<"bcd", Decimal(@[2], last)>>]

IsFloat(i) == i.op \in {\hD8, \hD9, \hDC, \hDD}
Extended(i) == IF IsFloat(i) THEN Float("extend", <<i.m>>) ELSE i.m
ExtensionRaises(i) == IF IsFloat(i) THEN Raises("extend", <<i.m>>) ELSE {}
OperandRaises(i, a) == ExtensionRaises(i) \ IF a.class \in NaN THEN {"D"} ELSE {}
IntName == \hDB :> "int32" @@ \hDD :> "int64" @@ \hDF :> "int16"
LoadRegisters(s, regs) == [s EXCEPT !.st = [p \in 0 .. 7 |-> regs[(p - s.top) % 8]]]

WithMemory(i, s) ==
  LET at == <<i.op, i.reg>>
      f == Arithmetic(i.reg, St(s, 0), Extended(i))
  IN CASE i.op \in {\hD8, \hDA, \hDC, \hDE} /\ i.reg \in {2, 3} ->
            Compare(s, {0}, St(s, 0), i.m, FALSE, i.reg - 2, ToCodes)
       [] i.op \in {\hD8, \hDA, \hDC, \hDE} /\ i.reg \notin {2, 3} ->
            Result(s, {0}, OperandRaises(i, St(s, 0)) \cup Raises(f[1], f[2]), Float(f[1], f[2]), 0, 0)
       [] i.op \in {\hD9, \hDB, \hDD, \hDF} /\ i.reg = 0 -> Load(s, ExtensionRaises(i), Extended(i))
       [] at \in {<<\hDB, 5>>, <<\hDF, 5>>} -> Load(s, {}, i.m)
       [] at = <<\hDF, 4>> -> Load(s, {}, DecimalValue(i.m))
       [] at = <<\hDF, 6>> -> StoreDecimal(s, i.last)
       [] at = <<\hDF, 7>> -> Store(s, "int64", 1)
       [] at = <<\hDB, 7>> -> Store(s, "float80", 1)
       [] i.op \in {\hD9, \hDD} /\ i.reg \in {2, 3} ->
            Store(s, IF i.op = \hD9 THEN "float32" ELSE "float64", i.reg - 2)
       [] i.op \in {\hDB, \hDF} /\ i.reg \in {2, 3} -> Store(s, IntName[i.op], i.reg - 2)
       [] i.op \in {\hDB, \hDD, \hDF} /\ i.reg = 1 -> Store(s, "truncated " \o IntName[i.op], 1)
       [] at = <<\hD9, 5>> -> Summary([s EXCEPT !.masks = i.m.masks, !.rc = i.m.rc])
       [] at = <<\hD9, 7>> -> [s EXCEPT !.out = <<"control", s.masks, s.rc>>]
       [] at = <<\hDD, 7>> -> [s EXCEPT !.out = <<"status", s.sw, s.top>>]
       [] at = <<\hD9, 6>> ->
            Summary([s EXCEPT !.out = <<"environment", Environment(s, i.short)>>, !.masks = Exceptions])
       [] at = <<\hDD, 6>> -> Initial([s EXCEPT !.out = <<"state", Environment(s, i.short), Registers(s)>>])
       [] at = <<\hD9, 4>> -> LoadEnvironment(s, i.m.env, i.short)
       [] at = <<\hDD, 4>> -> LoadRegisters(LoadEnvironment(s, i.m.env, i.short), i.m.regs)
       [] OTHER -> Invalid(s)

(* FXSAVE and FXRSTOR: the tags say only whether a register is empty.         *)
Extension(i, s) ==
  LET e == Environment(s, FALSE)
      tags == [p \in 0 .. 7 |-> IF p \in s.full THEN "full" ELSE "empty"]
  IN CASE i.reg = 0 /\ i.aligned -> [s EXCEPT !.out = <<"extended", [e EXCEPT !.tags = tags], Registers(s), s.mxcsr>>]
       [] i.reg = 1 /\ i.aligned /\ i.m.mxcsr # "invalid" ->
            [LoadRegisters(LoadEnvironment(s, i.m.env, FALSE), i.m.regs) EXCEPT !.mxcsr = i.m.mxcsr]
       [] OTHER -> [s EXCEPT !.fault = "GP"]

(* What neither waits for an earlier exception nor is recorded as the last    *)
(* instruction, and what waits only.                                          *)
Immediate(i) ==
  \/ i.op = \h0F
  \/ i.isreg /\ <<i.op, i.reg>> \in {<<\hDB, 4>>, <<\hDF, 4>>}
  \/ ~i.isreg /\ <<i.op, i.reg>> \in {<<\hD9, 6>>, <<\hD9, 7>>, <<\hDD, 6>>, <<\hDD, 7>>}
Unrecorded(i) ==
  i.op = \h9B \/ Immediate(i) \/ (~i.isreg /\ <<i.op, i.reg>> \in {<<\hD9, 4>>, <<\hD9, 5>>, <<\hDD, 4>>})
Record(i, s) ==
  [s EXCEPT !.ip = i.ip, !.op = <<i.op, i.reg, i.rm>>, !.dp = IF i.isreg THEN @ ELSE i.addr]

Execute(i, s) ==
  CASE i.op = \h9B -> s [] i.op = \h0F -> Extension(i, s)
    [] OTHER -> IF i.isreg THEN WithRegister(i, s) ELSE WithMemory(i, s)
Available(i) == IF i.op = \h9B THEN ~({"MP", "TS"} \subseteq i.s.cr) ELSE i.s.cr \cap {"EM", "TS"} = {}
Specified(i, s) ==
  CASE ~Available(i) -> [s EXCEPT !.fault = "NM"]
    [] Available(i) /\ Execute(i, s).fault # "" -> [s EXCEPT !.fault = Execute(i, s).fault]
    [] Available(i) /\ Execute(i, s).fault = "" /\ ~Immediate(i) /\ "ES" \in s.sw -> [s EXCEPT !.fault = "MF"]
    [] OTHER -> Execute(i, IF Unrecorded(i) THEN s ELSE Record(i, s))
=============================================================================
