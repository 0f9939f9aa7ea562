--------------------------------- MODULE Fpu ----------------------------------
(* The x87 FPU of the interpreter (fpu.c).  A thread's struct fpu is a record *)
(* with the fields of X86Fpu, but for tag, the tags of all physical registers *)
(* as tag_word holds them, in the place of full.  s.flags are the exceptions  *)
(* softfloat has collected for one instruction.  partial_sw and bits_to_clear *)
(* are static variables of the process, shared by all threads.                *)
EXTENDS X86Fpu

CONSTANTS Half,           \* 2^63 in the code
          Machines(_),    \* the states to run on, given what is left in the statics,
          Insns(_),       \* the instructions to run,
          Stores          \* and those that run before, in this thread or another

VARIABLES insn, res, cpu, executed
vars == <<insn, res, cpu, executed>>

-----------------------------------------------------------------------------
(* Registers, tags and the status word *)

fpu_get_tag_from_value(v) ==
  CASE v = Zero -> "zero"
    [] v.class \in {"inf", "denormal", "unsupported", "qnan", "snan"} -> "special"
    [] OTHER -> "valid"
fpu_get_tag(s, k) == s.tag[Phys(s, k)]
fpu_set_tag(s, k, v) == [s EXCEPT !.tag[Phys(s, k)] = v]
fpu_set_st(s, k, v) ==
  [s EXCEPT !.tag[Phys(s, k)] = fpu_get_tag_from_value(v), !.st[Phys(s, k)] = v]
Turn(s, by) == [s EXCEPT !.top = (@ + by) % 8]
fpu_push(s, v) == fpu_set_st(Turn(s, 7), 0, v)
fpu_pop(s) == Turn(fpu_set_tag(s, 0, "empty"), 1)
PopIf(b, s) == IF b THEN fpu_pop(s) ELSE s
SET_C(s, where, to) == With(Unless(s, where), to)
C1 == {"C1"}

fpu_set_control_word(s, masks, rc) == [s EXCEPT !.masks = masks, !.rc = rc, !.flags = {}]
fninit(s) ==
  [fpu_set_control_word(s, Exceptions, 0) EXCEPT
     !.sw = {}, !.tag = [p \in 0 .. 7 |-> "empty"], !.top = 0, !.dp = 0, !.ip = 0, !.op = <<>>]

-----------------------------------------------------------------------------
(* Exceptions *)

fpu_stack_fault(s) == [s EXCEPT !.flags = {"I", "SF"}]
IsEmpty(s, k) == fpu_get_tag(s, k) = "empty"
fpu_check_stack_overflow(s) ==
  IF ~IsEmpty(s, -1) THEN fpu_stack_fault(SET_C(s, C1, C1)) ELSE SET_C(s, C1, {})
fpu_check_stack_underflow(s, k, commit_sw) ==
  IF IsEmpty(s, k)
  THEN IF commit_sw THEN SET_C(fpu_stack_fault(s), C1, C1) ELSE [fpu_stack_fault(s) EXCEPT !.partial = C1]
  ELSE IF commit_sw THEN SET_C(s, C1, {}) ELSE [s EXCEPT !.clear = C1]
(* The checks of two registers, the second if the first is not empty.         *)
Either(s, j, k) == IsEmpty(s, j) \/ IsEmpty(s, k)
CheckBoth(s, j, k) ==
  LET t == fpu_check_stack_underflow(s, j, TRUE)
  IN IF IsEmpty(s, j) THEN t ELSE fpu_check_stack_underflow(t, k, TRUE)

fpu_commit_sw(s) ==
  [s EXCEPT !.sw = (@ \ s.clear) \cup s.partial, !.partial = {}, !.clear = {}]

Critical == {"I", "Z", "D"}
Kept(s) ==
  LET flags == s.flags \ (IF s.flags \cap {"U", "O"} # {} THEN {"P"} ELSE {})
  IN IF flags \cap Critical # {} THEN flags \cap (Critical \cup {"SF"}) ELSE flags
Unmasked(s) == (Kept(s) \cap Exceptions) \ s.masks
fpu_check_exceptions2(s, commit_sw) ==
  LET t == IF commit_sw THEN With(s, Kept(s)) ELSE [s EXCEPT !.partial = @ \cup Kept(s)]
  IN IF Unmasked(s) = {} THEN t ELSE With(t, {"ES"})
fpu_check_exceptions(s) == fpu_check_exceptions2(s, TRUE)
Stops(s) == Unmasked(s) \ {"P"} # {}

Raise(s, name, args) == [s EXCEPT !.flags = @ \cup Raises(name, args)]

fpu_check_push(s) ==
  LET t == fpu_check_stack_overflow(s)
      u == fpu_check_exceptions(t)
  IN IF IsEmpty(s, -1) THEN t ELSE IF "I" \in s.masks THEN fpu_push(u, Indefinite) ELSE With(u, {"ES"})
PushChecked(s, v) == IF IsEmpty(s, -1) THEN fpu_push(fpu_check_push(s), v) ELSE fpu_check_push(s)

fpu_fwait(s) == IF "ES" \in s.sw THEN [s EXCEPT !.fault = "MF"] ELSE s
fpu_nm_check(s) == IF s.cr \cap {"EM", "TS"} # {} THEN [s EXCEPT !.fault = "NM"] ELSE s
fpu_update_pointers(i, s) == [s EXCEPT !.ip = i.ip, !.op = <<i.op, i.reg, i.rm>>]
fpu_update_pointers2(i, s) == [fpu_update_pointers(i, s) EXCEPT !.dp = i.addr]

-----------------------------------------------------------------------------
(* Comparisons *)

floatx80_compare(s, a, b, unordered) == [s EXCEPT !.flags = @ \cup ComparisonRaises(a, b, unordered)]
fpu_fcom(s, a, b, unordered) ==
  LET t == floatx80_compare(s, a, b, unordered)
      u == fpu_check_exceptions(t)
  IN IF Stops(t) THEN u ELSE SET_C(u, Unordered, Relation(a, b))
ComparisonStops(s, a, b, unordered) == Stops(floatx80_compare(s, a, b, unordered))
fpu_fcomi(s, a, b, unordered) ==
  LET t == floatx80_compare(s, a, b, unordered)
      u == fpu_check_exceptions(t)
  IN IF Stops(t) THEN u ELSE [u EXCEPT !.eflags = {InFlags[c] : c \in Relation(a, b)}]

-----------------------------------------------------------------------------
(* The environment.  The code's short form has no opcode.                     *)

Retag(s) ==
  [s EXCEPT !.tag = [p \in 0 .. 7 |-> IF @[p] = "empty" THEN "empty" ELSE fpu_get_tag_from_value(s.st[p])]]
fstenv(s, code16) ==
  LET t == Retag(s)
  IN [t EXCEPT !.out = <<"environment",
        [masks |-> t.masks, rc |-> t.rc, sw |-> t.sw, top |-> t.top, tags |-> t.tag, ip |-> t.ip,
         dp |-> t.dp, op |-> IF code16 THEN <<>> ELSE t.op]>>]
fldenv(s, e, code16) ==
  LET t == [fpu_set_control_word(s, e.masks, e.rc) EXCEPT
              !.sw = e.sw, !.top = e.top, !.tag = e.tags, !.ip = e.ip, !.dp = e.dp,
              !.op = IF code16 THEN @ ELSE e.op]
  IN IF (t.sw \cap Exceptions) \ t.masks # {} THEN With(t, {"ES"}) ELSE Unless(t, {"ES"})

-----------------------------------------------------------------------------
(* fpu_reg_op, by groups of its cases; s is the state after fpu_fwait and     *)
(* fpu_update_pointers where a case calls them.                               *)

(* D8, DC and DE 0, 1, 4 to 7.                                                *)
fpu_arith(i, s) ==
  LET t == CheckBoth(s, 0, i.rm)
      f == Arithmetic(i.reg, St(s, 0), St(s, i.rm))
      r == Raise(t, f[1], f[2])
      u == fpu_check_exceptions(r)
      dst == Float(f[1], f[2])
  IN CASE Either(s, 0, i.rm) -> t
       [] ~Either(s, 0, i.rm) /\ Stops(r) -> u
       [] OTHER -> IF i.op = \hD8 THEN fpu_set_st(u, 0, dst) ELSE PopIf(i.op = \hDE, fpu_set_st(u, i.rm, dst))

(* FCOM and FCOMP; FUCOM and FUCOMP; FUCOMPP.  An empty register sets the     *)
(* conditions and is then compared.                                           *)
fpu_compare(s, k, unordered, pops) ==
  LET t == CheckBoth(s, 0, k)
      u == IF Either(s, 0, k) THEN With(t, Unordered) ELSE t
      v == fpu_fcom(u, St(u, 0), St(u, k), unordered)
  IN CASE pops = 0 \/ ComparisonStops(u, St(u, 0), St(u, k), unordered) -> v
       [] OTHER -> PopIf(pops = 2, fpu_pop(v))
fcompp(i, s) ==
  LET t == CheckBoth(s, 0, i.rm)
      u == fpu_check_exceptions(t)
      v == fpu_fcom(t, St(t, 0), St(t, 1), FALSE)
  IN CASE Either(s, 0, i.rm) -> IF Stops(t) THEN u ELSE With(u, Unordered)
       [] ~Either(s, 0, i.rm) /\ ComparisonStops(t, St(t, 0), St(t, 1), FALSE) -> v
       [] OTHER -> fpu_pop(fpu_pop(v))
fpu_compare_flags(i, s) ==
  LET t == CheckBoth([s EXCEPT !.eflags = {}], 0, i.rm)
      a == St(s, 0)
      b == St(s, i.rm)
      v == fpu_fcomi(t, a, b, i.reg = 5)
  IN IF Either(s, 0, i.rm) THEN [t EXCEPT !.eflags = {"ZF", "PF", "CF"}]
     ELSE PopIf(i.op = \hDF /\ ~ComparisonStops(t, a, b, i.reg = 5), v)

(* FLD, FXCH, FST and FSTP, FFREE and FFREEP.                                 *)
fld(i, s) ==
  LET t == fpu_check_stack_underflow(s, i.rm, TRUE)
  IN IF IsEmpty(s, i.rm) THEN t ELSE PushChecked(t, St(s, i.rm))
fxch(i, s) ==
  LET t == CheckBoth(s, 0, 1)
  IN IF Either(s, 0, 1) THEN t ELSE fpu_set_st(fpu_set_st(t, 0, St(s, i.rm)), i.rm, St(s, 0))
fst(i, s) ==
  LET t == fpu_check_stack_underflow(s, 0, TRUE)
  IN IF IsEmpty(s, 0) THEN PopIf("I" \in s.masks, t)
     ELSE PopIf(i.reg = 3 \/ i.op = \hDF, fpu_set_st(t, i.rm, St(s, 0)))
ffree(i, s) == PopIf(i.op = \hDF, fpu_set_tag(s, i.rm, "empty"))

(* FCMOVcc gives up if both registers are empty.                              *)
fcmov(i, s) ==
  LET t == fpu_check_stack_underflow(s, 0, TRUE)
      u == IF IsEmpty(s, 0) THEN fpu_check_stack_underflow(t, i.rm, TRUE) ELSE t
  IN IF ~(IsEmpty(s, 0) /\ IsEmpty(s, i.rm)) /\ Condition(s, i.reg) # (i.op = \hDB)
     THEN fpu_set_st(u, 0, St(s, i.rm)) ELSE u

(* D9 4: FCHS, FABS, FTST, FXAM; the others store what they read.             *)
fxam(s) ==
  LET v == St(s, 0)
      codes == CASE IsEmpty(s, 0) -> 5
                 [] ~IsEmpty(s, 0) /\ v.class = "unsupported" -> 0
                 [] ~IsEmpty(s, 0) /\ v.class \in {"qnan", "snan"} -> 1
                 [] ~IsEmpty(s, 0) /\ v.class = "inf" -> 3
                 [] ~IsEmpty(s, 0) /\ v.class = "zero" -> 4
                 [] ~IsEmpty(s, 0) /\ v.class = "denormal" -> 6
                 [] OTHER -> 2
      bit(k, c) == IF (codes \div k) % 2 = 1 THEN {c} ELSE {}
  IN SET_C(s, Conditions, bit(1, "C0") \cup bit(2, "C2") \cup bit(4, "C3") \cup IF v.neg THEN C1 ELSE {})
fpu_sign(i, s) ==
  LET t == fpu_check_stack_underflow(s, 0, TRUE)
      v == St(s, 0)
  IN CASE i.rm = 5 -> fxam(s)
       [] i.rm # 5 /\ IsEmpty(s, 0) -> t
       [] i.rm = 4 /\ ~IsEmpty(s, 0) -> fpu_fcom(t, v, Zero, FALSE)
       [] OTHER -> fpu_set_st(t, 0, CASE i.rm = 0 -> Opposite(v) [] i.rm = 1 -> Magnitude(v) [] OTHER -> v)

(* An operation on ST(0), or on it and ST(1); the result goes to register to  *)
(* after pops.                                                                *)
Compute(s, name, args, to, pops) ==
  LET r == Raise(s, name, args)
      u == fpu_check_exceptions(r)
  IN IF Stops(r) THEN u ELSE fpu_set_st(PopIf(pops, u), to, Float(name, args))
One(s, t, name) == IF IsEmpty(s, 0) THEN t ELSE Compute(t, name, <<St(s, 0)>>, 0, FALSE)
Two(s, name, pops) ==
  LET t == CheckBoth(s, 0, 1)
  IN IF Either(s, 0, 1) THEN t ELSE Compute(t, name, <<St(s, 0), St(s, 1)>>, 0, pops)
Split(s, t, first, second) ==
  LET v == <<St(s, 0)>>
      r == Raise(t, first, v)
      u == fpu_check_exceptions(r)
  IN IF Stops(r) THEN u ELSE fpu_push(fpu_set_st(u, 0, Float(first, v)), Float(second, v))

Bits(q, c1, c3, c0) ==
  (IF q % 2 = 1 THEN c1 ELSE {}) \cup (IF (q \div 2) % 2 = 1 THEN c3 ELSE {})
    \cup (IF (q \div 4) % 2 = 1 THEN c0 ELSE {})
(* FPREM1, which looks at no tag and leaves the C1 of an earlier instruction. *)
fprem1(s) ==
  LET args == <<St(s, 0), St(s, 1)>>
      q == Quotient(args)
      r == Raise(s, "fprem1", args)
      u == fpu_check_exceptions(r)
      w == CASE q = -1 -> u
             [] q = 8 -> SET_C(u, Unordered, {"C2"})
             [] OTHER -> SET_C(u, Unordered, Bits(q, C1, {"C3"}, {"C0"}))
  IN IF Stops(r) THEN u ELSE fpu_set_st(w, 0, Float("fprem1", args))
fprem(s) ==
  LET t == CheckBoth(s, 0, 1)
      args == <<St(s, 0), St(s, 1)>>
      q == Quotient(args)
      r == Raise(t, "fprem", args)
      u == fpu_check_exceptions(r)
      w == SET_C(u, Conditions, CASE q = -1 -> {} [] q = 8 -> {"C2"} [] OTHER -> Bits(q, C1, {"C3"}, {"C0"}))
  IN IF Either(s, 0, 1) THEN t ELSE IF Stops(r) THEN u ELSE fpu_set_st(w, 0, Float("fprem", args))
fptan(s) ==
  LET v == St(s, 0)
      t == fpu_check_stack_underflow(s, 0, TRUE)
  IN IF IsEmpty(s, 0) \/ OutOfRange(v) THEN t ELSE fpu_set_st(t, 0, Float("tan", <<v>>))
fpu_sine(s, name) ==
  LET t == fpu_check_stack_underflow(s, 0, TRUE)
  IN IF ~IsEmpty(s, 0) /\ OutOfRange(St(s, 0)) THEN With(t, {"C2"}) ELSE One(s, t, name)
fsincos(s) ==
  LET t == fpu_check_stack_underflow(s, 0, TRUE)
      u == fpu_check_stack_overflow(t)
  IN CASE IsEmpty(s, 0) -> t
       [] ~IsEmpty(s, 0) /\ ~IsEmpty(s, -1) -> u
       [] ~IsEmpty(s, 0) /\ IsEmpty(s, -1) /\ OutOfRange(St(s, 0)) -> With(u, {"C2"})
       [] OTHER -> Split(s, u, "sin", "cos")
fxtract(s) ==
  LET t == fpu_check_stack_underflow(s, 0, TRUE)
      u == fpu_check_stack_overflow(t)
  IN IF IsEmpty(s, 0) THEN t ELSE IF ~IsEmpty(s, -1) THEN u ELSE Split(s, u, "exponent", "significand")

(* D9 6 and D9 7.                                                             *)
fpu_complex(i, s) ==
  LET t == fpu_check_stack_underflow(s, 0, TRUE)
  IN CASE i.rm = 0 -> One(s, t, "f2xm1")
       [] i.rm = 1 -> Two(s, "fyl2x", TRUE)
       [] i.rm = 2 -> fptan(s)
       [] i.rm = 3 -> Two(s, "fpatan", TRUE)
       [] i.rm = 4 -> fxtract(s)
       [] i.rm = 5 -> fprem1(s)
       [] i.rm = 6 -> Turn(SET_C(s, C1, {}), 7)
       [] i.rm = 7 -> Turn(SET_C(s, C1, {}), 1)
fpu_complex2(i, s) ==
  LET t == fpu_check_stack_underflow(s, 0, TRUE)
  IN CASE i.rm = 0 -> fprem(s)
       [] i.rm = 1 -> Two(s, "fyl2xp1", TRUE)
       [] i.rm = 2 -> One(s, t, "sqrt")
       [] i.rm = 3 -> fsincos(s)
       [] i.rm = 4 -> One(s, t, "round")
       [] i.rm = 5 -> Two(s, "scale", FALSE)
       [] i.rm = 6 -> fpu_sine(s, "sin")
       [] i.rm = 7 -> fpu_sine(s, "cos")

fnclex(i, s) ==
  CASE i.rm \in {0, 1, 4} -> s
    [] i.rm = 2 -> Unless(s, Exceptions \cup {"SF", "ES"})
    [] i.rm = 3 -> fninit(s)
    [] OTHER -> [s EXCEPT !.fault = "UD"]
fnstsw(i, s) == IF i.rm # 0 THEN [s EXCEPT !.fault = "UD"] ELSE [s EXCEPT !.out = <<"AX", s.sw, s.top>>]

(* DB 7 has no case and ends the process, as an exception does.               *)
fpu_reg_op(i, s0) ==
  LET at == <<i.op, i.reg>>
      w == fpu_fwait(s0)
      s == fpu_update_pointers(i, w)
      unknown == {<<\hDA, 4>>, <<\hDA, 6>>, <<\hDA, 7>>, <<\hDD, 6>>, <<\hDD, 7>>, <<\hDF, 7>>, <<\hDB, 7>>}
  IN IF at \in unknown THEN [s0 EXCEPT !.fault = "UD"]
     ELSE IF at = <<\hDB, 4>> THEN fnclex(i, s0)
     ELSE IF at = <<\hDF, 4>> THEN fnstsw(i, s0)
     ELSE IF w.fault # "" THEN w
     ELSE
     CASE i.op \in {\hD8, \hDC, \hDE} /\ i.reg \notin {2, 3} -> fpu_arith(i, s)
       [] at \in {<<\hD8, 2>>, <<\hDC, 2>>} -> fpu_compare(s, i.rm, FALSE, 0)
       [] at \in {<<\hD8, 3>>, <<\hDC, 3>>, <<\hDE, 2>>} -> fpu_compare(s, i.rm, FALSE, 1)
       [] at = <<\hDE, 3>> -> fcompp(i, s)
       [] at = <<\hDA, 5>> -> IF i.rm = 1 THEN fpu_compare(s, 1, TRUE, 2) ELSE s
       [] at \in {<<\hDD, 4>>, <<\hDD, 5>>} -> fpu_compare(s, i.rm, TRUE, i.reg - 4)
       [] i.op \in {\hDB, \hDF} /\ i.reg \in {5, 6} -> fpu_compare_flags(i, s)
       [] i.op \in {\hDA, \hDB} /\ i.reg \in 0 .. 3 -> fcmov(i, s)
       [] at = <<\hD9, 0>> -> fld(i, s)
       [] at \in {<<\hD9, 1>>, <<\hDD, 1>>, <<\hDF, 1>>} -> fxch(i, s)
       [] at = <<\hD9, 2>> -> s
       [] at = <<\hD9, 4>> -> fpu_sign(i, s)
       [] at = <<\hD9, 5>> -> PushChecked(s, IF i.rm = 7 THEN Indefinite ELSE Constant(i.rm))
       [] at = <<\hD9, 6>> -> fpu_complex(i, s)
       [] at = <<\hD9, 7>> -> fpu_complex2(i, s)
       [] at \in {<<\hD9, 3>>, <<\hDD, 2>>, <<\hDD, 3>>, <<\hDF, 2>>, <<\hDF, 3>>} -> fst(i, s)
       [] at \in {<<\hDD, 0>>, <<\hDF, 0>>} -> ffree(i, s)

-----------------------------------------------------------------------------
(* fpu_mem_op, by groups of its cases *)

(* Arithmetic, comparison and FLD of floating-point numbers and integers of   *)
(* up to 32 bits: the operand is converted first.                             *)
fpu_arith_mem(i, s) ==
  LET t == [s EXCEPT !.flags = ExtensionRaises(i)]
      temp80 == Extended(i)
      u == fpu_check_stack_underflow(t, 0, TRUE)
      f == Arithmetic(i.reg, St(s, 0), temp80)
      r == Raise(u, f[1], f[2])
      v == fpu_check_exceptions(r)
  IN CASE IsEmpty(s, 0) -> IF i.reg \in {2, 3} THEN With(u, Unordered) ELSE u
       [] ~IsEmpty(s, 0) /\ i.reg \in {2, 3} ->
            PopIf(i.reg = 3 /\ ~ComparisonStops(u, St(s, 0), temp80, FALSE), fpu_fcom(u, St(s, 0), temp80, FALSE))
       [] OTHER -> IF Stops(r) THEN v ELSE fpu_set_st(v, 0, Float(f[1], f[2]))
fld_mem(i, s) ==
  LET t == [s EXCEPT !.flags = ExtensionRaises(i)]
      u == fpu_check_push(t)
  IN IF ~IsEmpty(s, -1) THEN u
     ELSE IF Stops(u) THEN fpu_check_exceptions(u) ELSE fpu_push(fpu_check_exceptions(u), Extended(i))
fld80(i, s) ==
  LET t == fpu_check_stack_overflow(s) IN IF IsEmpty(s, -1) THEN fpu_push(t, i.m) ELSE t
fstp80(s) ==
  LET t == fpu_check_stack_underflow(s, 0, TRUE)
  IN IF IsEmpty(s, 0) THEN t ELSE fpu_pop([t EXCEPT !.out = <<"float80", St(s, 0)>>])

(* The stores collect their exceptions in partial_sw, so that a page fault    *)
(* leaves the status word alone, and commit them when memory is written; in   *)
(* between another thread may do the same with its own (i.race).              *)
Race(i, s) ==
  CASE i.race = "" -> s
    [] i.race = "check" -> [s EXCEPT !.partial = @ \cup {"P"}, !.clear = C1]
    [] i.race = "commit" -> [s EXCEPT !.partial = {}, !.clear = {}]
Stored(s, name) == [s EXCEPT !.out = <<name, Float(name, <<St(s, 0)>>)>>]
Converted(i, s, name) == Raise(fpu_check_stack_underflow(s, 0, FALSE), name, <<St(s, 0)>>)
fst_mem(i, s, name, pops) ==
  LET r == Converted(i, s, name)
      u == Race(i, fpu_check_exceptions2(r, FALSE))
  IN CASE IsEmpty(s, 0) -> fpu_check_stack_underflow(s, 0, FALSE)
       [] ~IsEmpty(s, 0) /\ Stops(r) -> u
       [] OTHER -> PopIf(pops, fpu_commit_sw(Stored(u, name)))
fist(i, s, name, pops) ==
  LET r == Converted(i, s, name)
      u == fpu_check_exceptions2(Race(i, fpu_check_exceptions2(r, FALSE)), FALSE)
  IN CASE IsEmpty(s, 0) -> fpu_check_stack_underflow(s, 0, FALSE)
       [] ~IsEmpty(s, 0) /\ Stops(r) -> fpu_commit_sw(u)
       [] OTHER -> fpu_commit_sw(PopIf(pops, Stored(u, name)))

int64_to_floatx80(neg, n) == Number(IF n = 0 THEN "zero" ELSE "normal", neg, n)
(* Packed decimals: the first byte counts most, all bytes are digits, and the *)
(* sign becomes the top bit of a number that is not negated.                  *)
fbld(i, s) ==
  LET last == i.last
      sum[b \in 0 .. last] == i.m.pairs[b] + IF b = 0 THEN 0 ELSE 100 * sum[b - 1]
      result == sum[last]
  IN PushChecked(s, int64_to_floatx80(i.m.neg, IF i.m.neg THEN Half - result ELSE result))
fbstp(i, s) ==
  LET st0 == St(s, 0)
      r == Raise(s, "int64", <<st0>>)
      u == fpu_check_exceptions(r)
      v == Float("int64", <<st0>>)
      bcd == IF v.neg /\ v.n # 0 THEN 2 * Half - v.n ELSE v.n
      bytes == [b \in 0 .. i.last |-> (bcd \div 100^b) % 100]
  IN IF Stops(r) THEN u ELSE fpu_pop([u EXCEPT !.out = <<"bcd", [neg |-> st0.neg, pairs |-> bytes]>>])

frstor(i, s) == LoadRegisters(fldenv(s, i.m.env, i.short), i.m.regs)
fsave(i, s) ==
  LET t == fstenv(s, i.short) IN fninit([t EXCEPT !.out = <<"state", @[2], Registers(s)>>])
fpu_control(i, s) ==
  CASE i.reg = 4 -> IF i.op = \hD9 THEN fldenv(s, i.m.env, i.short) ELSE frstor(i, s)
    [] i.reg = 5 -> fpu_set_control_word(s, i.m.masks, i.m.rc)
    [] i.reg = 6 -> IF i.op = \hD9 THEN fstenv(s, i.short) ELSE fsave(i, s)
    [] i.reg = 7 -> [s EXCEPT !.out = IF i.op = \hD9 THEN <<"control", s.masks, s.rc>> ELSE <<"status", s.sw, s.top>>]

fpu_mem_op(i, s0) ==
  LET at == <<i.op, i.reg>>
      w == fpu_fwait(s0)
      s == fpu_update_pointers2(i, w)
  IN IF at \in {<<\hD9, 1>>, <<\hDB, 4>>, <<\hDB, 6>>, <<\hDD, 5>>} THEN s0
     ELSE IF i.op \in {\hD9, \hDD} /\ i.reg >= 4 THEN fpu_control(i, s0)
     ELSE IF w.fault # "" THEN w
     ELSE
     CASE i.op \in {\hD8, \hDA, \hDC, \hDE} -> fpu_arith_mem(i, s)
       [] i.op \in {\hD9, \hDB, \hDD, \hDF} /\ i.reg = 0 -> fld_mem(i, s)
       [] i.op \in {\hD9, \hDD} /\ i.reg \in {2, 3} ->
            fst_mem(i, s, IF i.op = \hD9 THEN "float32" ELSE "float64", i.reg = 3)
       [] i.op \in {\hDB, \hDF} /\ i.reg \in {2, 3} -> fist(i, s, IntName[i.op], i.reg = 3)
       [] i.op \in {\hDB, \hDD, \hDF} /\ i.reg = 1 -> fist(i, s, "truncated " \o IntName[i.op], TRUE)
       [] at = <<\hDB, 5>> -> fld80(i, s)
       [] at = <<\hDB, 7>> -> fstp80(s)
       [] at = <<\hDF, 4>> -> fbld(i, s)
       [] at = <<\hDF, 5>> -> PushChecked(s, i.m)
       [] at = <<\hDF, 6>> -> fbstp(i, s)
       [] at = <<\hDF, 7>> -> fst_mem(i, s, "int64", TRUE)

fpu_fxsave(i, s) ==
  LET t == fpu_nm_check(s)
      tags == [p \in 0 .. 7 |-> IF s.tag[p] = "empty" THEN "empty" ELSE "full"]
  IN IF ~i.aligned THEN [s EXCEPT !.fault = "GP"]
     ELSE IF t.fault # "" THEN t
     ELSE [t EXCEPT !.out = <<"extended",
             [masks |-> s.masks, rc |-> s.rc, sw |-> s.sw, top |-> s.top, tags |-> tags, ip |-> s.ip,
              dp |-> s.dp, op |-> s.op], Registers(s), s.mxcsr>>]
fpu_fxrstor(i, s) ==
  LET t == fpu_nm_check(s)
      e == i.m.env
      u == [fpu_set_control_word(s, e.masks, e.rc) EXCEPT
              !.mxcsr = i.m.mxcsr, !.sw = e.sw, !.top = e.top, !.ip = e.ip, !.dp = e.dp, !.op = e.op]
      v == LoadRegisters(u, i.m.regs)
  IN IF ~i.aligned THEN [s EXCEPT !.fault = "GP"]
     ELSE IF t.fault # "" THEN t
     ELSE IF i.m.mxcsr = "invalid" THEN [s EXCEPT !.fault = "GP"]
     ELSE [v EXCEPT !.tag = [p \in 0 .. 7 |->
                               IF e.tags[p] = "empty" THEN "empty" ELSE fpu_get_tag_from_value(v.st[p])]]

op_fwait(s) == LET t == fpu_nm_check(s) IN IF t.fault # "" THEN t ELSE fpu_fwait(s)

Handler(i, statics) ==
  LET s == i.s @@ [partial |-> statics.partial, clear |-> statics.clear, flags |-> {}]
      t == fpu_nm_check(s)
  IN CASE i.op = \h9B -> op_fwait(s)
       [] i.op = \h0F -> IF i.reg = 0 THEN fpu_fxsave(i, s) ELSE fpu_fxrstor(i, s)
       [] OTHER -> IF t.fault # "" THEN t ELSE IF i.isreg THEN fpu_reg_op(i, s) ELSE fpu_mem_op(i, s)

-----------------------------------------------------------------------------
(* What a program sees: of the tags whether a register is empty.              *)
View(s) ==
  [st |-> s.st, full |-> {p \in 0 .. 7 : s.tag[p] # "empty"}, top |-> s.top, masks |-> s.masks,
   rc |-> s.rc, sw |-> s.sw, ip |-> s.ip, op |-> s.op, dp |-> s.dp, eflags |-> s.eflags, out |-> s.out,
   cr |-> s.cr, mxcsr |-> s.mxcsr, fault |-> s.fault]

Init ==
  /\ insn = <<>> /\ res = <<>> /\ executed = 0
  /\ cpu = [partial |-> {}, clear |-> {}]

(* A store of this thread or of another one.                                  *)
Before ==
  /\ insn = <<>> /\ executed = 0
  /\ \E s \in Machines(cpu), i \in Stores :
       LET t == Handler(i @@ [s |-> s], cpu)
       IN t.fault = "" /\ cpu' = [partial |-> t.partial, clear |-> t.clear]
  /\ executed' = 1 /\ UNCHANGED <<insn, res>>

Run ==
  /\ insn = <<>> /\ executed = 1
  /\ \E s \in Machines(cpu), f \in Insns(cpu) :
       LET i == f @@ [s |-> s] IN insn' = i /\ res' = Handler(i, cpu)
  /\ UNCHANGED <<cpu, executed>>

Next == Before \/ Run

-----------------------------------------------------------------------------
(* Where fpu.c leaves the architecture: the parts of the state that instruction *)
(* i may leave different.  r is what it left, x what it should have.          *)

Is(i, ops, regs) == i.op \in ops /\ i.reg \in regs
(* An underflow or overflow of the stack is answered by fpu_check_push only:  *)
(* elsewhere it is not recorded, its sense is inverted in C1, and neither is  *)
(* the indefinite number produced nor the stack popped.                       *)
StackFault(i, x) == "SF" \in x.sw \ i.s.sw
Checked(i) ==
  IF i.isreg THEN Is(i, {\hD9}, {5}) \/ (Is(i, {\hD9}, {0}) /\ ~IsEmpty(i.s, i.rm))
  ELSE Is(i, {\hD9, \hDB, \hDD, \hDF}, {0}) \/ Is(i, {\hDF}, {4, 5})
FaultIgnored(i, x) == StackFault(i, x) /\ ~Checked(i)
(* P is lost with O or U, and all three with D.                               *)
ExceptionsLost(r) == Kept(r) # r.flags
(* An unmasked O or U keeps a result from its register.                       *)
ResultLost(i, r) == r.flags \cap {"O", "U"} \cap Unmasked(r) # {} /\ (i.isreg \/ i.op \in {\hD8, \hDA, \hDC, \hDE})
(* FXCH tests ST(1), whatever it exchanges; FCMOVcc gives up only if both     *)
(* registers are empty; FPREM1 tests nothing.                                 *)
Unchecked(i, x) ==
  i.isreg /\ CASE Is(i, {\hD9, \hDD, \hDF}, {1}) -> IsEmpty(i.s, 1) # IsEmpty(i.s, i.rm)
               [] Is(i, {\hDA, \hDB}, 0 .. 3) \/ (Is(i, {\hD9}, {6}) /\ i.rm = 5) -> StackFault(i, x)
               [] OTHER -> FALSE
(* A denormal in memory raises D even where the other operand is a NaN.       *)
ReadFirst(i) ==
  ~i.isreg /\ i.op \in {\hD8, \hDC} /\ i.m.class = "denormal" /\ St(i.s, 0).class \in NaN
(* FCOMI and FUCOMI clear the flags before they find an unmasked exception.   *)
FlagsCleared(i, x) == i.isreg /\ Is(i, {\hDB, \hDF}, {5, 6}) /\ "ES" \in x.sw
(* FPREM1 keeps an old C1, and if there is no quotient all conditions.        *)
StaleQuotient(i) == i.isreg /\ Is(i, {\hD9}, {6}) /\ i.rm = 5 /\ i.s.sw \cap Conditions # {}
(* FSIN, FCOS and FSINCOS never clear C2.                                     *)
StaleC2(i) == i.isreg /\ Is(i, {\hD9}, {7}) /\ i.rm \in {3, 6, 7} /\ "C2" \in i.s.sw
(* FPTAN replaces ST(0), pushes nothing and looks at no exception.            *)
Fptan(i) == i.isreg /\ Is(i, {\hD9}, {6}) /\ i.rm = 2
(* What the architecture does not define is executed, or does nothing.        *)
Undefined(i, x) ==
  /\ x.fault = "UD"
  /\ IF i.isreg THEN i.op = \hD9 \/ Is(i, {\hDA}, {5}) \/ Is(i, {\hDE}, {3})
     ELSE i.reg \in {1, 4, 5, 6}
(* FLDCW, FLDENV and FRSTOR do not wait for a pending exception, and FLDCW    *)
(* does not look for one that it unmasks.                                     *)
NoWait(i) == ~i.isreg /\ (Is(i, {\hD9}, {4, 5}) \/ Is(i, {\hDD}, {4})) /\ "ES" \in i.s.sw
StaleSummary(i) == ~i.isreg /\ Is(i, {\hD9}, {5})
(* FSTENV does not mask the exceptions, and the tag of -0 is that of a number.*)
NotMasked(i) == ~i.isreg /\ Is(i, {\hD9}, {6})
NegativeZero(i) ==
  ~i.isreg /\ Is(i, {\hD9, \hDD}, {6}) /\ \E p \in 0 .. 7 : i.s.tag[p] # "empty" /\ i.s.st[p] = Opposite(Zero)
(* The alignment of the area of FXSAVE is tested before the task switch flag, *)
(* and FWAIT heeds the emulation flag, and TS without MP.                     *)
WrongFault(i) == i.s.cr # {} /\ (i.op = \h9B \/ (i.op = \h0F /\ ~i.aligned))
(* What a store collects reaches the status word of another: its own is kept  *)
(* in the statics if an unmasked exception ends it, or if another thread's    *)
(* store comes in between, and an earlier store's is still there.             *)
IsStore(i) == ~i.isreg /\ (Is(i, {\hD9, \hDB, \hDD, \hDF}, {1, 2, 3}) \/ Is(i, {\hDF}, {7}))
Mixed(i, r) ==
  IsStore(i) /\ (i.race # "" \/ cpu.partial \cup cpu.clear # {} \/ r.partial # {})
(* Packed decimals.                                                           *)
Fbld(i) == ~i.isreg /\ Is(i, {\hDF}, {4})
Fbstp(i) ==
  LET v == St(i.s, 0)
  IN /\ ~i.isreg /\ Is(i, {\hDF}, {6})
     /\ \/ IsEmpty(i.s, 0) \/ "C1" \in i.s.sw \/ v.neg
        \/ v.class \in NaN \cup {"inf"} \/ v.n >= 100^i.last

Deviates(i, r, x) ==
  LET devs ==
    {<<FaultIgnored(i, x), {"sw"} \cup IF Quiet(i.s) THEN {"st", "full", "top", "out"} ELSE {}>>,
     <<ExceptionsLost(r), {"sw"}>>,
     <<ResultLost(i, r), {"st", "full", "top"}>>,
     <<Unchecked(i, x), {"sw", "st", "full"}>>,
     <<ReadFirst(i), {"sw", "st", "full", "top"}>>,
     <<FlagsCleared(i, x), {"eflags"}>>,
     <<StaleQuotient(i) \/ StaleC2(i) \/ StaleSummary(i) \/ Mixed(i, r), {"sw"}>>,
     <<Fptan(i), {"st", "full", "top", "sw"}>>,
     <<Undefined(i, x) \/ NoWait(i), DOMAIN x>>,
     <<NotMasked(i), {"masks", "sw"}>>,
     <<NegativeZero(i), {"out"}>>,
     <<WrongFault(i), {"fault"}>>,
     <<Fbld(i), {"st"}>>,
     <<Fbstp(i), {"out", "sw", "full", "top"}>>}
  IN UNION {d[2] : d \in {e \in devs : e[1]}}

(* An instruction leaves what the architecture specifies, but for those.      *)
Conforms ==
  insn' # <<>> =>
    LET seen == View(res')
        specified == Specified(insn', View(insn'.s))
    IN \/ seen = specified
       \/ \A part \in DOMAIN seen \ Deviates(insn', res', specified) : seen[part] = specified[part]
=============================================================================
