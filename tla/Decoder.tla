------------------------------- MODULE Decoder --------------------------------
(* The decoder of the interpreter (decoder.c): it measures an instruction, so *)
(* that none is read past the end of its page unseen, and turns its bytes     *)
(* into a handler with operands.  A handler is a name, and its operands are   *)
(* what it will access: a place in the register file, the parts of an address,*)
(* or a constant by the bytes that were stored in the instruction's fields.   *)
(* The state s of the decoder is the instruction, the position at of rawp, the*)
(* two bits of state_hash, seg_prefix as the pair seg, the REP bits in flags, *)
(* and sse_prefix.                                                            *)
EXTENDS X86Decode, FiniteSets
LOCAL INSTANCE SequencesExt

CONSTANTS Groups(_),   \* the instructions to decode, given seg_prefix, in groups
          Insns(_)     \* the instructions of a group

VARIABLES insn, res, cpu, executed
vars == <<insn, res, cpu, executed>>

-----------------------------------------------------------------------------
(* What the tables say of an opcode *)

optable(op) ==
  [modrm |-> \/ op < \h40 /\ op % 8 < 4
             \/ op \in (\h80 .. \h8F) \cup (\hD0 .. \hD3) \cup (\hD8 .. \hDF)
                         \cup {\h62, \h63, \h69, \h6B, \hC0, \hC1, \hC4, \hC5, \hC6, \hC7, \hF6, \hF7, \hFE, \hFF},
   moffs |-> op \in \hA0 .. \hA3,
   imm8 |-> \/ op < \h40 /\ op % 8 = 4
            \/ op \in (\h70 .. \h7F) \cup (\hB0 .. \hB7) \cup (\hE0 .. \hE7)
                        \cup {\h6A, \h6B, \h80, \h82, \h83, \hA8, \hC0, \hC1, \hC6, \hC8, \hCD, \hD4, \hD5, \hEB},
   immv |-> \/ op < \h40 /\ op % 8 = 5
            \/ op \in (\hB8 .. \hBF) \cup {\h68, \h69, \h81, \h9A, \hA9, \hC7, \hC8, \hCA, \hE8, \hE9, \hEA},
   imm16 |-> op \in {\h9A, \hC2, \hEA},
   lock |-> \/ op < \h38 /\ op % 8 < 2
            \/ op \in {\h80, \h81, \h83, \h86, \h87, \hFE, \hFF}]
optable0F(op) ==
  [modrm |-> op \in ((\h00 .. \h03) \cup (\h10 .. \h17) \cup (\h19 .. \h1F) \cup {\h20, \h22} \cup (\h28 .. \h2F)
                     \cup (\h40 .. \h7F) \cup (\h90 .. \h9F) \cup (\hA3 .. \hA5) \cup (\hAB .. \hB7)
                     \cup (\hBA .. \hC7) \cup (\hD0 .. \hEF) \cup (\hF1 .. \hFE)),
   moffs |-> FALSE,
   imm8 |-> op \in (\h70 .. \h73) \cup {\h21, \h23, \hA4, \hAC, \hBA},
   immv |-> op \in \h80 .. \h8F,
   imm16 |-> FALSE,
   lock |-> op \in {\hAB, \hB0, \hB1, \hB3, \hBA, \hBB, \hC0, \hC1, \hC7}]

(* The bytes of an address, by the ModR/M and SIB bytes.                      *)
Displaced(i, a16) ==
  IF i.modrm >= \hC0 THEN 0
  ELSE IF a16
  THEN CASE i.modrm \div 64 = 0 -> IF i.modrm % 8 = 6 THEN 2 ELSE 0 [] OTHER -> i.modrm \div 64
  ELSE LET both == 8 * (i.modrm \div 64) + (i.modrm % 8)
       IN CASE both = 4 -> IF i.sib % 8 = 5 THEN 5 ELSE 1
            [] both = 12 -> 2
            [] both = 20 -> 5
            [] both \in {5} \cup (16 .. 19) \cup (21 .. 23) -> 4
            [] both \in (8 .. 11) \cup (13 .. 15) -> 1
            [] OTHER -> 0

(* The length of what is left of i after a number of its prefixes; -1 if that *)
(* is more than max_bytes.                                                    *)
find_instruction_length(i, from, max_bytes) ==
  LET left == {i.prefixes[k] : k \in from + 1 .. Len(i.prefixes)}
      c16 == \h66 \in left
      info == IF i.escape THEN optable0F(i.op) ELSE optable(i.op)
      test == ~i.escape /\ i.op \in {\hF6, \hF7} /\ (i.modrm \div 8) % 8 < 2
      len == Len(i.prefixes) - from + (IF i.escape THEN 2 ELSE 1)
               + (IF info.modrm THEN 1 + Displaced(i, \h67 \in left) ELSE 0)
               + (IF info.moffs THEN IF \h67 \in left THEN 2 ELSE 4 ELSE 0)
               + (IF info.imm8 \/ (test /\ i.op = \hF6) THEN 1 ELSE 0)
               + (IF info.imm16 THEN 2 ELSE 0)
               + (IF info.immv \/ (test /\ i.op = \hF7) THEN IF c16 THEN 2 ELSE 4 ELSE 0)
  IN IF len > max_bytes THEN -1 ELSE len

-----------------------------------------------------------------------------
(* Reading what follows the opcode *)

v(s) == IF s.c16 THEN 16 ELSE 32
a(s) == IF s.a16 THEN 16 ELSE 32

(* A constant of n bytes, extended to the field of the instruction it is kept *)
(* in, and what a handler sees that reads w bits of the field.                *)
rb(at) == [at |-> at, n |-> 1, signed |-> FALSE, field |-> 32]
imm8(at) == [rb(at) EXCEPT !.field = 8]
rbs(at) == [rb(at) EXCEPT !.signed = TRUE]
rw(at) == [rb(at) EXCEPT !.n = 2]
rv(s, at) == [rb(at) EXCEPT !.n = v(s) \div 8]
rvs(s, at) == [rv(s, at) EXCEPT !.signed = TRUE]
Imm(x, w) ==
  <<"imm", x.at, IF w > x.field THEN -1 ELSE IF 8 * x.n < w THEN 8 * x.n ELSE w,
    IF x.signed /\ 8 * x.n < w THEN w ELSE 0>>

R8(n) == 4 * (n % 4) + (n \div 4)
Rv(s, n) == IF s.c16 THEN 2 * n ELSE n

EZR == None
addr16_lut == <<<<3, 6>>, <<3, 7>>, <<5, 6>>, <<5, 7>>, <<6, EZR>>, <<7, EZR>>, <<EZR, EZR>>, <<3, EZR>>>>
addr16_lut2 == [addr16_lut EXCEPT ![7] = <<5, EZR>>]
IsStack16 == {2, 3}
IsStack16Displaced == {2, 3, 6}

(* An address of 16 bits: base, index, default segment and displacement.      *)
parse_modrm16(s, at) ==
  LET rm == s.i.modrm % 8
      mod == s.i.modrm \div 64
      f(lut, stack, n) ==
        [base |-> lut[rm + 1][1], index |-> lut[rm + 1][2], scale |-> 0,
         seg |-> s.seg[IF rm \in stack THEN 2 ELSE 1], disp |-> n, dispAt |-> IF n = 0 THEN 0 ELSE at, at |-> at + n]
  IN CASE mod = 0 -> f(addr16_lut, IsStack16, IF rm = 6 THEN 2 ELSE 0)
       [] OTHER -> f(addr16_lut2, IsStack16Displaced, mod)

(* An address of 32 bits.  addr32_lut and addr32_lut2 choose SS for EBP, and  *)
(* with a SIB byte for ESP.                                                   *)
parse_modrm32(s, at) ==
  LET rm == s.i.modrm % 8
      mod == s.i.modrm \div 64
      sib == s.i.sib
      f(base, index, scale, stack, here, n) ==
        [base |-> base, index |-> index, scale |-> scale, seg |-> s.seg[IF stack THEN 2 ELSE 1],
         disp |-> n, dispAt |-> IF n = 0 THEN 0 ELSE here, at |-> here + n]
      index == (sib \div 8) % 8
      withSib(n) ==
        LET base == sib % 8
            none == mod = 0 /\ base = 5
        IN f(IF none THEN EZR ELSE base, IF index = 4 THEN EZR ELSE index, IF index = 4 THEN 0 ELSE sib \div 64,
             ~none /\ base \in {4, 5}, at + 1, IF none THEN 4 ELSE n)
      n == <<0, 1, 4>>[mod + 1]
  IN CASE rm = 4 -> withSib(n)
       [] mod = 0 /\ rm = 5 -> f(EZR, EZR, 0, FALSE, at, 4)
       [] OTHER -> f(rm, EZR, 0, rm = 5, at, n)

(* is8 tells how the two registers are numbered: 0 by the operand size, 1 as  *)
(* bytes, 2 with REG as it is, 6 with both, and 3 with R/M as a byte.         *)
parse_modrm(s, is8) ==
  LET rm == s.i.modrm % 8
      reg == (s.i.modrm \div 8) % 8
      mem == s.i.modrm < \hC0
      where == CASE ~mem -> [base |-> 0, index |-> 0, scale |-> 0, seg |-> 0, disp |-> 0, dispAt |-> 0, at |-> s.at + 1]
                 [] s.a16 -> parse_modrm16(s, s.at + 1)
                 [] OTHER -> parse_modrm32(s, s.at + 1)
  IN where @@
     [mem |-> mem, a |-> a(s),
      reg |-> CASE is8 \in {0, 3} -> Rv(s, reg) [] is8 = 1 -> R8(reg) [] OTHER -> reg,
      rm |-> CASE is8 = 6 -> rm [] is8 \in {1, 3} -> R8(rm) [] OTHER -> Rv(s, rm)]
swap_rm_reg(f) == [f EXCEPT !.rm = f.reg, !.reg = f.rm]

(* The operands of handlers.                                                  *)
R(index, w) == <<"reg", index * (w \div 8), w>>
M(f, w) == <<"mem", w, f.seg, f.base, f.index, f.scale, f.dispAt, f.disp, f.a>>
RM(f, w) == IF f.mem THEN M(f, w) ELSE R(f.rm, w)
G(f, w) == R(f.reg, w)

H(name, ops, at) == [name |-> name, ops |-> ops, at |-> at, ends |-> FALSE]
End(h) == [h EXCEPT !.ends = TRUE]
op_ud_exception(at) == End(H(<<"ud">>, <<>>, at))
CPU_FATAL(at) == End(H(<<"fatal">>, <<>>, at))
decode_ud(s) == op_ud_exception(s.at)
decode_invalid(s) == op_ud_exception(s.at - 1)

(* Handlers for memory and registers with R/M first, with REG first where R/M *)
(* of a register handler is REG of the instruction, and with REG as it is.    *)
HofEG(f, name, w) == H(name, <<RM(f, w), G(f, w)>>, f.at)
HofGE(f, r, name, w) == H(name, IF f.mem THEN <<G(f, w), M(f, w)>> ELSE <<RM(r, w), G(r, w)>>, f.at)
HofLoad(f, name, w, from) == H(name, <<G(f, w), RM(f, from)>>, f.at)
HofE(f, name, w) == H(name, <<RM(f, w)>>, f.at)
HofEI(f, name, w, x, n) == H(name, <<RM(f, w), Imm([x EXCEPT !.at = f.at], w)>>, f.at + n)
EG(s, is8, name, w) == HofEG(parse_modrm(s, is8), name, w)
GE(s, is8, name, w) == HofGE(parse_modrm(s, is8), swap_rm_reg(parse_modrm(s, is8)), name, w)
Load(s, is8, name, w, from) == HofLoad(parse_modrm(s, is8), name, w, from)
E(s, is8, name, w) == HofE(parse_modrm(s, is8), name, w)
EI(s, is8, name, w, x, n) == HofEI(parse_modrm(s, is8), name, w, x, n)
(* Only memory has a handler.                                                 *)
MemOnly(s, h) == IF s.i.modrm >= \hC0 THEN op_ud_exception(s.at + 1) ELSE h
GroupReg(s) == (s.i.modrm \div 8) % 8

-----------------------------------------------------------------------------
(* The functions of the one-byte opcodes *)

Low(s) == s.i.op % 8
(* Conditional jumps, moves and sets; constants and stack of a register.      *)
decode_jcc8(s) == H(<<"jcc", s.i.op % 16, v(s)>>, <<Imm(rbs(s.at), v(s))>>, s.at + 1)
decode_jccv(s) == H(<<"jcc", s.i.op % 16, v(s)>>, <<Imm(rvs(s, s.at), v(s))>>, s.at + (v(s) \div 8))
decode_cmov(s) == Load(s, 0, <<"cmov", s.i.op % 16>>, v(s), v(s))
decode_setcc(s) == E(s, 1, <<"setcc", s.i.op % 16>>, 8)
decode_mov_rbib(s) == H(<<"mov">>, <<R(R8(Low(s)), 8), Imm(rb(s.at), 8)>>, s.at + 1)
decode_mov_rviv(s) == H(<<"mov">>, <<R(Rv(s, Low(s)), v(s)), Imm(rv(s, s.at), v(s))>>, s.at + (v(s) \div 8))
decode_rv(s, name) == H(name, <<R(Rv(s, Low(s)), v(s))>>, s.at)
decode_sv(s, name, n) == H(<<name, v(s)>>, <<<<"seg", n>>>>, s.at)

decode_fpu(s) ==
  LET f == parse_modrm(s, 2)
      name == <<"fpu", s.i.op % 8, s.i.modrm, v(s)>>
  IN IF f.mem THEN H(name, <<M(f, 0)>>, f.at) ELSE H(name, <<>>, s.at + 1)

decode_arith(s) ==
  LET name == <<"arith", (s.i.op \div 8) % 8>>
  IN CASE Low(s) = 0 -> EG(s, 1, name, 8)
       [] Low(s) = 1 -> EG(s, 0, name, v(s))
       [] Low(s) = 2 -> GE(s, 1, name, 8)
       [] Low(s) = 3 -> GE(s, 0, name, v(s))
       [] Low(s) = 4 -> H(name, <<R(0, 8), Imm(imm8(s.at), 8)>>, s.at + 1)
       [] OTHER -> H(name, <<R(0, v(s)), Imm(rv(s, s.at), v(s))>>, s.at + (v(s) \div 8))
decode_xchg(s) == H(<<"xchg">>, <<R(0, v(s)), R(Rv(s, Low(s)), v(s))>>, s.at)

decode_27_3F(s) ==
  CASE s.i.op = \h27 -> H(<<"daa">>, <<>>, s.at) [] s.i.op = \h2F -> H(<<"das">>, <<>>, s.at)
    [] s.i.op = \h37 -> H(<<"aaa">>, <<>>, s.at) [] s.i.op = \h3F -> H(<<"aas">>, <<>>, s.at)
    [] s.i.op = \h38 -> EG(s, 1, <<"cmp">>, 8)
    [] s.i.op = \h39 -> EG(s, 0, <<"cmp">>, v(s))
    [] s.i.op = \h3A -> GE(s, 1, <<"cmp">>, 8)
    [] s.i.op = \h3B -> GE(s, 0, <<"cmp">>, v(s))
    [] s.i.op = \h3C -> H(<<"cmp">>, <<R(0, 8), Imm(imm8(s.at), 8)>>, s.at + 1)
    [] OTHER -> H(<<"cmp">>, <<R(0, v(s)), Imm(rv(s, s.at), v(s))>>, s.at + (v(s) \div 8))

(* String instructions keep the REP bits; those with a source its segment.    *)
StringInsn(s, name, source) ==
  H(<<name, IF s.i.op % 2 = 0 THEN 8 ELSE v(s), a(s)>>,
    IF source THEN <<<<"rep", s.rep>>, <<"seg", s.seg[1]>>>> ELSE <<<<"rep", s.rep>>>>, s.at)
Imul3(s, x, n) ==
  LET f == parse_modrm(s, 0)
  IN H(<<"imul3">>, <<G(f, v(s)), RM(f, v(s)), Imm([x EXCEPT !.at = f.at], v(s))>>, f.at + n)
decode_60_6F(s) ==
  CASE s.i.op = \h60 -> H(<<"pusha", v(s)>>, <<>>, s.at)
    [] s.i.op = \h61 -> H(<<"popa", v(s)>>, <<>>, s.at)
    [] s.i.op = \h62 -> MemOnly(s, Load(s, 0, <<"bound">>, v(s), 2 * v(s)))
    [] s.i.op = \h63 -> EG([s EXCEPT !.c16 = TRUE], 0, <<"arpl">>, 16)
    [] s.i.op = \h68 -> H(<<"push", v(s)>>, <<Imm(rv(s, s.at), v(s))>>, s.at + (v(s) \div 8))
    [] s.i.op = \h69 -> Imul3(s, rvs(s, 0), v(s) \div 8)
    [] s.i.op = \h6A -> H(<<"push", v(s)>>, <<Imm(rbs(s.at), v(s))>>, s.at + 1)
    [] s.i.op = \h6B -> Imul3(s, rbs(0), 1)
    [] s.i.op \in {\h6C, \h6D} -> StringInsn(s, "ins", FALSE)
    [] OTHER -> StringInsn(s, "outs", TRUE)

ArithOrCmp(s) == IF GroupReg(s) = 7 THEN <<"cmp">> ELSE <<"arith", GroupReg(s)>>
decode_80_85(s) ==
  CASE s.i.op \in {\h80, \h82} -> EI(s, 1, ArithOrCmp(s), 8, imm8(0), 1)
    [] s.i.op = \h81 -> EI(s, 0, ArithOrCmp(s), v(s), rvs(s, 0), v(s) \div 8)
    [] s.i.op = \h83 -> EI(s, 0, ArithOrCmp(s), v(s), rbs(0), 1)
    [] s.i.op = \h84 -> EG(s, 1, <<"test">>, 8)
    [] OTHER -> EG(s, 0, <<"test">>, v(s))
decode_86_8F(s) ==
  LET sreg == <<"seg", GroupReg(s)>>
  IN CASE s.i.op = \h86 -> EG(s, 1, <<"xchg">>, 8)
       [] s.i.op = \h87 -> EG(s, 0, <<"xchg">>, v(s))
       [] s.i.op = \h88 -> EG(s, 1, <<"mov">>, 8)
       [] s.i.op = \h89 -> EG(s, 0, <<"mov">>, v(s))
       [] s.i.op = \h8A -> GE(s, 1, <<"mov">>, 8)
       [] s.i.op = \h8B -> GE(s, 0, <<"mov">>, v(s))
       [] s.i.op = \h8C -> LET f == parse_modrm(s, 2)
                           IN H(<<"mov">>, <<RM(f, IF f.mem THEN 16 ELSE v(s)), sreg>>, f.at)
       [] s.i.op = \h8D -> MemOnly(s, Load(s, 0, <<"lea">>, v(s), 0))
       [] s.i.op = \h8E -> LET f == parse_modrm([s EXCEPT !.c16 = TRUE], 2)
                           IN H(<<"mov">>, <<sreg, RM(f, 16)>>, f.at)
       [] OTHER -> E(s, 0, <<"pop", v(s)>>, v(s))

(* A constant address, in the segment of a prefix.                            *)
Moffs(s, w) == <<"mem", w, s.seg[1], EZR, EZR, 0, s.at, a(s) \div 8, a(s)>>
FarPointer(s, name) ==
  LET off == v(s) \div 8
  IN End(H(name, <<Imm(rv(s, s.at), v(s)), Imm([rw(s.at + off) EXCEPT !.field = 16], 16)>>, s.at + off + 2))
decode_90_A3(s) ==
  CASE s.i.op = \h90 -> H(<<"nop">>, <<>>, s.at)
    [] s.i.op = \h98 -> H(<<"cbw", v(s)>>, <<>>, s.at)
    [] s.i.op = \h99 -> H(<<"cwd", v(s)>>, <<>>, s.at)
    [] s.i.op = \h9A -> FarPointer(s, <<"callf", v(s)>>)
    [] s.i.op = \h9B -> H(<<"fwait">>, <<>>, s.at)
    [] s.i.op = \h9C -> H(<<"pushf", v(s)>>, <<>>, s.at)
    [] s.i.op = \h9D -> H(<<"popf", v(s)>>, <<>>, s.at)
    [] s.i.op = \h9E -> H(<<"sahf">>, <<>>, s.at)
    [] s.i.op = \h9F -> H(<<"lahf">>, <<>>, s.at)
    [] s.i.op = \hA0 -> H(<<"mov">>, <<R(0, 8), Moffs(s, 8)>>, s.at + (a(s) \div 8))
    [] s.i.op = \hA1 -> H(<<"mov">>, <<R(0, v(s)), Moffs(s, v(s))>>, s.at + (a(s) \div 8))
    [] s.i.op = \hA2 -> H(<<"mov">>, <<Moffs(s, 8), R(0, 8)>>, s.at + (a(s) \div 8))
    [] OTHER -> H(<<"mov">>, <<Moffs(s, v(s)), R(0, v(s))>>, s.at + (a(s) \div 8))

decode_A4_AF(s) ==
  CASE s.i.op \in {\hA4, \hA5} -> StringInsn(s, "movs", TRUE)
    [] s.i.op \in {\hA6, \hA7} -> StringInsn(s, "cmps", TRUE)
    [] s.i.op = \hA8 -> H(<<"test">>, <<R(0, 8), Imm(imm8(s.at), 8)>>, s.at + 1)
    [] s.i.op = \hA9 -> H(<<"test">>, <<R(0, v(s)), Imm(rv(s, s.at), v(s))>>, s.at + (v(s) \div 8))
    [] s.i.op \in {\hAA, \hAB} -> StringInsn(s, "stos", FALSE)
    [] s.i.op \in {\hAC, \hAD} -> StringInsn(s, "lods", TRUE)
    [] OTHER -> StringInsn(s, "scas", FALSE)

decode_C0_CF(s) ==
  CASE s.i.op = \hC0 -> EI(s, 1, <<"shift", GroupReg(s)>>, 8, imm8(0), 1)
    [] s.i.op = \hC1 -> LET f == parse_modrm(s, 0)
                        IN H(<<"shift", GroupReg(s)>>, <<RM(f, v(s)), Imm(imm8(f.at), 8)>>, f.at + 1)
    [] s.i.op = \hC2 -> End(H(<<"ret", v(s)>>, <<Imm(rw(s.at), 16)>>, s.at + 2))
    [] s.i.op = \hC3 -> End(H(<<"ret", v(s)>>, <<>>, s.at))
    [] s.i.op = \hC4 -> MemOnly(s, Load(s, 0, <<"les">>, v(s), v(s) + 16))
    [] s.i.op = \hC5 -> MemOnly(s, Load(s, 0, <<"lds">>, v(s), v(s) + 16))
    [] s.i.op \in {\hC6, \hC7} /\ GroupReg(s) # 0 -> op_ud_exception(s.at + 1)
    [] s.i.op = \hC6 -> EI(s, 1, <<"mov">>, 8, imm8(0), 1)
    [] s.i.op = \hC7 -> EI(s, 0, <<"mov">>, v(s), rv(s, 0), v(s) \div 8)
    [] s.i.op = \hC8 -> H(<<"enter", v(s)>>, <<Imm(rw(s.at), 16), Imm(imm8(s.at + 2), 8)>>, s.at + 3)
    [] s.i.op = \hC9 -> H(<<"leave", v(s)>>, <<>>, s.at)
    [] s.i.op = \hCA -> End(H(<<"retf", v(s)>>, <<Imm(rw(s.at), 16)>>, s.at + 2))
    [] s.i.op = \hCB -> End(H(<<"retf", v(s)>>, <<>>, s.at))
    [] s.i.op = \hCC -> End(H(<<"int">>, <<<<"const", 3>>>>, s.at))
    [] s.i.op = \hCD -> End(H(<<"int">>, <<Imm(imm8(s.at), 8)>>, s.at + 1))
    [] s.i.op = \hCE -> H(<<"into">>, <<>>, s.at)
    [] OTHER -> End(H(<<"iret", v(s)>>, <<>>, s.at))

decode_D0_D7(s) ==
  LET shift(is8, w, by) ==
        LET f == parse_modrm(s, is8) IN H(<<"shift", GroupReg(s)>>, <<RM(f, w), by>>, f.at)
  IN CASE s.i.op = \hD0 -> shift(1, 8, <<"const", 1>>)
       [] s.i.op = \hD1 -> shift(0, v(s), <<"const", 1>>)
       [] s.i.op = \hD2 -> shift(1, 8, R(R8(1), 8))
       [] s.i.op = \hD3 -> shift(0, v(s), R(R8(1), 8))
       [] s.i.op = \hD4 -> H(<<"aam">>, <<Imm(imm8(s.at), 8)>>, s.at + 1)
       [] s.i.op = \hD5 -> H(<<"aad">>, <<Imm(imm8(s.at), 8)>>, s.at + 1)
       [] OTHER -> H(<<"xlat", a(s)>>, <<<<"seg", s.seg[1]>>>>, s.at)

decode_E0_EF(s) ==
  LET port == Imm(imm8(s.at), 8)
      DX == R(4, 16)
      A == R(0, IF s.i.op % 2 = 0 THEN 8 ELSE v(s))
  IN CASE s.i.op \in \hE0 .. \hE3 ->
            H(<<<<"loopnz", "loopz", "loop", "jcxz">>[s.i.op - \hDF], v(s), a(s)>>, <<Imm(rbs(s.at), v(s))>>, s.at + 1)
       [] s.i.op \in {\hE4, \hE5} -> H(<<"in">>, <<A, port>>, s.at + 1)
       [] s.i.op \in {\hE6, \hE7} -> H(<<"out">>, <<port, A>>, s.at + 1)
       [] s.i.op = \hE8 -> End(H(<<"call", v(s)>>, <<Imm(rvs(s, s.at), v(s))>>, s.at + (v(s) \div 8)))
       [] s.i.op = \hE9 -> End(H(<<"jmp", v(s)>>, <<Imm(rvs(s, s.at), v(s))>>, s.at + (v(s) \div 8)))
       [] s.i.op = \hEA -> FarPointer(s, <<"jmpf">>)
       [] s.i.op = \hEB -> End(H(<<"jmp", v(s)>>, <<Imm(rbs(s.at), v(s))>>, s.at + 1))
       [] s.i.op \in {\hEC, \hED} -> H(<<"in">>, <<A, DX>>, s.at)
       [] OTHER -> H(<<"out">>, <<DX, A>>, s.at)

decode_F6_F7(s) ==
  LET is8 == IF s.i.op = \hF6 THEN 1 ELSE 0
      w == IF s.i.op = \hF6 THEN 8 ELSE v(s)
  IN CASE GroupReg(s) < 2 -> EI(s, is8, <<"test">>, w, IF is8 = 1 THEN imm8(0) ELSE rv(s, 0), w \div 8)
       [] GroupReg(s) = 2 -> E(s, is8, <<"not">>, w)
       [] GroupReg(s) = 3 -> E(s, is8, <<"neg">>, w)
       [] OTHER -> E(s, is8, <<"muldiv", GroupReg(s)>>, w)
decode_FE_FF(s) ==
  LET is8 == IF s.i.op = \hFE THEN 1 ELSE 0
      w == IF s.i.op = \hFE THEN 8 ELSE v(s)
      f == parse_modrm(s, is8)
  IN CASE GroupReg(s) = 0 -> E(s, is8, <<"inc">>, w)
       [] GroupReg(s) = 1 -> E(s, is8, <<"dec">>, w)
       [] s.i.op = \hFE \/ GroupReg(s) = 7 \/ (GroupReg(s) \in {3, 5} /\ ~f.mem) -> op_ud_exception(f.at)
       [] GroupReg(s) = 2 -> End(E(s, 0, <<"call", w>>, w))
       [] GroupReg(s) = 3 -> End(E(s, 0, <<"callf", w>>, w + 16))
       [] GroupReg(s) = 4 -> End(E(s, 0, <<"jmp", w>>, w))
       [] GroupReg(s) = 5 -> End(E(s, 0, <<"jmpf">>, w + 16))
       [] OTHER -> E(s, 0, <<"push", w>>, w)
decode_F4_FF(s) ==
  CASE s.i.op = \hF4 -> End(H(<<"hlt">>, <<>>, s.at))
    [] s.i.op = \hF5 -> H(<<"cmc">>, <<>>, s.at)
    [] s.i.op \in {\hF6, \hF7} -> decode_F6_F7(s)
    [] s.i.op \in {\hFE, \hFF} -> decode_FE_FF(s)
    [] OTHER -> H(<<<<"clc", "stc", "cli", "sti", "cld", "std">>[s.i.op - \hF7]>>, <<>>, s.at)

(* table: what the opcodes up to 7F and those from 80 are decoded by.         *)
table_00_7F(s) ==
  CASE s.i.op < \h38 /\ Low(s) < 6 -> decode_arith(s)
    [] s.i.op \in {\h06, \h0E, \h16, \h1E} -> decode_sv(s, "push", (s.i.op \div 8) % 4)
    [] s.i.op \in {\h07, \h17, \h1F} -> decode_sv(s, "pop", (s.i.op \div 8) % 4)
    [] s.i.op < \h40 -> decode_27_3F(s)
    [] s.i.op \in \h40 .. \h47 -> decode_rv(s, <<"inc">>)
    [] s.i.op \in \h48 .. \h4F -> decode_rv(s, <<"dec">>)
    [] s.i.op \in \h50 .. \h57 -> decode_rv(s, <<"push", v(s)>>)
    [] s.i.op \in \h58 .. \h5F -> decode_rv(s, <<"pop", v(s)>>)
    [] s.i.op \in \h60 .. \h6F -> decode_60_6F(s)
    [] OTHER -> decode_jcc8(s)
table_80_FF(s) ==
  CASE s.i.op \in \h80 .. \h85 -> decode_80_85(s)
    [] s.i.op \in \h86 .. \h8F -> decode_86_8F(s)
    [] s.i.op \in \h91 .. \h97 -> decode_xchg(s)
    [] s.i.op \in {\h90} \cup (\h98 .. \hA3) -> decode_90_A3(s)
    [] s.i.op \in \hA4 .. \hAF -> decode_A4_AF(s)
    [] s.i.op \in \hB0 .. \hB7 -> decode_mov_rbib(s)
    [] s.i.op \in \hB8 .. \hBF -> decode_mov_rviv(s)
    [] s.i.op \in \hC0 .. \hCF -> decode_C0_CF(s)
    [] s.i.op \in {\hD6, \hF1} -> decode_invalid(s)
    [] s.i.op \in \hD0 .. \hD7 -> decode_D0_D7(s)
    [] s.i.op \in \hD8 .. \hDF -> decode_fpu(s)
    [] s.i.op \in \hE0 .. \hEF -> decode_E0_EF(s)
    [] OTHER -> decode_F4_FF(s)

-----------------------------------------------------------------------------
(* The functions of the two-byte opcodes *)

(* The system instructions on 16 bits have R/M numbered as a register of 32.  *)
Low16(s, name) ==
  LET f == parse_modrm(s, 6) IN H(name, <<IF f.mem THEN M(f, 16) ELSE <<"reg", 4 * f.rm, 16>>>>, f.at)
decode_0F00(s) ==
  LET n == GroupReg(s)
      f == parse_modrm(s, 6)
  IN CASE n \in {4, 5} -> E([s EXCEPT !.c16 = TRUE], 0, <<IF n = 4 THEN "verr" ELSE "verw">>, 16)
       [] n \in {0, 1} -> H(<<<<"sldt", "str">>[n + 1]>>,
                            <<IF f.mem THEN M(f, 16) ELSE <<"reg", 4 * f.rm, v(s)>>>>, f.at)
       [] n \in {2, 3} -> Low16(s, <<<<"lldt", "ltr">>[n - 1]>>)
       [] OTHER -> CPU_FATAL(f.at)
decode_0F01(s) ==
  LET n == GroupReg(s)
      f == parse_modrm(s, 0)
      mem(name, w) == H(name, <<M(f, w)>>, f.at)
  IN IF f.mem
     THEN CASE n \in {0, 1} -> mem(<<<<"sgdt", "sidt">>[n + 1]>>, 0)
            [] n \in {2, 3} -> mem(<<<<"lgdt", "lidt">>[n - 1], v(s)>>, 0)
            [] n = 4 -> mem(<<"smsw">>, 16)
            [] n = 6 -> mem(<<"lmsw">>, 16)
            [] n = 7 -> mem(<<"invlpg">>, 0)
            [] OTHER -> op_ud_exception(f.at)
     ELSE CASE n = 4 -> H(<<"smsw">>, <<R(f.rm, v(s))>>, f.at)
            [] n = 1 -> H(<<"nop">>, <<>>, f.at)
            [] n = 6 -> H(<<"lmsw">>, <<R((2 * f.rm) % 16, 16)>>, f.at)
            [] OTHER -> op_ud_exception(f.at)
decode_0F02_0B(s) ==
  LET f == parse_modrm(s, 0)
      low16(name) == H(name, <<G(f, v(s)), IF f.mem THEN M(f, 16) ELSE <<"reg", 4 * (s.i.modrm % 8), 16>>>>, f.at)
  IN CASE s.i.op = \h02 -> low16(<<"lar">>)
       [] s.i.op = \h03 -> low16(<<"lsl">>)
       [] s.i.op = \h06 -> H(<<"clts">>, <<>>, s.at)
       [] s.i.op = \h09 -> H(<<"wbinvd">>, <<>>, s.at)
       [] OTHER -> op_ud_exception(s.at)
decode_0F18_23(s) ==
  LET f == parse_modrm(s, 0)
      r == R(s.i.modrm % 8, 32)
      control == <<"control", GroupReg(s)>>
      debug == <<"debug", GroupReg(s)>>
  IN CASE s.i.op = \h18 -> H(<<"prefetch">>, <<>>, f.at)
       [] s.i.op = \h1F -> H(<<"nop">>, <<>>, f.at)
       [] s.i.modrm < \hC0 -> op_ud_exception(s.at + 1)
       [] s.i.op = \h20 -> End(H(<<"mov">>, <<r, control>>, s.at + 1))
       [] s.i.op = \h21 -> H(<<"mov">>, <<r, debug>>, s.at + 1)
       [] s.i.op = \h22 -> End(H(<<"mov">>, <<control, r>>, s.at + 1))
       [] OTHER -> H(<<"mov">>, <<debug, r>>, s.at + 1)
decode_0F30_35(s) ==
  H(<<CASE s.i.op = \h30 -> "wrmsr" [] s.i.op = \h31 -> "rdtsc" [] s.i.op = \h32 -> "rdmsr"
        [] OTHER -> IF s.i.op % 2 = 1 THEN "sysexit" ELSE "sysenter">>, <<>>, s.at)

(* All SIMD instructions: which one their table chooses is in Simd.  70 to 73,*)
(* C2 and C4 to C6 read a constant after the address.                         *)
decode_sse(s) ==
  LET f == parse_modrm(s, 6)
      constant == s.i.op \in (\h70 .. \h73) \cup {\hC2, \hC4, \hC5, \hC6}
  IN H(<<"simd", s.i.op, s.sse>>, <<RM(f, 32), G(f, 32)>> \o IF constant THEN <<Imm(imm8(f.at), 8)>> ELSE <<>>,
       f.at + IF constant THEN 1 ELSE 0)

(* A bit is named by REG in disp32 = -1, or by a constant.                    *)
Bit(s, name) == EG(s, 0, name, v(s))
Shift2(s, name) ==
  LET f == parse_modrm(s, 0)
  IN IF s.i.op % 2 = 0 THEN H(name, <<RM(f, v(s)), G(f, v(s)), Imm(imm8(f.at), 8)>>, f.at + 1)
     ELSE H(name, <<RM(f, v(s)), G(f, v(s)), R(R8(1), 8)>>, f.at)
decode_0FAE(s) ==
  LET n == GroupReg(s)
      f == parse_modrm(s, 0)
  IN CASE n = 4 \/ (n < 4 /\ ~f.mem) -> op_ud_exception(f.at)
       [] n < 4 -> H(<<<<"fxsave", "fxrstor", "ldmxcsr", "stmxcsr">>[n + 1]>>, <<M(f, 0)>>, f.at)
       [] OTHER -> H(<<"fence">>, <<>>, f.at)
decode_0FA0_AF(s) ==
  CASE s.i.op \in {\hA0, \hA8} -> decode_sv(s, "push", IF s.i.op = \hA0 THEN 4 ELSE 5)
    [] s.i.op \in {\hA1, \hA9} -> decode_sv(s, "pop", IF s.i.op = \hA1 THEN 4 ELSE 5)
    [] s.i.op = \hA2 -> H(<<"cpuid">>, <<>>, s.at)
    [] s.i.op = \hA3 -> Bit(s, <<"bt">>)
    [] s.i.op \in {\hA4, \hA5} -> Shift2(s, <<"shld">>)
    [] s.i.op = \hAB -> Bit(s, <<"bts">>)
    [] s.i.op \in {\hAC, \hAD} -> Shift2(s, <<"shrd">>)
    [] s.i.op = \hAE -> decode_0FAE(s)
    [] OTHER -> Load(s, 0, <<"imul">>, v(s), v(s))

(* MOVZX and MOVSX to 16 bits from 16 are plain moves, R/M from REG.          *)
Extend(s, name) ==
  LET f == parse_modrm(s, IF s.i.op % 2 = 0 THEN 3 ELSE 0)
  IN CASE s.i.op % 2 = 0 -> H(name, <<G(f, v(s)), RM(f, 8)>>, f.at)
       [] s.c16 /\ f.mem -> H(<<"mov">>, <<G(f, 16), M(f, 16)>>, f.at)
       [] s.c16 -> H(<<"mov">>, <<R(f.rm, 16), R(f.reg, 16)>>, f.at)
       [] OTHER -> H(name, <<G(f, 32), IF f.mem THEN M(f, 16) ELSE <<"reg", 4 * f.rm, 16>>>>, f.at)
decode_0FBA(s) ==
  LET n == GroupReg(s)
      f == parse_modrm(s, 0)
  IN IF n < 4 THEN op_ud_exception(f.at)
     ELSE H(<<<<"bt", "bts", "btr", "btc">>[n - 3]>>, <<RM(f, v(s)), Imm(imm8(f.at), 8)>>, f.at + 1)
decode_0FB0_BB(s) ==
  CASE s.i.op = \hB0 -> EG(s, 1, <<"cmpxchg">>, 8)
    [] s.i.op = \hB1 -> EG(s, 0, <<"cmpxchg">>, v(s))
    [] s.i.op = \hB2 -> MemOnly(s, Load(s, 0, <<"lss">>, v(s), v(s) + 16))
    [] s.i.op = \hB3 -> Bit(s, <<"btr">>)
    [] s.i.op = \hB4 -> MemOnly(s, Load(s, 0, <<"lfs">>, v(s), v(s) + 16))
    [] s.i.op = \hB5 -> MemOnly(s, Load(s, 0, <<"lgs">>, v(s), v(s) + 16))
    [] s.i.op \in {\hB6, \hB7} -> Extend(s, <<"movzx">>)
    [] s.i.op = \hBA -> decode_0FBA(s)
    [] OTHER -> Bit(s, <<"btc">>)
decode_0FBC_C7(s) ==
  CASE s.i.op \in {\hBC, \hBD} -> Load(s, 0, <<IF s.i.op = \hBC THEN "bsf" ELSE "bsr">>, v(s), v(s))
    [] s.i.op \in {\hBE, \hBF} -> Extend(s, <<"movsx">>)
    [] s.i.op = \hC0 -> EG(s, 1, <<"xadd">>, 8)
    [] s.i.op = \hC1 -> EG(s, 0, <<"xadd">>, v(s))
    [] OTHER -> MemOnly(s, LET f == parse_modrm(s, 6) IN H(<<"cmpxchg8b">>, <<M(f, 0)>>, f.at))

(* table0F                                                                    *)
table0F_00_7F(s) ==
  CASE s.i.op \in {\h08, \h0D} \cup (\h19 .. \h1E) \cup (\h24 .. \h27) \cup {\h33} \cup (\h36 .. \h3F)
                   \cup (\h78 .. \h7D) -> decode_invalid(s)
    [] s.i.op = \h00 -> decode_0F00(s)
    [] s.i.op = \h01 -> decode_0F01(s)
    [] s.i.op \in {\h02, \h03, \h06, \h09, \h0B} -> decode_0F02_0B(s)
    [] s.i.op < \h10 -> decode_ud(s)
    [] s.i.op \in {\h18} \cup (\h1F .. \h23) -> decode_0F18_23(s)
    [] s.i.op \in \h30 .. \h35 -> decode_0F30_35(s)
    [] s.i.op \in \h40 .. \h4F -> decode_cmov(s)
    [] s.i.op = \h77 -> H(<<"emms">>, <<>>, s.at)
    [] OTHER -> decode_sse(s)
table0F_80_FF(s) ==
  CASE s.i.op \in \h80 .. \h8F -> decode_jccv(s)
    [] s.i.op \in \h90 .. \h9F -> decode_setcc(s)
    [] s.i.op \in {\hAA, \hB8, \hB9, \hF0} -> decode_invalid(s)
    [] s.i.op \in {\hA6, \hA7, \hFF} -> decode_ud(s)
    [] s.i.op \in \hA0 .. \hAF -> decode_0FA0_AF(s)
    [] s.i.op \in \hB0 .. \hBB -> decode_0FB0_BB(s)
    [] s.i.op \in (\hBC .. \hC1) \cup {\hC7} -> decode_0FBC_C7(s)
    [] s.i.op \in \hC8 .. \hCF -> decode_rv(s, <<"bswap">>)
    [] OTHER -> decode_sse(s)

-----------------------------------------------------------------------------
(* Prefixes, and where a trace ends *)

Table(s) ==
  IF ~s.i.escape THEN IF s.i.op < \h80 THEN table_00_7F(s) ELSE table_80_FF(s)
  ELSE LET t == [s EXCEPT !.at = @ + 1] IN IF s.i.op < \h80 THEN table0F_00_7F(t) ELSE table0F_80_FF(t)
Opcode(i, c) ==
  [i |-> i, at |-> Len(i.prefixes) + 1, c16 |-> FALSE, a16 |-> FALSE, seg |-> c.seg, rep |-> 0, sse |-> 0]

(* One turn of the loop, with the prefixes set so far.                        *)
FS == 4
Prefix(t, b) ==
  LET s == [t EXCEPT !.set = @ \cup {b}]
      both == t.set \cap {\hF2, \hF3} # {} /\ b \notin t.set
  IN CASE b = \hF3 -> [s EXCEPT !.sse = \hF3, !.rep = IF both THEN 3 ELSE IF b \in t.set THEN @ ELSE 1]
       [] b = \hF2 -> [s EXCEPT !.sse = \hF2, !.rep = IF both THEN 3 ELSE IF b \in t.set THEN @ ELSE 2]
       [] b = \h66 -> [s EXCEPT !.sse = \h66, !.c16 = IF b \in t.set THEN @ ELSE ~@]
       [] b = \h67 -> [s EXCEPT !.a16 = IF b \in t.set THEN @ ELSE ~@]
       [] b \in {\h64, \h65} -> [s EXCEPT !.seg = <<FS + (b % 2), FS + (b % 2)>>]
       [] b \in {\h26, \h2E, \h36, \h3E} -> [s EXCEPT !.seg = <<(b \div 8) % 4, (b \div 8) % 4>>]
       [] OTHER -> s
AfterPrefixes(i, s, h) ==
  LET valid == IF i.escape THEN optable0F(i.op).lock ELSE optable(i.op).lock
  IN IF \hF0 \in s.set /\ ~valid THEN [seg |-> s.seg] @@ op_ud_exception(h.at) ELSE [seg |-> <<DS, SS>>] @@ h
decode_prefix(i, c) ==
  LET s == FoldLeft(Prefix, [set |-> {}] @@ Opcode(i, c), i.prefixes)
  IN IF find_instruction_length(i, 1, 15) = -1 THEN [seg |-> c.seg] @@ op_ud_exception(1)
     ELSE AfterPrefixes(i, s, Table(s))

MAX_TRACE_SIZE == 32
Slot(i, how, h) ==
  LET full == how = "prefetch" \/ i.done + 1 >= MAX_TRACE_SIZE - 1
  IN [name |-> h.name, ops |-> h.ops, len |-> h.at, ends |-> h.ends, how |-> how, seg |-> h.seg,
      slots |-> i.done + 1 + IF full /\ ~h.ends THEN 1 ELSE 0]
(* The instruction at rawp, when i.done are in the trace already.  What it is *)
(* read from is the page, or the 15 bytes of prefetch; the trace ends before  *)
(* it if it may cross the page, and is empty if the next page is not there.   *)
cpu_decode(i, c) ==
  LET crosses == i.room <= 15 /\ find_instruction_length(i, 0, i.room) = -1
      how == CASE ~crosses -> "page" [] i.done # 0 -> "before" [] i.next -> "prefetch" [] OTHER -> "fault"
  IN Slot(i, how, CASE how = "before" -> [seg |-> c.seg] @@ End(H(<<"trace_end">>, <<>>, 0))
                    [] how = "fault" -> [seg |-> c.seg] @@ End(H(<<"fault">>, <<>>, 0))
                    [] i.prefixes = <<>> -> [seg |-> c.seg] @@ Table(Opcode(i, c))
                    [] OTHER -> decode_prefix(i, c))

(* Handlers that never go on to the instruction after them in the trace: HLT  *)
(* lets its cycles run out.                                                   *)
Leaves(h) ==
  \/ h.name[1] \in {"ud", "fatal", "fault", "trace_end", "jmp", "jmpf", "call", "callf", "ret", "retf", "iret", "int", "hlt"}
  \/ h.name[1] = "mov" /\ \E k \in DOMAIN h.ops : h.ops[k][1] = "control"

-----------------------------------------------------------------------------
Init == insn = <<>> /\ res = <<>> /\ executed = 0 /\ cpu = [seg |-> <<DS, SS>>]

Decode ==
  /\ executed < 2
  /\ executed = 1 => cpu.seg # <<DS, SS>>
  /\ \E g \in Groups(cpu) : \E i \in Insns(g) : \E r \in {cpu_decode(i, cpu)} :
       insn' = i /\ res' = r /\ cpu' = [seg |-> r.seg]
  /\ executed' = executed + 1
Next == Decode

-----------------------------------------------------------------------------
(* What is compared: the instruction, its operands and its length; that its   *)
(* bytes are read from where they are, that no trace ends with a handler that *)
(* goes on behind it, and that a trace has room for its end.  An exception    *)
(* has neither operands nor length, and a repeated MOVS has no condition.     *)
Exceptions == {<<"ud">>, <<"gp">>, <<"fault">>, <<"fatal">>}
View(h) ==
  [name |-> h.name, len |-> IF h.name \in Exceptions THEN 0 ELSE h.len,
   ops |-> [k \in DOMAIN h.ops |->
              IF h.ops[k][1] = "rep" /\ h.name[1] \notin {"cmps", "scas"} /\ h.ops[k][2] # 0 THEN <<"rep", 1>>
              ELSE h.ops[k]]]
Seen(i, r) ==
  View(r) @@ [inside |-> CASE r.how = "page" -> r.len <= i.room [] r.how = "prefetch" -> r.len <= 15 [] OTHER -> TRUE,
              flow |-> r.ends => Leaves(r), fits |-> r.slots <= MAX_TRACE_SIZE]
Expected(i) == View(Specified(i)) @@ [inside |-> TRUE, flow |-> TRUE, fits |-> TRUE]

-----------------------------------------------------------------------------
(* Where the decoder deviates, by the input alone                             *)

Coded(i, escape, ops) == i.escape = escape /\ i.op \in ops
(* An error in decode_prefix leaves the segment of a prefix behind, for the   *)
(* next instruction that has none of its own.                                 *)
StaleSegment(i, c) == c.seg # <<DS, SS>> /\ LastOf(i, DOMAIN SegmentPrefix) = 0
(* The bit for LOCK is one of the opcode: a register as destination and all of*)
(* a group pass, but neither NOT, NEG nor the copy of 80 at 82.               *)
LockUnchecked(i) ==
  /\ Has(i, \hF0)
  /\ IF i.escape THEN optable0F(i.op).lock ELSE optable(i.op).lock
  /\ \/ i.modrm >= \hC0
     \/ Reg(i) = 7 /\ Coded(i, FALSE, {\h80, \h81, \h83})
     \/ Reg(i) > 1 /\ Coded(i, FALSE, {\hFF})
     \/ Reg(i) = 4 /\ Coded(i, TRUE, {\hBA})
LockRefused(i) == Has(i, \hF0) /\ Coded(i, FALSE, {\h82, \hF6, \hF7})
(* Forms that are not defined are taken for their neighbours: any register of *)
(* POP and CMPXCHG8B, CS as a destination and segments past GS, SIDT of a     *)
(* register, the fences with an operand in memory, and 0F D0 before its table.*)
GroupUnchecked(i) ==
  LET n == Reg(i)
  IN \/ Coded(i, FALSE, {\h8F}) /\ n # 0
     \/ Coded(i, FALSE, {\h8C, \h8E}) /\ n \in {1, 6, 7}
     \/ Coded(i, TRUE, {\h00}) /\ n \in {6, 7}
     \/ Coded(i, TRUE, {\h01}) /\ n = 1 /\ i.modrm >= \hC0
     \/ Coded(i, TRUE, {\hAE}) /\ n \in {5, 6}
     \/ Coded(i, TRUE, {\hC7}) /\ n # 1
     \/ Coded(i, TRUE, {\hD0})
(* Instructions that are missing.                                             *)
Missing(i) ==
  \/ Coded(i, FALSE, {\hF1}) \/ Coded(i, TRUE, {\h08, \h33} \cup (\h19 .. \h1E))
  \/ Coded(i, TRUE, \h20 .. \h23) /\ i.modrm < \hC0
(* The last of 66, F2 and F3 selects an SSE instruction, and REPE and REPNE   *)
(* are both kept.                                                             *)
LastPrefixSelects(i) ==
  i.escape /\ i.op \in SimdOps /\ Has(i, \h66) /\ Repeat(i) # 0
BothRepeats(i) == Coded(i, FALSE, {\hA6, \hA7, \hAE, \hAF}) /\ Has(i, \hF2) /\ Has(i, \hF3)
(* With 66, MOVZX and MOVSX of registers move R/M from REG, and LMSW doubles a*)
(* register that is one of 16 bits already.                                   *)
Reversed(i) == Coded(i, TRUE, {\hB7, \hBF}) /\ Has(i, \h66) /\ i.modrm >= \hC0
WrongRegister(i) == Coded(i, TRUE, {\h01}) /\ Has(i, \h66) /\ Reg(i) = 6 /\ i.modrm >= \hC0
(* An instruction of 16 bytes passes, and a longer one is not a #GP.          *)
Overlong(x) == x.name = <<"gp">>
(* Measured too short, so that the end of the page is passed unseen, and too  *)
(* long, so that the page after it is asked for.                              *)
TooShort(i) == Coded(i, TRUE, {\h18, \hC2, \hC4, \hC5, \hC6})
TooLong(i) ==
  \/ Coded(i, FALSE, {\hC8, \hCA}) \/ Coded(i, TRUE, \h77 .. \h7D)
  \/ Coded(i, FALSE, {\hC6, \hC7}) /\ Reg(i) # 0
  \/ Coded(i, TRUE, {\hBA}) /\ Reg(i) < 4

Deviates(i, r, c, x) ==
  LET what == {"name", "ops", "len"}
      devs == {<<StaleSegment(i, c), {"ops"}>>,
               <<LockUnchecked(i) \/ LockRefused(i) \/ GroupUnchecked(i) \/ Missing(i), what>>,
               <<LastPrefixSelects(i), {"name"}>>,
               <<BothRepeats(i) \/ Reversed(i) \/ WrongRegister(i), {"ops"}>>,
               <<Overlong(x), what \cup {"inside"}>>,
               <<TooShort(i), what \cup {"inside"}>>,
               <<TooLong(i), what>>}
  IN UNION {d[2] : d \in {e \in devs : e[1]}}

(* What is decoded is the instruction the architecture says, but for those.   *)
Agrees(seen, x) == seen = x \/ \A part \in DOMAIN seen \ Deviates(insn', res', cpu, x) : seen[part] = x[part]
Conforms == insn' # <<>> /\ res'.how # "before" => Agrees(Seen(insn', res'), Expected(insn'))
=============================================================================
