-------------------------------- MODULE Simd ---------------------------------
(* The MMX and SSE instructions of the interpreter: the handlers of           *)
(* ops/simd.c and the tables with which decoder.c chooses among their cases.  *)
(* Operands are those of X86Simd: the code's bytes are cells, its 32-bit      *)
(* words groups of four.  The arithmetic of softfloat is a parameter; the     *)
(* exceptions it leaves in the static `status` are collected per instruction, *)
(* the masks it is read with are cpu.status: one variable for all the threads *)
(* of the process, while cpu.masks are those of this thread's MXCSR.          *)
EXTENDS X86Simd

CONSTANTS CountCells,   \* the cells that hold a shift count, of a byte in the code
          Masks,        \* the sets of exceptions that a thread may mask
          Ops(_),       \* the opcodes to run, given the masks in force,
          Machines(_),  \* and the machines to run them on
          Forms(_)      \* the operands of an opcode: reg, rm, isreg, addr, imm, host

VARIABLES insn, res, cpu, executed
vars == <<insn, res, cpu, executed>>

-----------------------------------------------------------------------------
(* Operands *)

Src(i, file) == IF i.isreg THEN i.s[file][i.rm] ELSE Fetch(i.s, i.addr, 16)
Dst(i, file) == i.s[file][i.reg]
Same(i) == i.isreg /\ i.rm = i.reg
D(v, k) == Slice(v, 4 * k, 4)
With(v, k, cells) == Over(v, 4 * k, cells)
Both(v, a, b) == With(With(v, 0, a), 1, b)

cpu_sse_exception(s) ==
  CASE s.fault # "" -> s
    [] s.fault = "" /\ ("OSFXSR" \notin s.cr \/ "EM" \in s.cr) -> [s EXCEPT !.fault = "UD"]
    [] s.fault = "" /\ "TS" \in s.cr -> [s EXCEPT !.fault = "NM"]
    [] OTHER -> s
(* The transition to MMX happens before the handler looks at its operand.     *)
cpu_mmx_check(s) ==
  CASE "EM" \in s.cr -> [s EXCEPT !.fault = "UD"]
    [] "EM" \notin s.cr /\ "TS" \in s.cr -> [s EXCEPT !.fault = "NM"]
    [] s.cr \cap {"EM", "TS"} = {} /\ s.pending -> [s EXCEPT !.fault = "MF"]
    [] OTHER -> [s EXCEPT !.top = 0, !.tags = "valid"]

(* A pointer to the operand, to a copy of it if it is not aligned; no case    *)
(* reads more of a copy than it asked for.  raises is unaligned_exception.    *)
get_ptr(i, s, dwords, raises) ==
  IF s.fault = "" /\ raises /\ ~i.isreg /\ i.addr % (4 * dwords) # 0
  THEN [s EXCEPT !.fault = "GP"] ELSE s

get_dest(s, file, k, v) ==
  LET t == [s EXCEPT ![file][k] = v] IN IF file = "m" THEN [t EXCEPT !.ones = @ \cup {k}] ELSE t

(* What the softfloat functions left in status, after the destination has     *)
(* been written.                                                              *)
cpu_sse_handle_exceptions(s, raised) ==
  LET unmasked == raised \ cpu.status
      flags == IF unmasked \cap {"I", "D", "Z"} # {} THEN raised \cap {"I", "D", "Z"} ELSE raised
  IN [s EXCEPT !.flags = @ \cup flags,
               !.fault = IF unmasked = {} THEN @ ELSE IF "OSXMMEXCPT" \in s.cr THEN "XM" ELSE "UD"]

(* The frames of a case: the register reg gets v; with exceptions; an operand *)
(* in rm gets cells, of the register from cell 0 on.                          *)
Into(i, s, dwords, raises, file, v) ==
  LET t == get_ptr(i, s, dwords, raises)
  IN IF t.fault # "" THEN t ELSE get_dest(t, file, i.reg, v)
Sse(i, dwords, raises, v) == Into(i, cpu_sse_exception(i.s), dwords, raises, "x", v)
Mmx(i, v) == Into(i, cpu_mmx_check(i.s), 2, FALSE, "m", v)
Float0(i, dwords, raises, file, v, raised) ==
  LET t == Into(i, cpu_sse_exception(i.s), dwords, raises, file, v)
  IN IF t.fault # "" THEN t ELSE cpu_sse_handle_exceptions(t, raised)
Out(i, s, dwords, raises, file, cells) ==
  LET t == get_ptr(i, s, dwords, raises)
  IN IF t.fault # "" THEN t
     ELSE IF i.isreg THEN get_dest(t, file, i.rm, Over(t[file][i.rm], 0, cells))
     ELSE Store(t, i.addr, cells)
SseOut(i, dwords, raises, cells) == Out(i, cpu_sse_exception(i.s), dwords, raises, "x", cells)

(* An integer case in its two forms: of 8 cells in mm, of 16 in xmm.          *)
Pair(i, v) ==
  IF i.prefix = 1 THEN Sse(i, 4, TRUE, v) ELSE Mmx(i, v)
File(i) == IF i.prefix = 1 THEN "x" ELSE "m"

-----------------------------------------------------------------------------
(* The loops over lanes *)

Each(d, s, n, f(_, _)) ==
  Pack([k \in 0 .. Size(d) \div n - 1 |-> f(Lane(d, n, k), Lane(s, n, k))], n)
Top(v, n) == v \div 2^(Bits(n) - 1)
Wrap(v, n) == v % 2^Bits(n)

(* The exclusive or with (size - 1) ^ (copysize - 1) mirrors the copies.      *)
punpckh(d, s, n) ==
  LET xormask == (Size(d) - 1) ^^ (n - 1)
      copied(idx) == LET from == (n * (idx \div (2 * n)) + (idx % n)) ^^ xormask
                     IN IF (idx \div n) % 2 = 0 THEN s[from] ELSE d[from]
  IN [c \in DOMAIN d |-> copied(c ^^ xormask)]
punpckl(d, s, n) ==
  [c \in DOMAIN d |-> LET from == n * (c \div (2 * n)) + (c % n)
                      IN IF (c \div n) % 2 = 0 THEN d[from] ELSE s[from]]

pack_signed(x, n) ==
  LET half == n \div 2
      low == 2^Bits(n) - 2^(Bits(half) - 1)
  IN IF Top(x, n) = 1 THEN IF x >= low THEN Wrap(x, half) ELSE 2^(Bits(half) - 1)
     ELSE IF x > 2^(Bits(half) - 1) - 1 THEN 2^(Bits(half) - 1) - 1 ELSE x
pack_i16_to_u8(x, n) ==
  LET v == Signed(x, n) IN IF v >= 2^Bits(1) - 1 THEN 2^Bits(1) - 1 ELSE IF v < 0 THEN 0 ELSE v
Packs(d, s, n, f(_, _)) ==
  LET count == Size(d) \div n
  IN Pack([k \in 0 .. 2 * count - 1 |-> f(Lane(IF k < count THEN d ELSE s, n, k % count), n)], n \div 2)

Limit(x, n) == Top(x, n) + 2^(Bits(n) - 1) - 1
psubs(x, y, n) ==
  LET diff == Wrap(x - y, n)
      v == Limit(x, n)
  IN IF Top(v, n) # Top(y, n) /\ Top(v, n) # Top(diff, n) THEN v ELSE diff
padds(x, y, n) ==
  LET sum == Wrap(x + y, n)
      v == Limit(x, n)
  IN IF Top(v, n) = Top(y, n) /\ Top(y, n) # Top(sum, n) THEN v ELSE sum
psubus(x, y, n) == LET v == Wrap(x - y, n) IN IF v <= x THEN v ELSE 0
paddus(x, y, n) == LET v == Wrap(x + y, n) IN IF v < x THEN 2^Bits(n) - 1 ELSE v
pmullw(x, y, shift) == (((Signed(x, 2) * Signed(y, 2)) % 2^Bits(4)) \div 2^shift) % 2^Bits(2)
pmuluw(x, y, shift) == ((x * y) \div 2^shift) % 2^Bits(2)
pmuludq(x, y) == Wrap(x, 4) * Wrap(y, 4)
pmaddwd(x, y) ==
  LET product(k) == Signed((x \div 2^Bits(2 * k)) % 2^Bits(2), 2) * Signed((y \div 2^Bits(2 * k)) % 2^Bits(2), 2)
  IN Wrap(product(0) + product(1), 4)
psadbw(d, s) ==
  LET diff(k) == IF s[k] > d[k] THEN s[k] - d[k] ELSE d[k] - s[k]
      sum[k \in Nat] == IF k % 8 = 0 THEN diff(k) ELSE sum[k - 1] + diff(k)
  IN [c \in DOMAIN d |-> CASE c % 8 = 0 -> sum[c + 7] % 2^Cell
                           [] c % 8 = 1 -> (sum[c + 6] \div 2^Cell) % 2^Cell
                           [] OTHER -> 0]
(* dest == src is the same register: what doubles it when added is taken to   *)
(* halve it when subtracted.                                                  *)
padd(i, d, s, n) == Each(d, s, n, LAMBDA x, y : IF Same(i) THEN Wrap(2 * x, n) ELSE Wrap(x + y, n))
psub(i, d, s, n) == Each(d, s, n, LAMBDA x, y : IF Same(i) THEN x \div 2 ELSE Wrap(x - y, n))

pmovmskb(v) ==
  LET sum[k \in 0 .. Size(v)] == IF k = 0 THEN 0 ELSE sum[k - 1] + Top(v[k - 1], 1) * 2^(k - 1)
  IN sum[Size(v)]

pshuf(src, from, imm, n) ==
  [c \in 0 .. 4 * n - 1 |-> src[from + n * ((imm \div 4^(c \div n)) % 4) + (c % n)]]
shufps(d, s, imm) ==
  LET index(k) == (imm \div 4^k) % 4
  IN [c \in 0 .. 15 |-> (IF c < 8 THEN d ELSE s)[4 * index(c \div 4) + (c % 4)]]
shufpd(i, d, s, imm) ==
  LET a == IF imm % 2 = 1 THEN Both(d, D(d, 2), D(d, 3)) ELSE d
      from == IF Same(i) THEN a ELSE s
  IN Over(a, 8, Slice(IF (imm \div 2) % 2 = 1 THEN Slice(from, 8, 8) ELSE a, 0, 8))

-----------------------------------------------------------------------------
(* Shifts: (a OP shift) & mask in every lane of n cells.                      *)

get_shift(v, cells) ==
  IF \E c \in CountCells .. cells - 1 : v[c] # 0 THEN 2^Bits(CountCells) - 1 ELSE Word(v, 0, CountCells)

cpu_shift(op, d, n, shift, mask) ==
  Each(d, d, n, LAMBDA x, y : IF ~mask THEN 0
                              ELSE CASE op = "srl" -> x \div 2^shift
                                     [] op = "sra" -> Wrap(Signed(x, n) \div 2^shift, n)
                                     [] op = "sll" -> (x % 2^(Bits(n) - shift)) * 2^shift)

(* A shift of a 64-bit word by 64 or more: the host's, or none at all.        *)
HostShift(i, left, v, shift) ==
  LET w == Bits(8)
      by == IF shift < w THEN shift ELSE shift % w
  IN IF shift >= w /\ i.host THEN 0
     ELSE IF left THEN (v % 2^(w - by)) * 2^by ELSE v \div 2^by
Quads(low, high) == Pack(0 :> low @@ 1 :> high, 8)
cpu_pslldq(i, d, shift, mask) ==
  LET a0 == Lane(d, 8, 0)
      a1 == Lane(d, 8, 1)
      w == Bits(8)
  IN CASE ~mask -> Zeros(16)
       [] mask /\ shift = w -> Quads(0, a0)
       [] mask /\ shift > w -> Quads(0, HostShift(i, TRUE, a0, shift - w \div 2))
       [] mask /\ shift < w -> Quads(HostShift(i, TRUE, a0, shift) | HostShift(i, FALSE, a1, w - shift),
                                     HostShift(i, TRUE, a1, shift))
cpu_psrldq(i, d, shift, mask) ==
  LET a0 == Lane(d, 8, 0)
      a1 == Lane(d, 8, 1)
      w == Bits(8)
  IN CASE ~mask -> Zeros(16)
       [] mask /\ shift = w -> Quads(a1, 0)
       [] mask /\ shift > w -> Quads(HostShift(i, FALSE, a1, shift - w), 0)
       [] mask /\ shift < w -> Quads(HostShift(i, FALSE, a0, shift) | HostShift(i, TRUE, a1, w - shift),
                                     HostShift(i, FALSE, a1, shift))

pshift(i, d, op, n, imm) ==
  LET w == IF op \in {"srldq", "slldq"} THEN Bits(16) ELSE Bits(n)
      mask == imm < w
  IN CASE op = "srldq" -> cpu_psrldq(i, d, imm % w, mask)
       [] op = "slldq" -> cpu_pslldq(i, d, imm % w, mask)
       [] OTHER -> cpu_shift(op, d, n, imm % w, mask)

-----------------------------------------------------------------------------
(* The tables of decoder.c: the case of each opcode without a prefix, after   *)
(* 66, F2 and F3.  In a table of two columns only 66 counts.                  *)
Column(i, tbl, first) == tbl[i.op - first + 1][i.prefix + 1]
Plain(name) == <<name, name, name, name>>
On66(name, wide) == <<name, wide, name, name>>

decode_sse10_17_tbl ==
  << <<"MOVUPS_XG", "MOVUPS_XG", "MOVSD_XG", "MOVSS_XG">>,
    <<"MOVUPS_XE", "MOVUPS_XE", "MOVSD_XE", "MOVSS_XE">>,
    On66("MOVHLPS", "MOVLPS"), Plain("MOVSD_XE"), On66("UNPCKLPS", "UNPCKLPD"),
    On66("UNPCKHPS", "UNPCKHPD"), <<"MOVHPS_XG", "MOVHPS_XG", "MOVHPS_XG", "MOVSHDUP">>,
    Plain("MOVHPS_XE")>>
decode_sse28_2F_tbl ==
  <<Plain("MOVAPS_XG"), Plain("MOVAPS_XE"), <<"CVTPI2PS", "CVTPI2PD", "CVTSI2SD", "CVTSI2SS">>,
    Plain("MOVAPS_XE"), <<"CVTPS2PI", "CVTPD2PI", "CVTSD2SI", "CVTSS2SI">>,
    <<"CVTPS2PI", "CVTPD2PI", "CVTSD2SI", "CVTSS2SI">>, On66("UCOMISS", "UCOMISD"),
    On66("UCOMISS", "UCOMISD")>>
decode_sse50_57_tbl ==
  <<On66("MOVMSKPS", "MOVMSKPD"), <<"SQRTPS", "SQRTPD", "SQRTSD", "SQRTSS">>,
    On66("RSQRTPS", "RSQRTSS"), On66("RCPPS", "RCPSS"), Plain("ANDPS"), Plain("ANDNPS"),
    Plain("ORPS"), Plain("XORPS")>>
Four(op) == << <<op, 4, 4>>, <<op, 8, 2>>, <<op, 8, 1>>, <<op, 4, 1>>>>
decode_sse58_5F_tbl ==
  <<Four("add"), Four("mul"), <<"CVTPS2PD", "CVTPD2PS", "CVTSD2SS", "CVTSS2SD">>,
    <<"CVTDQ2PS", "CVTPS2DQ", "CVTDQ2PS", "CVTTPS2DQ">>, Four("sub"), Four("min"), Four("div"), Four("max")>>
decode_sse60_67_tbl ==
  <<"PUNPCKLBW", "PUNPCKLWD", "PUNPCKLDQ", "PACKSSWB", "PCMPGTB", "PCMPGTW", "PCMPGTD", "PACKUSWB">>
decode_sse68_6F_tbl ==
  <<Plain("PUNPCKHBW"), Plain("PUNPCKHWD"), Plain("PUNPCKHDQ"), Plain("PACKSSDW"),
    On66("OP_68_6F_INVALID", "PUNPCKLQDQ"), On66("OP_68_6F_INVALID", "PUNPCKHQDQ"),
    On66("MOVD_MG", "MOVD_XG"), <<"MOVQ_MG", "MOVDQA_XG", "MOVQ_MG", "MOVDQU_XG">>>>
decode_sse70_76_tbl ==
  << <<"PSHUFW", "PSHUFD", "PSHUFLW", "PSHUFHW">>, Plain("PSHIFT"), Plain("PSHIFT"), Plain("PSHIFT"),
    Plain("PCMPEQB"), Plain("PCMPEQW"), Plain("PCMPEQD")>>
decode_7E_7F ==
  << <<"MOVD_EdMGd", "MOVD_EdXGd", "MOVD_EdMGd", "MOVQ_XGqXEq">>,
    <<"MOVQ_MEqMGq", "MOVDQA_XE", "MOVQ_MEqMGq", "MOVDQU_XE">>>>
decode_sseC2_C6_tbl ==
  << <<"CMPPS", "CMPPD", "CMPSD", "CMPSS">>, Plain("MOVNTI"), Plain("PINSRW"), Plain("PEXTRW"),
    On66("SHUFPS", "SHUFPD")>>
decode_sseD0_D7_tbl ==
  <<Plain("PSRLW"), Plain("PSRLD"), Plain("PSRLQ"), Plain("PADDQ"), Plain("PMULLW"),
    <<"MOVQ_XEqXGq", "MOVQ_XEqXGq", "MOVDQ2Q", "MOVQ2DQ">>, Plain("PMOVMSKB")>>
decode_sseD8_DF_tbl ==
  <<"PSUBUSB", "PSUBUSW", "PMINUB", "PAND", "PADDUSB", "PADDUSW", "PMAXUB", "PANDN">>
decode_sseE0_E7_tbl ==
  <<Plain("PAVGB"), Plain("PSRAW"), Plain("PSRAD"), Plain("PAVGW"), Plain("PMULHUW"), Plain("PMULHW"),
    <<"CVTTPD2DQ", "CVTTPD2DQ", "CVTPD2DQ", "CVTDQ2PD">>, On66("MOVNTQ", "MOVNTDQ")>>
decode_sseE8_EF_tbl ==
  <<"PSUBSB", "PSUBSW", "PMINSW", "POR", "PADDSB", "PADDSW", "PMAXSW", "PXOR">>
decode_sseF1_F7_tbl == <<"PSLLW", "PSLLD", "PSLLQ", "PMULLUDQ", "PMADDWD", "PSADBW", "MASKMOV">>
decode_sseF8_FE_tbl == <<"PSUBB", "PSUBW", "PSUBD", "PSUBQ", "PADDB", "PADDW", "PADDD">>

-----------------------------------------------------------------------------
(* The handlers, by case.  v is the operand rm, d and x the registers reg.    *)

execute_0F10_17(i) ==
  LET case == Column(i, decode_sse10_17_tbl, \h10)
      v == Src(i, "x")
      x == Dst(i, "x")
      y == i.s.x[i.rm]
      now(t) == IF Same(i) THEN t ELSE v
      zeroed(n) == IF i.isreg THEN Over(x, 0, Slice(v, 0, n)) ELSE Over(Zeros(16), 0, Slice(v, 0, n))
  IN CASE case = "MOVUPS_XG" -> Sse(i, 4, FALSE, v)
       [] case = "MOVSS_XG" -> Sse(i, 1, FALSE, zeroed(4))
       [] case = "MOVSD_XG" -> Sse(i, 2, FALSE, zeroed(8))
       [] case = "MOVUPS_XE" -> SseOut(i, 4, FALSE, x)
       [] case = "MOVSS_XE" -> SseOut(i, 1, FALSE, D(x, 0))
       [] case = "MOVSD_XE" -> SseOut(i, 2, FALSE, Slice(x, 0, 8))
       [] case = "MOVHLPS" -> Into(i, cpu_sse_exception(i.s), 0, FALSE, "x", Both(x, D(y, 2), D(y, 3)))
       [] case = "MOVLPS" -> Sse(i, 2, FALSE, Both(x, D(v, 0), D(v, 1)))
       [] case = "UNPCKLPS" -> LET a == With(x, 2, D(x, 1))
                                   b == With(a, 1, D(now(a), 0))
                               IN Sse(i, 2, TRUE, With(b, 3, D(now(b), 1)))
       [] case = "UNPCKLPD" -> Sse(i, 4, TRUE, Over(x, 8, Slice(v, 0, 8)))
       [] case = "UNPCKHPS" -> LET a == With(With(x, 0, D(x, 2)), 2, D(x, 3))
                                   b == With(a, 1, D(now(a), 2))
                               IN Sse(i, 2, TRUE, With(b, 3, D(now(b), 3)))
       [] case = "UNPCKHPD" -> LET a == Both(x, D(x, 2), D(x, 3))
                               IN Sse(i, 2, TRUE, Over(a, 8, Slice(now(a), 8, 8)))
       [] case = "MOVHPS_XG" -> Sse(i, 2, TRUE, Over(x, 8, Slice(v, 0, 8)))
       [] case = "MOVSHDUP" -> Sse(i, 4, TRUE, Over(Both(x, D(v, 1), D(v, 1)), 8,
                                                    Both(Zeros(8), D(v, 3), D(v, 3))))
       [] case = "MOVHPS_XE" -> SseOut(i, 2, TRUE, IF i.isreg THEN Over(y, 8, Slice(x, 0, 8)) ELSE Slice(x, 8, 8))

(* Results of softfloat in lanes of m cells from lanes of n, the lowest count *)
(* of them, over old.                                                         *)
Lanewise(old, v, n, m, count, f(_)) ==
  Over(old, 0, Pack([k \in 0 .. count - 1 |-> f(Lane(v, n, k))], m))
Converted(i, dwords, raises, to, op, v, n, m, count, old) ==
  Float0(i, dwords, raises, to, Lanewise(old, v, n, m, count, LAMBDA a : Float(op, m, <<a>>)),
         UNION {Raises(op, m, <<Lane(v, n, k)>>) : k \in 0 .. count - 1})

Compared(i, dwords, raises, n) ==
  LET t == get_ptr(i, cpu_sse_exception(i.s), dwords, raises)
      a == Lane(Dst(i, "x"), n, 0)
      b == Lane(Src(i, "x"), n, 0)
      result == Relation(n, a, b)
      eflags == CASE result = "un" -> {"ZF", "PF", "CF"} [] result = "lt" -> {"CF"}
                  [] result = "gt" -> {} [] result = "eq" -> {"ZF"}
  IN IF t.fault # "" THEN t
     ELSE cpu_sse_handle_exceptions([t EXCEPT !.eflags = eflags],
            Raises(IF i.op % 2 = 1 THEN "compare" ELSE "compare_quiet", n, <<a, b>>))

execute_0F28_2F(i) ==
  LET case == Column(i, decode_sse28_2F_tbl, \h28)
      v == Src(i, "x")
      x == Dst(i, "x")
      to_int == IF i.op % 2 = 1 THEN "round" ELSE "trunc"
  IN CASE case = "MOVAPS_XG" -> Sse(i, 4, TRUE, v)
       [] case = "MOVAPS_XE" -> SseOut(i, 4, TRUE, x)
       [] case = "CVTPI2PS" -> Converted(i, 2, FALSE, "x", "int", Src(i, "m"), 4, 4, 2, x)
       [] case = "CVTSI2SS" -> Converted(i, 1, FALSE, "x", "int", Src(i, "r"), 4, 4, 1, x)
       [] case = "CVTPI2PD" -> Converted(i, 2, FALSE, "x", "int", Src(i, "m"), 4, 8, 2, x)
       [] case = "CVTSI2SD" -> Converted(i, 1, FALSE, "x", "int", Src(i, "r"), 4, 8, 1, x)
       [] case = "CVTPS2PI" -> Converted(i, 2, TRUE, "m", to_int, v, 4, 4, 2, Dst(i, "m"))
       [] case = "CVTSS2SI" -> Converted(i, 1, TRUE, "r", to_int, v, 4, 4, 1, Dst(i, "r"))
       [] case = "CVTPD2PI" -> Converted(i, 4, TRUE, "m", to_int, v, 8, 4, 2, Dst(i, "m"))
       [] case = "CVTSD2SI" -> Converted(i, 1, TRUE, "r", to_int, v, 8, 4, 1, Dst(i, "r"))
       [] case = "UCOMISS" -> Compared(i, 1, TRUE, 4)
       [] case = "UCOMISD" -> Compared(i, 2, FALSE, 8)

(* 1 / sqrt and 1 / x in full precision, with the exceptions of their steps.  *)
One == Float("int", 4, <<1>>)
rsqrt(a) == Float("div", 4, <<One, Float("sqrt", 4, <<a>>)>>)
rcp(a) == Float("div", 4, <<One, a>>)
RsqrtRaises(a) == Raises("sqrt", 4, <<a>>) \cup Raises("div", 4, <<One, Float("sqrt", 4, <<a>>)>>)

execute_0F50_57(i) ==
  LET case == Column(i, decode_sse50_57_tbl, \h50)
      v == Src(i, "x")
      x == Dst(i, "x")
      lanes(count) == {Lane(v, 4, k) : k \in 0 .. count - 1}
      roots(dwords, raises, n, count) == Converted(i, dwords, raises, "x", "sqrt", v, n, n, count, x)
      mask(n) == LET sign(k) == Top(Lane(v, n, k), n) * 2^k
                 IN IF n = 4 THEN sign(0) + sign(1) + sign(2) + sign(3) ELSE sign(0) + sign(1)
      approx(dwords, f(_), raised(_), count) ==
        Float0(i, dwords, TRUE, "x", Lanewise(x, v, 4, 4, count, f), UNION {raised(a) : a \in lanes(count)})
      rcp_raises(a) == Raises("div", 4, <<One, a>>)
      logic(f(_, _)) == Sse(i, 4, TRUE, Each(x, v, 1, f))
  IN CASE case = "MOVMSKPS" -> Into(i, cpu_sse_exception(i.s), 4, TRUE, "r", Pack(0 :> mask(4), 4))
       [] case = "MOVMSKPD" -> Into(i, cpu_sse_exception(i.s), 4, TRUE, "r", Pack(0 :> mask(8), 4))
       [] case = "SQRTPS" -> roots(4, TRUE, 4, 4)
       [] case = "SQRTSS" -> roots(1, TRUE, 4, 1)
       [] case = "SQRTPD" -> roots(4, TRUE, 8, 2)
       [] case = "SQRTSD" -> roots(2, FALSE, 8, 1)
       [] case = "RSQRTSS" -> approx(1, rsqrt, RsqrtRaises, 1)
       [] case = "RSQRTPS" -> approx(4, rsqrt, RsqrtRaises, 4)
       [] case = "RCPSS" -> approx(1, rcp, rcp_raises, 1)
       [] case = "RCPPS" -> approx(4, rcp, rcp_raises, 4)
       [] case = "ANDPS" -> logic(LAMBDA a, b : a & b)
       [] case = "ANDNPS" -> logic(LAMBDA a, b : (2^Cell - 1 - a) & b)
       [] case = "ORPS" -> logic(LAMBDA a, b : a | b)
       [] case = "XORPS" -> logic(LAMBDA a, b : a ^^ b)

(* The operands that may be unaligned are those of ADD, MUL and of 64 bits.   *)
execute_0F58_5F(i) ==
  LET case == Column(i, decode_sse58_5F_tbl, \h58)
      v == Src(i, "x")
      x == Dst(i, "x")
      arithmetic(op, n, count) ==
        LET ks == 0 .. count - 1
            args(k) == <<Lane(x, n, k), Lane(v, n, k)>>
        IN Float0(i, (n * count) \div 4, op \notin {"add", "mul"} /\ <<n, count>> # <<8, 1>>, "x",
                  Over(x, 0, Pack([k \in ks |-> Float(op, n, args(k))], n)),
                  UNION {Raises(op, n, args(k)) : k \in ks})
  IN IF i.op \notin {\h5A, \h5B} THEN arithmetic(case[1], case[2], case[3])
     ELSE CASE case = "CVTPS2PD" -> Converted(i, 2, TRUE, "x", "widen", v, 4, 8, 2, x)
            [] case = "CVTPD2PS" -> Converted(i, 4, TRUE, "x", "narrow", v, 8, 4, 2, Zeros(16))
            [] case = "CVTSS2SD" -> Converted(i, 1, FALSE, "x", "widen", v, 4, 8, 1, x)
            [] case = "CVTSD2SS" -> Converted(i, 2, TRUE, "x", "narrow", v, 8, 4, 1, x)
            [] case = "CVTDQ2PS" -> Converted(i, 4, TRUE, "x", "int", v, 4, 4, 4, x)
            [] case = "CVTPS2DQ" -> Converted(i, 4, TRUE, "x", "round", v, 4, 4, 4, x)
            [] case = "CVTTPS2DQ" -> Converted(i, 4, TRUE, "x", "trunc", v, 4, 4, 4, x)

pcmpeq(d, s, n) == Each(d, s, n, LAMBDA a, b : Mask(a = b, n))
pcmpgt(d, s, n) == Each(d, s, n, LAMBDA a, b : Mask(Signed(a, n) > Signed(b, n), n))

execute_0F60_67(i) ==
  LET case == decode_sse60_67_tbl[i.op - \h5F]
      s == Src(i, File(i))
      d == Dst(i, File(i))
  IN Pair(i, CASE case = "PUNPCKLBW" -> punpckl(d, s, 1)
               [] case = "PUNPCKLWD" -> punpckl(d, s, 2)
               [] case = "PUNPCKLDQ" -> punpckl(d, s, 4)
               [] case = "PACKSSWB" -> Packs(d, s, 2, pack_signed)
               [] case = "PCMPGTB" -> pcmpgt(d, s, 1)
               [] case = "PCMPGTW" -> pcmpgt(d, s, 2)
               [] case = "PCMPGTD" -> pcmpgt(d, s, 4)
               [] case = "PACKUSWB" -> Packs(d, s, 2, pack_i16_to_u8))

execute_0F68_6F(i) ==
  LET case == Column(i, decode_sse68_6F_tbl, \h68)
      s == Src(i, File(i))
      d == Dst(i, File(i))
      low == Slice(Src(i, "r"), 0, 4)
  IN CASE case = "PUNPCKHBW" -> Pair(i, punpckh(d, s, 1))
       [] case = "PUNPCKHWD" -> Pair(i, punpckh(d, s, 2))
       [] case = "PUNPCKHDQ" -> Pair(i, punpckh(d, s, 4))
       [] case = "PACKSSDW" -> Pair(i, Packs(d, s, 4, pack_signed))
       [] case = "PUNPCKLQDQ" -> Pair(i, punpckl(d, s, 8))
       [] case = "PUNPCKHQDQ" -> Pair(i, punpckh(d, s, 8))
       [] case = "MOVD_MG" -> Into(i, cpu_mmx_check(i.s), 1, FALSE, "m", Over(Zeros(8), 0, low))
       [] case = "MOVD_XG" -> Sse(i, 1, FALSE, Over(Zeros(16), 0, low))
       [] case = "MOVQ_MG" -> Mmx(i, Slice(s, 0, 8))
       [] case = "MOVDQA_XG" -> Sse(i, 4, TRUE, s)
       [] case = "MOVDQU_XG" -> Sse(i, 4, FALSE, Src(i, "x"))
       [] case = "OP_68_6F_INVALID" -> [i.s EXCEPT !.fault = "UD"]

(* The immediate and the shift it selects, in a field of two bytes: one that  *)
(* counts bytes is multiplied by eight in one of them.                        *)
rm_table_pshift(i) ==
  LET op == CASE i.reg = 2 -> "srl" [] i.reg = 4 -> "sra" [] i.reg = 6 -> "sll"
              [] i.reg = 3 -> "srldq" [] i.reg = 7 -> "slldq"
  IN [op |-> op, n |-> 2 * 2^(i.op - \h71),
      imm |-> IF op \in {"srldq", "slldq"} THEN (i.imm * Cell) % (2 * Bits(16)) ELSE i.imm]

execute_0F70_76(i) ==
  LET case == Column(i, decode_sse70_76_tbl, \h70)
      s == Src(i, File(i))
      d == Dst(i, File(i))
      v == Src(i, "x")
      p == rm_table_pshift(i)
      checked == IF i.prefix = 1 THEN cpu_sse_exception(i.s) ELSE cpu_mmx_check(i.s)
  IN CASE case = "PSHUFW" -> Mmx(i, pshuf(s, 0, i.imm, 2))
       [] case = "PSHUFHW" -> Sse(i, 4, TRUE, Over(v, 8, pshuf(v, 8, i.imm, 2)))
       [] case = "PSHUFLW" -> Sse(i, 4, TRUE, Over(v, 0, pshuf(v, 0, i.imm, 2)))
       [] case = "PSHUFD" -> Sse(i, 4, TRUE, pshuf(v, 0, i.imm, 4))
       [] case = "PSHIFT" ->
            IF checked.fault # "" THEN checked
            ELSE get_dest(checked, File(i), i.rm, pshift(i, i.s[File(i)][i.rm], p.op, p.n, p.imm))
       [] case = "PCMPEQB" -> Pair(i, pcmpeq(d, s, 1))
       [] case = "PCMPEQW" -> Pair(i, pcmpeq(d, s, 2))
       [] case = "PCMPEQD" -> Pair(i, pcmpeq(d, s, 4))

(* A register that is written or only read is taken with the same function,   *)
(* which sets its exponent.                                                   *)
Touched(s, k) == IF s.fault = "" THEN [s EXCEPT !.ones = @ \cup {k}] ELSE s

execute_0F7E_7F(i) ==
  LET case == Column(i, decode_7E_7F, \h7E)
      x == Dst(i, "x")
      m == Dst(i, "m")
      v == Src(i, "x")
  IN CASE case = "MOVD_EdMGd" -> Out(i, Touched(cpu_mmx_check(i.s), i.reg), 1, FALSE, "r", D(m, 0))
       [] case = "MOVD_EdXGd" -> Out(i, cpu_sse_exception(i.s), 1, FALSE, "r", D(x, 0))
       [] case = "MOVQ_XGqXEq" -> Sse(i, 2, FALSE, Over(Zeros(16), 0, Slice(v, 0, 8)))
       [] case = "MOVQ_MEqMGq" -> Out(i, cpu_mmx_check(i.s), 2, FALSE, "m", m)
       [] case = "MOVDQA_XE" -> SseOut(i, 4, TRUE, x)
       [] case = "MOVDQU_XE" -> SseOut(i, 4, FALSE, x)

cmpps(a, b, n, cmp) ==
  LET rel == Relation(n, a, b)
      holds == CASE cmp = 0 -> rel = "eq"
                 [] cmp = 1 -> rel = "lt"
                 [] cmp = 2 -> rel \in {"lt", "eq"}
                 [] cmp = 3 -> rel = "un"
                 [] cmp = 4 -> rel \in {"lt", "gt"}
                 [] cmp = 5 -> rel # "lt"
                 [] cmp = 6 -> rel \notin {"lt", "eq"}
                 [] cmp = 7 -> rel # "un"
  IN Mask(holds, n)

execute_0FC2_C6(i) ==
  LET case == Column(i, decode_sseC2_C6_tbl, \hC2)
      x == Dst(i, "x")
      v == Src(i, "x")
      compare(dwords, raises, n, count) ==
        LET args(k) == <<Lane(x, n, k), Lane(v, n, k)>>
            op == IF i.imm % 4 \in {1, 2} THEN "compare" ELSE "compare_quiet"
        IN Float0(i, dwords, raises, "x",
                  Over(x, 0, Pack([k \in 0 .. count - 1 |-> cmpps(args(k)[1], args(k)[2], n, i.imm % 8)], n)),
                  UNION {Raises(op, n, args(k)) : k \in 0 .. count - 1})
      file == File(i)
      lane == 2 * (i.imm % (IF file = "x" THEN 8 ELSE 4))
      extract(s) == IF s.fault # "" THEN s
                    ELSE get_dest(s, "r", i.reg, Over(Zeros(4), 0, Slice(i.s[file][i.rm], lane, 2)))
  IN CASE case = "CMPPS" -> compare(4, TRUE, 4, 4)
       [] case = "CMPSS" -> compare(1, TRUE, 4, 1)
       [] case = "CMPPD" -> compare(4, TRUE, 8, 2)
       [] case = "CMPSD" -> compare(2, FALSE, 8, 1)
       [] case = "MOVNTI" -> Out(i, i.s, 1, FALSE, "r", Dst(i, "r"))
       [] case = "PINSRW" -> Into(i, cpu_sse_exception(i.s), 1, FALSE, file,
                                  Over(Dst(i, file), lane, Slice(Src(i, "r"), 0, 2)))
       [] case = "PEXTRW" -> extract(IF file = "x" THEN cpu_sse_exception(i.s)
                                     ELSE Touched(cpu_mmx_check(i.s), i.rm))
       [] case = "SHUFPS" -> Sse(i, 4, TRUE, shufps(x, v, i.imm))
       [] case = "SHUFPD" -> Sse(i, 4, TRUE, shufpd(i, x, v, i.imm))

(* Shifts by an operand of which 64 bits count.                               *)
Count64(i, op, n) ==
  LET v == pshift(i, Dst(i, File(i)), op, n, get_shift(Src(i, File(i)), 8))
  IN IF i.prefix = 1 THEN Sse(i, 2, TRUE, v) ELSE Mmx(i, v)

execute_0FD0_D7(i) ==
  LET case == Column(i, decode_sseD0_D7_tbl, \hD1)
      s == Src(i, File(i))
      d == Dst(i, File(i))
      x == Dst(i, "x")
      low == IF i.isreg THEN Over(Zeros(16), 0, Slice(x, 0, 8)) ELSE Slice(x, 0, 8)
      both == cpu_sse_exception(cpu_mmx_check(i.s))
      bits(n) == Pack(0 :> pmovmskb(Slice(s, 0, n)), 4)
  IN CASE case = "PSRLW" -> Count64(i, "srl", 2)
       [] case = "PSRLD" -> Count64(i, "srl", 4)
       [] case = "PSRLQ" -> Count64(i, "srl", 8)
       [] case = "PADDQ" -> Pair(i, Each(d, s, 8, LAMBDA a, b : Wrap(a + b, 8)))
       [] case = "PMULLW" -> Pair(i, Each(d, s, 2, LAMBDA a, b : pmullw(a, b, 0)))
       [] case = "MOVQ_XEqXGq" -> SseOut(i, 2, FALSE, low)
       [] case = "MOVQ2DQ" ->
            IF both.fault # "" THEN both
            ELSE get_dest(Touched(both, i.reg), "x", i.reg, Over(Zeros(16), 0, Dst(i, "m")))
       [] case = "MOVDQ2Q" ->
            IF both.fault # "" THEN both ELSE get_dest(both, "m", i.reg, Slice(x, 0, 8))
       [] case = "PMOVMSKB" ->
            IF i.prefix = 1 THEN Into(i, cpu_sse_exception(i.s), 4, TRUE, "r", bits(16))
            ELSE Into(i, cpu_mmx_check(i.s), 2, FALSE, "r", bits(8))

execute_0FD8_DF(i) ==
  LET case == decode_sseD8_DF_tbl[i.op - \hD7]
      s == Src(i, File(i))
      d == Dst(i, File(i))
  IN Pair(i, CASE case = "PSUBUSB" -> Each(d, s, 1, LAMBDA a, b : psubus(a, b, 1))
               [] case = "PSUBUSW" -> Each(d, s, 2, LAMBDA a, b : psubus(a, b, 2))
               [] case = "PMINUB" -> Each(d, s, 1, LAMBDA a, b : IF b < a THEN b ELSE a)
               [] case = "PAND" -> Each(d, s, 1, LAMBDA a, b : a & b)
               [] case = "PADDUSB" -> Each(d, s, 1, LAMBDA a, b : paddus(a, b, 1))
               [] case = "PADDUSW" -> Each(d, s, 2, LAMBDA a, b : paddus(a, b, 2))
               [] case = "PMAXUB" -> Each(d, s, 1, LAMBDA a, b : IF a < b THEN b ELSE a)
               [] case = "PANDN" -> Each(d, s, 1, LAMBDA a, b : (2^Cell - 1 - a) & b))

execute_0FE0_E7(i) ==
  LET case == Column(i, decode_sseE0_E7_tbl, \hE0)
      s == Src(i, File(i))
      d == Dst(i, File(i))
      v == Src(i, "x")
      average(n) == Pair(i, Each(d, s, n, LAMBDA a, b : (a + b) \div 2))
      right(n) == Pair(i, pshift(i, d, "sra", n, get_shift(s, IF i.prefix = 1 THEN 16 ELSE 8)))
  IN CASE case = "PAVGB" -> average(1)
       [] case = "PSRAW" -> right(2)
       [] case = "PSRAD" -> right(4)
       [] case = "PAVGW" -> average(2)
       [] case = "PMULHUW" -> Pair(i, Each(d, s, 2, LAMBDA a, b : pmuluw(a, b, Bits(2))))
       [] case = "PMULHW" -> Pair(i, Each(d, s, 2, LAMBDA a, b : pmullw(a, b, Bits(2))))
       [] case = "CVTPD2DQ" -> Converted(i, 4, TRUE, "x", "round", v, 8, 4, 2, Zeros(16))
       [] case = "CVTTPD2DQ" -> Converted(i, 4, TRUE, "x", "trunc", v, 8, 4, 2, Zeros(16))
       [] case = "CVTDQ2PD" -> Converted(i, 4, TRUE, "x", "int", v, 4, 8, 2, Dst(i, "x"))
       [] case = "MOVNTQ" -> Out(i, cpu_mmx_check(i.s), 2, FALSE, "m", Dst(i, "m"))
       [] case = "MOVNTDQ" -> SseOut(i, 4, TRUE, Dst(i, "x"))

execute_0FE8_EF(i) ==
  LET case == decode_sseE8_EF_tbl[i.op - \hE7]
      s == Src(i, File(i))
      d == Dst(i, File(i))
  IN Pair(i, CASE case = "PSUBSB" -> Each(d, s, 1, LAMBDA a, b : psubs(a, b, 1))
               [] case = "PSUBSW" -> Each(d, s, 2, LAMBDA a, b : psubs(a, b, 2))
               [] case = "PMINSW" -> Each(d, s, 2, LAMBDA a, b : IF Signed(b, 2) < Signed(a, 2) THEN b ELSE a)
               [] case = "POR" -> Each(d, s, 1, LAMBDA a, b : a | b)
               [] case = "PADDSB" -> Each(d, s, 1, LAMBDA a, b : padds(a, b, 1))
               [] case = "PADDSW" -> Each(d, s, 2, LAMBDA a, b : padds(a, b, 2))
               [] case = "PMAXSW" -> Each(d, s, 2, LAMBDA a, b : IF Signed(b, 2) > Signed(a, 2) THEN b ELSE a)
               [] case = "PXOR" -> Each(d, s, 1, LAMBDA a, b : a ^^ b))

execute_0FF1_F7(i) ==
  LET case == decode_sseF1_F7_tbl[i.op - \hF0]
      s == Src(i, File(i))
      d == Dst(i, File(i))
      (* get_mmx_reg_src: the exponent stays *)
      left(n) == LET t == Count64(i, "sll", n) IN [t EXCEPT !.ones = i.s.ones]
      checked == IF i.prefix = 1 THEN cpu_sse_exception(i.s) ELSE cpu_mmx_check(i.s)
      chosen == {c \in DOMAIN d : i.s[File(i)][i.rm][c] >= 2^(Cell - 1)}
  IN CASE case = "PSLLW" -> left(2)
       [] case = "PSLLD" -> left(4)
       [] case = "PSLLQ" -> left(8)
       [] case = "PMULLUDQ" -> Pair(i, Each(d, s, 8, pmuludq))
       [] case = "PMADDWD" -> Pair(i, Each(d, s, 4, pmaddwd))
       [] case = "PSADBW" -> Pair(i, psadbw(d, s))
       [] case = "MASKMOV" ->
            IF checked.fault # "" THEN checked
            ELSE Store(checked, Word(i.s.r[7], 0, 4), [c \in chosen |-> d[c]])

execute_0FF8_FE(i) ==
  LET case == decode_sseF8_FE_tbl[i.op - \hF7]
      s == Src(i, File(i))
      d == Dst(i, File(i))
  IN Pair(i, CASE case = "PSUBB" -> psub(i, d, s, 1)
               [] case = "PSUBW" -> psub(i, d, s, 2)
               [] case = "PSUBD" -> psub(i, d, s, 4)
               [] case = "PSUBQ" -> psub(i, d, s, 8)
               [] case = "PADDB" -> padd(i, d, s, 1)
               [] case = "PADDW" -> padd(i, d, s, 2)
               [] case = "PADDD" -> padd(i, d, s, 4))

cpu_emms(s) ==
  LET t == cpu_mmx_check(s) IN IF t.fault # "" THEN t ELSE [t EXCEPT !.tags = "empty"]

Handler(i) ==
  CASE i.op \in \h10 .. \h17 -> execute_0F10_17(i)
    [] i.op \in \h28 .. \h2F -> execute_0F28_2F(i)
    [] i.op \in \h50 .. \h57 -> execute_0F50_57(i)
    [] i.op \in \h58 .. \h5F -> execute_0F58_5F(i)
    [] i.op \in \h60 .. \h67 -> execute_0F60_67(i)
    [] i.op \in \h68 .. \h6F -> execute_0F68_6F(i)
    [] i.op \in \h70 .. \h76 -> execute_0F70_76(i)
    [] i.op = \h77 -> cpu_emms(i.s)
    [] i.op \in \h7E .. \h7F -> execute_0F7E_7F(i)
    [] i.op \in \hC2 .. \hC6 -> execute_0FC2_C6(i)
    [] i.op \in \hD1 .. \hD7 -> execute_0FD0_D7(i)
    [] i.op \in \hD8 .. \hDF -> execute_0FD8_DF(i)
    [] i.op \in \hE0 .. \hE7 -> execute_0FE0_E7(i)
    [] i.op \in \hE8 .. \hEF -> execute_0FE8_EF(i)
    [] i.op \in \hF1 .. \hF7 -> execute_0FF1_F7(i)
    [] i.op \in \hF8 .. \hFE -> execute_0FF8_FE(i)

-----------------------------------------------------------------------------
Init ==
  /\ insn = <<>> /\ res = <<>> /\ executed = 0
  /\ \E m \in Masks : cpu = [masks |-> m, status |-> m]

(* LDMXCSR, in this thread and in another one.                                *)
cpu_update_mxcsr(own, m) == [masks |-> IF own THEN m ELSE cpu.masks, status |-> m]
Ldmxcsr ==
  /\ insn = <<>> /\ executed < 2
  /\ \E own \in BOOLEAN, m \in Masks : cpu' = cpu_update_mxcsr(own, m)
  /\ executed' = executed + 1 /\ UNCHANGED <<insn, res>>

Run ==
  /\ insn = <<>> /\ executed = 2
  /\ \E s \in Machines(cpu), op \in Ops(cpu), prefix \in 0 .. 3 : \E f \in Forms(op) :
       LET i == [op |-> op, prefix |-> prefix, s |-> s] @@ f
       IN Exists(i) /\ insn' = i /\ res' = Handler(i)
  /\ UNCHANGED <<cpu, executed>>

Next == Ldmxcsr \/ Run

-----------------------------------------------------------------------------
(* Where the code leaves something else than the architecture specifies: the  *)
(* registers it gets wrong, or all of the machine where it raises another     *)
(* exception or none.                                                         *)

Misaligned(i) ==
  /\ ~i.isreg /\ i.addr % 16 # 0
  /\ <<i.op, i.prefix>> \in
       (* an operand of 4 or 8 bytes may be at any address *)
       {\h16, \h17} \X {0, 1} \cup {\h2C, \h2D} \X {0, 2, 3} \cup {\h2E, \h2F} \X {0} \cup
       {\h51, \h52, \h53, \h5C, \h5D, \h5E, \h5F, \hC2, \hE6} \X {3} \cup {\h5A} \X {0, 2} \cup
       (* and one of 16 may not *)
       {\h14, \h15, \h58, \h59} \X {0, 1} \cup {\hD1, \hD2, \hD3, \hF1, \hF2, \hF3} \X {1}
NoTransition(i) ==
  \/ i.op \in {\h2C, \h2D} /\ i.prefix \in {0, 1}
  \/ i.op = \h2A /\ i.prefix \in {0, 1} /\ i.isreg
  \/ i.op = \hC4 /\ i.prefix = 0
CheckedInAnotherOrder(i) ==
  i.s.cr \cap {"EM", "TS"} # {} \/ "OSFXSR" \notin i.s.cr
(* The result is in the register before the exception is raised, and whether  *)
(* it is raised is decided by the masks that any thread loaded last.          *)
RaisedLate(i) == Performed(i).raised \ (i.s.masks \cap cpu.status) # {}
Approximated(i) == i.op \in {\h52, \h53}

Halved(i) == i.op \in \hF8 .. \hFB /\ Same(i)
RoundedDown(i) == i.op \in {\hE0, \hE3}
SignLost(i) ==
  LET s == Src(i, File(i))
      n == 2 * 2^(i.op - \hE1)
  IN \/ i.op \in {\h71, \h72} /\ i.reg = 4 /\ i.imm >= Bits(2 * 2^(i.op - \h71))
     \/ i.op \in {\hE1, \hE2} /\ \/ get_shift(s, 8) >= Bits(n)
                                 \/ i.prefix = 1 /\ \E c \in 8 .. 15 : s[c] # 0
BytesShifted(i) ==
  /\ i.op = \h73 /\ i.reg \in {3, 7}
  /\ i.imm = 0 \/ i.imm >= 32 \/ (i.reg = 7 /\ i.imm < 16 /\ i.imm # 8)
Shuffled(i) ==
  \/ i.op \in {\h14, \h15} /\ i.prefix = 0 /\ Same(i)
  \/ i.op = \hC6 /\ i.prefix = 1 /\ (i.imm \div 2) % 2 = 0
  \/ i.op = \h12 /\ i.prefix = 0 /\ ~i.isreg
  \/ i.op \in {\h52, \h53} /\ i.prefix = 3
OtherRegister(i) == i.op = \hD6 /\ i.prefix \in {2, 3} /\ i.reg # i.rm
Unordered(i) ==
  /\ i.op = \hC2 /\ i.imm = 4
  /\ \E k \in 0 .. Lanes(i) - 1 :
       Relation(LaneCells(i), Lane(Dst(i, "x"), LaneCells(i), k), Lane(Src(i, "x"), LaneCells(i), k)) = "un"
ExponentOf(i) ==
  \/ i.op \in {\h7E, \hC5, \hF1, \hF2, \hF3} /\ i.prefix = 0
  \/ i.op = \hD6 /\ i.prefix = 3

Deviates(i) ==
  CASE \/ Misaligned(i) \/ RaisedLate(i)
       \/ NoTransition(i) /\ i.s.pending
       \/ i.op \in {\hC4, \hD6} /\ i.prefix # 1 /\ CheckedInAnotherOrder(i) -> DOMAIN i.s
    [] OTHER ->
         (IF Halved(i) \/ RoundedDown(i) \/ SignLost(i) \/ BytesShifted(i) \/ Shuffled(i) \/ OtherRegister(i)
             \/ Unordered(i)
          THEN {IF i.op \in {\h12, \h14, \h15, \h52, \h53, \hC2, \hC6} \/ i.prefix = 1
                   \/ (i.op = \hD6 /\ i.prefix = 3) THEN "x" ELSE "m"} ELSE {})
         \cup (IF NoTransition(i) THEN {"top", "tags"} ELSE {})
         \cup (IF Approximated(i) THEN {"flags", "fault"} ELSE {})
         \cup (IF ExponentOf(i) THEN {"ones"} ELSE {})

(* An instruction leaves what the architecture specifies, but for those.      *)
Conforms ==
  insn' # <<>> =>
    \/ res' = Specified(insn')
    \/ \A part \in DOMAIN res' \ Deviates(insn') : res'[part] = Specified(insn')[part]
=============================================================================
