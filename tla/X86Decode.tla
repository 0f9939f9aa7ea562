------------------------------ MODULE X86Decode ------------------------------
(* What the architecture says an instruction in 32-bit code is: the opcode map *)
(* of the processors up to SSE2, in the notation of its manual (E is a ModR/M *)
(* operand, G a register, b, w and v are sizes), and how its bytes are read.  *)
(* An instruction i has prefixes, perhaps the escape 0F, an opcode and the    *)
(* bytes that follow it: modrm and sib are what they hold if they are read as *)
(* such.  Bytes are named by their offset, and a constant or displacement by  *)
(* where it is and how many bytes it has.  room bytes are left on the page,   *)
(* and next says if the page after it is there.                               *)
EXTENDS Integers, Sequences

Row(name, args) == [name |-> name, args |-> args]
(* Undefined, before and after the ModR/M byte is read.                       *)
Undefined == Row(<<"ud">>, <<>>)
UndefinedForm == Row(<<"ud">>, <<"skip">>)
Only(guard, row) == IF guard THEN row ELSE UndefinedForm

Reg(i) == (i.modrm \div 8) % 8
Rm(i) == i.modrm % 8
IsMem(i) == i.modrm < \hC0

-----------------------------------------------------------------------------
(* The opcode map. v is the size of operands, a that of addresses.            *)

Alu(n) == IF n = 7 THEN <<"cmp">> ELSE <<"arith", n>>
Unary(i, E, I) ==
  CASE Reg(i) \in {0, 1} -> Row(<<"test">>, <<E, I>>) [] Reg(i) = 2 -> Row(<<"not">>, <<E>>)
    [] Reg(i) = 3 -> Row(<<"neg">>, <<E>>) [] OTHER -> Row(<<"muldiv", Reg(i)>>, <<E>>)
Group5(i, v) ==
  CASE Reg(i) = 0 -> Row(<<"inc">>, <<"Ev">>) [] Reg(i) = 1 -> Row(<<"dec">>, <<"Ev">>)
    [] Reg(i) = 2 -> Row(<<"call", v>>, <<"Ev">>) [] Reg(i) = 4 -> Row(<<"jmp", v>>, <<"Ev">>)
    [] Reg(i) \in {3, 5} -> Only(IsMem(i), Row(IF Reg(i) = 3 THEN <<"callf", v>> ELSE <<"jmpf">>, <<"Mp">>))
    [] Reg(i) = 6 -> Row(<<"push", v>>, <<"Ev">>) [] OTHER -> UndefinedForm

Strings ==
  [k \in {\h6C, \h6E, \hA4, \hA6, \hAA, \hAC, \hAE} |->
     CASE k = \h6C -> "ins" [] k = \h6E -> "outs" [] k = \hA4 -> "movs" [] k = \hA6 -> "cmps"
       [] k = \hAA -> "stos" [] k = \hAC -> "lods" [] OTHER -> "scas"]
Simple ==
  [k \in {\h27, \h2F, \h37, \h3F, \h90, \h9B, \h9E, \h9F, \hCE, \hF1, \hF4, \hF5} \cup (\hF8 .. \hFD) |->
     CASE k = \h27 -> "daa" [] k = \h2F -> "das" [] k = \h37 -> "aaa" [] k = \h3F -> "aas"
       [] k = \h90 -> "nop" [] k = \h9B -> "fwait" [] k = \h9E -> "sahf" [] k = \h9F -> "lahf"
       [] k = \hCE -> "into" [] k = \hF1 -> "int1" [] k = \hF4 -> "hlt" [] k = \hF5 -> "cmc" [] k = \hF8 -> "clc"
       [] k = \hF9 -> "stc" [] k = \hFA -> "cli" [] k = \hFB -> "sti" [] k = \hFC -> "cld" [] OTHER -> "std"]
Sized ==
  [k \in {\h60, \h61, \h98, \h99, \h9C, \h9D, \hC3, \hC9, \hCB, \hCF} |->
     CASE k = \h60 -> "pusha" [] k = \h61 -> "popa" [] k = \h98 -> "cbw" [] k = \h99 -> "cwd" [] k = \h9C -> "pushf"
       [] k = \h9D -> "popf" [] k = \hC3 -> "ret" [] k = \hC9 -> "leave" [] k = \hCB -> "retf" [] OTHER -> "iret"]

Below40(op, v) ==
  LET n == op \div 8
  IN CASE op % 8 < 6 ->
            Row(Alu(n), <<<<"Eb", "Gb">>, <<"Ev", "Gv">>, <<"Gb", "Eb">>, <<"Gv", "Ev">>, <<"AL", "Ib">>,
                          <<"eAX", "Iz">>>>[(op % 8) + 1])
       [] op \in {\h06, \h0E, \h16, \h1E} -> Row(<<"push", v>>, <<"seg">>)
       [] OTHER -> Row(<<"pop", v>>, <<"seg">>)

Below90(i, op, v) ==
  CASE op \in \h40 .. \h47 -> Row(<<"inc">>, <<"Zv">>)
    [] op \in \h48 .. \h4F -> Row(<<"dec">>, <<"Zv">>)
    [] op \in \h50 .. \h57 -> Row(<<"push", v>>, <<"Zv">>)
    [] op \in \h58 .. \h5F -> Row(<<"pop", v>>, <<"Zv">>)
    [] op = \h62 -> Only(IsMem(i), Row(<<"bound">>, <<"Gv", "Ma">>))
    [] op = \h63 -> Row(<<"arpl">>, <<"Ew", "Gw">>)
    [] op = \h68 -> Row(<<"push", v>>, <<"Iz">>)
    [] op = \h6A -> Row(<<"push", v>>, <<"sIb">>)
    [] op = \h69 -> Row(<<"imul3">>, <<"Gv", "Ev", "Iz">>)
    [] op = \h6B -> Row(<<"imul3">>, <<"Gv", "Ev", "sIb">>)
    [] op \in \h70 .. \h7F -> Row(<<"jcc", op % 16, v>>, <<"Jb">>)
    [] op \in {\h80, \h82} -> Row(Alu(Reg(i)), <<"Eb", "Ib">>)
    [] op = \h81 -> Row(Alu(Reg(i)), <<"Ev", "Iz">>)
    [] op = \h83 -> Row(Alu(Reg(i)), <<"Ev", "sIb">>)
    [] op \in \h84 .. \h89 ->
         Row(<<<<"test">>, <<"xchg">>, <<"mov">>>>[((op - \h84) \div 2) + 1],
             IF op % 2 = 0 THEN <<"Eb", "Gb">> ELSE <<"Ev", "Gv">>)
    [] op = \h8A -> Row(<<"mov">>, <<"Gb", "Eb">>)
    [] op = \h8B -> Row(<<"mov">>, <<"Gv", "Ev">>)
    [] op = \h8C -> Only(Reg(i) < 6, Row(<<"mov">>, <<IF IsMem(i) THEN "Ew" ELSE "Ev", "Sw">>))
    [] op = \h8D -> Only(IsMem(i), Row(<<"lea">>, <<"Gv", "M">>))
    [] op = \h8E -> Only(Reg(i) \in {0, 2, 3, 4, 5}, Row(<<"mov">>, <<"Sw", "Ew">>))
    [] OTHER -> Only(Reg(i) = 0, Row(<<"pop", v>>, <<"Ev">>))

BelowC0(op, v) ==
  CASE op \in \h91 .. \h97 -> Row(<<"xchg">>, <<"eAX", "Zv">>)
    [] op = \h9A -> Row(<<"callf", v>>, <<"Iz", "Iw">>)
    [] op = \hA0 -> Row(<<"mov">>, <<"AL", "Ob">>)
    [] op = \hA1 -> Row(<<"mov">>, <<"eAX", "Ov">>)
    [] op = \hA2 -> Row(<<"mov">>, <<"Ob", "AL">>)
    [] op = \hA3 -> Row(<<"mov">>, <<"Ov", "eAX">>)
    [] op = \hA8 -> Row(<<"test">>, <<"AL", "Ib">>)
    [] op = \hA9 -> Row(<<"test">>, <<"eAX", "Iz">>)
    [] op \in \hB0 .. \hB7 -> Row(<<"mov">>, <<"Zb", "Ib">>)
    [] OTHER -> Row(<<"mov">>, <<"Zv", "Iz">>)

FromC0(i, op, v, a) ==
  CASE op \in {\hC0, \hC1, \hD0, \hD1, \hD2, \hD3} ->
         Row(<<"shift", Reg(i)>>, <<IF op % 2 = 0 THEN "Eb" ELSE "Ev",
                                    IF op < \hD0 THEN "Ib" ELSE IF op < \hD2 THEN "1" ELSE "CL">>)
    [] op = \hC2 -> Row(<<"ret", v>>, <<"Iw">>)
    [] op = \hC4 -> Only(IsMem(i), Row(<<"les">>, <<"Gv", "Mp">>))
    [] op = \hC5 -> Only(IsMem(i), Row(<<"lds">>, <<"Gv", "Mp">>))
    [] op = \hC6 -> Only(Reg(i) = 0, Row(<<"mov">>, <<"Eb", "Ib">>))
    [] op = \hC7 -> Only(Reg(i) = 0, Row(<<"mov">>, <<"Ev", "Iz">>))
    [] op = \hC8 -> Row(<<"enter", v>>, <<"Iw", "Ib">>)
    [] op = \hCA -> Row(<<"retf", v>>, <<"Iw">>)
    [] op = \hCC -> Row(<<"int">>, <<"3">>)
    [] op = \hCD -> Row(<<"int">>, <<"Ib">>)
    [] op = \hD4 -> Row(<<"aam">>, <<"Ib">>)
    [] op = \hD5 -> Row(<<"aad">>, <<"Ib">>)
    [] op = \hD7 -> Row(<<"xlat", a>>, <<"DS">>)
    [] op \in \hD8 .. \hDF -> Row(<<"fpu", op % 8, i.modrm, v>>, IF IsMem(i) THEN <<"M">> ELSE <<"skip">>)
    [] op \in \hE0 .. \hE3 -> Row(<<<<"loopnz", "loopz", "loop", "jcxz">>[op - \hDF], v, a>>, <<"Jb">>)
    [] op = \hE4 -> Row(<<"in">>, <<"AL", "Ib">>)
    [] op = \hE5 -> Row(<<"in">>, <<"eAX", "Ib">>)
    [] op = \hE6 -> Row(<<"out">>, <<"Ib", "AL">>)
    [] op = \hE7 -> Row(<<"out">>, <<"Ib", "eAX">>)
    [] op = \hE8 -> Row(<<"call", v>>, <<"Jz">>)
    [] op = \hE9 -> Row(<<"jmp", v>>, <<"Jz">>)
    [] op = \hEA -> Row(<<"jmpf">>, <<"Iz", "Iw">>)
    [] op = \hEB -> Row(<<"jmp", v>>, <<"Jb">>)
    [] op = \hEC -> Row(<<"in">>, <<"AL", "DX">>)
    [] op = \hED -> Row(<<"in">>, <<"eAX", "DX">>)
    [] op = \hEE -> Row(<<"out">>, <<"DX", "AL">>)
    [] op = \hEF -> Row(<<"out">>, <<"DX", "eAX">>)
    [] op = \hF6 -> Unary(i, "Eb", "Ib")
    [] op = \hF7 -> Unary(i, "Ev", "Iz")
    [] op = \hFE -> Only(Reg(i) < 2, Row(<<IF Reg(i) = 0 THEN "inc" ELSE "dec">>, <<"Eb">>))
    [] op = \hFF -> Group5(i, v)
    [] OTHER -> Undefined

OneByte(i, v, a) ==
  LET op == i.op
      even == op - (op % 2)
  IN CASE op \in DOMAIN Simple -> Row(<<Simple[op]>>, <<>>)
       [] op \in DOMAIN Sized -> Row(<<Sized[op], v>>, <<>>)
       [] even \in DOMAIN Strings ->
            Row(<<Strings[even], IF op = even THEN 8 ELSE v, a>>,
                IF even \in {\h6C, \hAA, \hAE} THEN <<"rep">> ELSE <<"rep", "DS">>)
       [] op < \h40 -> Below40(op, v)
       [] op \in \h40 .. \h8F -> Below90(i, op, v)
       [] op \in \h90 .. \hBF -> BelowC0(op, v)
       [] OTHER -> FromC0(i, op, v, a)

Group6(i) ==
  CASE Reg(i) \in {0, 1} -> Row(<<<<"sldt", "str">>[Reg(i) + 1]>>, <<IF IsMem(i) THEN "Ew" ELSE "Ev">>)
    [] Reg(i) \in 2 .. 5 -> Row(<<<<"lldt", "ltr", "verr", "verw">>[Reg(i) - 1]>>, <<"Ew">>)
    [] OTHER -> UndefinedForm
Group7(i, v) ==
  CASE Reg(i) \in {0, 1} -> Only(IsMem(i), Row(<<<<"sgdt", "sidt">>[Reg(i) + 1]>>, <<"M">>))
    [] Reg(i) \in {2, 3} -> Only(IsMem(i), Row(<<<<"lgdt", "lidt">>[Reg(i) - 1], v>>, <<"M">>))
    [] Reg(i) = 4 -> Row(<<"smsw">>, <<IF IsMem(i) THEN "Ew" ELSE "Ev">>)
    [] Reg(i) = 6 -> Row(<<"lmsw">>, <<"Ew">>)
    [] Reg(i) = 7 -> Only(IsMem(i), Row(<<"invlpg">>, <<"M">>))
    [] OTHER -> UndefinedForm
Group15(i) ==
  IF IsMem(i)
  THEN CASE Reg(i) < 4 -> Row(<<<<"fxsave", "fxrstor", "ldmxcsr", "stmxcsr">>[Reg(i) + 1]>>, <<"M">>)
         [] Reg(i) = 7 -> Row(<<"fence">>, <<"skip">>) [] OTHER -> UndefinedForm
  ELSE Only(Reg(i) >= 5, Row(<<"fence">>, <<"skip">>))

SimdOps ==
  (\h10 .. \h17) \cup (\h28 .. \h2F) \cup (\h50 .. \h76) \cup {\h7E, \h7F}
    \cup (\hC2 .. \hC6) \cup ((\hD1 .. \hFE) \ {\hF0})
Simple0F ==
  [k \in {\h06, \h08, \h09, \h30, \h31, \h32, \h33, \h34, \h35, \h77, \hA2} |->
     CASE k = \h06 -> "clts" [] k = \h08 -> "invd" [] k = \h09 -> "wbinvd" [] k = \h30 -> "wrmsr" [] k = \h31 -> "rdtsc"
       [] k = \h32 -> "rdmsr" [] k = \h33 -> "rdpmc" [] k = \h34 -> "sysenter" [] k = \h35 -> "sysexit" [] k = \h77 -> "emms"
       [] OTHER -> "cpuid"]
BitOps == <<"bt", "bts", "btr", "btc">>

TwoByte(i, v, simd) ==
  LET op == i.op
  IN CASE op \in DOMAIN Simple0F -> Row(<<Simple0F[op]>>, <<>>)
       [] op \in SimdOps -> Row(<<"simd", op, simd>>, <<"Ed", "Gd">> \o
                                IF op \in (\h70 .. \h73) \cup {\hC2, \hC4, \hC5, \hC6} THEN <<"Ib">> ELSE <<>>)
       [] op = \h00 -> Group6(i)
       [] op = \h01 -> Group7(i, v)
       [] op = \h02 -> Row(<<"lar">>, <<"Gv", "Ew">>)
       [] op = \h03 -> Row(<<"lsl">>, <<"Gv", "Ew">>)
       [] op = \h18 -> Row(<<"prefetch">>, <<"skip">>)
       [] op \in \h19 .. \h1F -> Row(<<"nop">>, <<"skip">>)
       [] op \in {\h20, \h21} -> Row(<<"mov">>, <<"Rd", IF op = \h20 THEN "Cd" ELSE "Dd">>)
       [] op \in {\h22, \h23} -> Row(<<"mov">>, <<IF op = \h22 THEN "Cd" ELSE "Dd", "Rd">>)
       [] op \in \h40 .. \h4F -> Row(<<"cmov", op % 16>>, <<"Gv", "Ev">>)
       [] op \in \h80 .. \h8F -> Row(<<"jcc", op % 16, v>>, <<"Jz">>)
       [] op \in \h90 .. \h9F -> Row(<<"setcc", op % 16>>, <<"Eb">>)
       [] op \in {\hA0, \hA8} -> Row(<<"push", v>>, <<"seg">>)
       [] op \in {\hA1, \hA9} -> Row(<<"pop", v>>, <<"seg">>)
       [] op \in {\hA3, \hAB, \hB3, \hBB} -> Row(<<BitOps[((op - \hA3) \div 8) + 1]>>, <<"Ev", "Gv">>)
       [] op = \hBA -> Only(Reg(i) >= 4, Row(<<BitOps[Reg(i) - 3]>>, <<"Ev", "Ib">>))
       [] op \in {\hA4, \hA5, \hAC, \hAD} ->
            Row(<<IF op < \hA8 THEN "shld" ELSE "shrd">>, <<"Ev", "Gv", IF op % 2 = 0 THEN "Ib" ELSE "CL">>)
       [] op = \hAE -> Group15(i)
       [] op = \hAF -> Row(<<"imul">>, <<"Gv", "Ev">>)
       [] op \in {\hB0, \hB1, \hC0, \hC1} ->
            Row(<<IF op < \hC0 THEN "cmpxchg" ELSE "xadd">>, IF op % 2 = 0 THEN <<"Eb", "Gb">> ELSE <<"Ev", "Gv">>)
       [] op \in {\hB2, \hB4, \hB5} ->
            Only(IsMem(i), Row(<<<<"lss", "", "lfs", "lgs">>[op - \hB1]>>, <<"Gv", "Mp">>))
       [] op \in {\hB6, \hB7, \hBE, \hBF} ->
            Row(IF op % 2 = 1 /\ v = 16 THEN <<"mov">> ELSE IF op < \hB8 THEN <<"movzx">> ELSE <<"movsx">>,
                <<"Gv", IF op % 2 = 0 THEN "Eb" ELSE "Ew">>)
       [] op \in {\hBC, \hBD} -> Row(<<IF op = \hBC THEN "bsf" ELSE "bsr">>, <<"Gv", "Ev">>)
       [] op = \hC7 -> Only(IsMem(i) /\ Reg(i) = 1, Row(<<"cmpxchg8b">>, <<"M">>))
       [] op \in \hC8 .. \hCF -> Row(<<"bswap">>, <<"Zv">>)
       [] OTHER -> Undefined

-----------------------------------------------------------------------------
(* Prefixes: of each group the last one counts; 66 selects an SSE instruction *)
(* only without F2 and F3, which repeat a string instruction.                 *)
Has(i, b) == \E k \in DOMAIN i.prefixes : i.prefixes[k] = b
LastOf(i, group) ==
  LET at == {k \in DOMAIN i.prefixes : i.prefixes[k] \in group}
  IN IF at = {} THEN 0 ELSE i.prefixes[CHOOSE k \in at : \A j \in at : j <= k]
OperandSize(i) == IF Has(i, \h66) THEN 16 ELSE 32
AddressSize(i) == IF Has(i, \h67) THEN 16 ELSE 32
SegmentPrefix == [b \in {\h26, \h2E, \h36, \h3E, \h64, \h65} |-> IF b < \h64 THEN (b - \h26) \div 8 ELSE b - \h60]
DS == 3
SS == 2
Segment(i, default) ==
  LET b == LastOf(i, DOMAIN SegmentPrefix) IN IF b = 0 THEN default ELSE SegmentPrefix[b]
Repeat(i) == CASE LastOf(i, {\hF2, \hF3}) = \hF3 -> 1 [] LastOf(i, {\hF2, \hF3}) = \hF2 -> 2 [] OTHER -> 0
SimdPrefix(i) == IF Repeat(i) # 0 THEN LastOf(i, {\hF2, \hF3}) ELSE IF Has(i, \h66) THEN \h66 ELSE 0

(* LOCK is for instructions that change memory they have read.                *)
Lockable(row) ==
  /\ row.args # <<>> /\ row.args[1] \in {"Eb", "Ev", "M"}
  /\ row.name[1] \in {"arith", "inc", "dec", "not", "neg", "xchg", "xadd", "bts", "btr", "btc", "cmpxchg", "cmpxchg8b"}

-----------------------------------------------------------------------------
(* The operands *)

None == 8
(* Where register n of a width lies in the file of 8 times 4 bytes.           *)
RegAt(n, w) == IF w = 8 THEN (4 * (n % 4)) + (n \div 4) ELSE 4 * n
Register(n, w) == <<"reg", RegAt(n, w), w>>

(* The effective address, if the byte after ModR/M is at offset at.           *)
Address16(i, at) ==
  LET mod == i.modrm \div 64
      direct == mod = 0 /\ Rm(i) = 6
      disp == IF direct THEN 2 ELSE <<0, 1, 2>>[mod + 1]
      pair == <<<<3, 6>>, <<3, 7>>, <<5, 6>>, <<5, 7>>, <<6, None>>, <<7, None>>, <<5, None>>, <<3, None>>>>[Rm(i) + 1]
  IN [base |-> IF direct THEN None ELSE pair[1], index |-> IF direct THEN None ELSE pair[2], scale |-> 0,
      disp |-> disp, at |-> at, end |-> at + disp]
Address32(i, at) ==
  LET mod == i.modrm \div 64
      hassib == Rm(i) = 4
      base == IF hassib THEN i.sib % 8 ELSE Rm(i)
      direct == mod = 0 /\ base = 5
      index == IF hassib /\ (i.sib \div 8) % 8 # 4 THEN (i.sib \div 8) % 8 ELSE None
      disp == IF direct THEN 4 ELSE <<0, 1, 4>>[mod + 1]
      here == IF hassib THEN at + 1 ELSE at
  IN [base |-> IF direct THEN None ELSE base, index |-> index,
      scale |-> IF index = None THEN 0 ELSE i.sib \div 64, disp |-> disp, at |-> here, end |-> here + disp]
Address(i, at) == IF AddressSize(i) = 16 THEN Address16(i, at) ELSE Address32(i, at)
Memory(i, w, m) ==
  <<"mem", w, Segment(i, IF m.base \in {4, 5} THEN SS ELSE DS), m.base, m.index, m.scale,
    IF m.disp = 0 THEN 0 ELSE m.at, m.disp, AddressSize(i)>>

Constants(i, arg) ==
  CASE arg \in {"Ib", "sIb", "Jb"} -> 1 [] arg = "Iw" -> 2 [] arg \in {"Iz", "Jz"} -> OperandSize(i) \div 8
    [] arg \in {"Ob", "Ov"} -> AddressSize(i) \div 8 [] OTHER -> 0
WidthOf(i, arg) ==
  CASE arg \in {"Eb", "Gb", "Zb", "Ob", "AL"} -> 8 [] arg \in {"Ew", "Gw"} -> 16 [] arg \in {"Ed", "Gd", "Rd"} -> 32
    [] arg = "Ma" -> 2 * OperandSize(i) [] arg = "Mp" -> OperandSize(i) + 16 [] arg = "M" -> 0 [] OTHER -> OperandSize(i)
ModrmArgs == {"Eb", "Ew", "Ev", "Ed", "Gb", "Gw", "Gv", "Gd", "Rd", "Cd", "Dd", "Sw", "M", "Ma", "Mp", "skip"}

Operand(i, arg, w, n, m, at) ==
  CASE arg \in {"Eb", "Ew", "Ev", "Ed", "M", "Ma", "Mp"} ->
         IF IsMem(i) THEN Memory(i, w, m) ELSE Register(Rm(i), w)
    [] arg = "Rd" -> Register(Rm(i), w)
    [] arg \in {"Gb", "Gw", "Gv", "Gd"} -> Register(Reg(i), w)
    [] arg \in {"Zb", "Zv"} -> Register(i.op % 8, w)
    [] arg \in {"AL", "eAX"} -> Register(0, w)
    [] arg = "CL" -> Register(1, 8)
    [] arg = "DX" -> Register(2, 16)
    [] arg = "Sw" -> <<"seg", Reg(i)>>
    [] arg = "seg" -> <<"seg", (i.op \div 8) % 8>>
    [] arg = "DS" -> <<"seg", Segment(i, DS)>>
    [] arg = "Cd" -> <<"control", Reg(i)>>
    [] arg = "Dd" -> <<"debug", Reg(i)>>
    [] arg = "rep" -> <<"rep", Repeat(i)>>
    [] arg = "1" -> <<"const", 1>>
    [] arg = "3" -> <<"const", 3>>
    [] arg \in {"Ob", "Ov"} -> <<"mem", w, Segment(i, DS), None, None, 0, at, n, AddressSize(i)>>
    [] arg \in {"sIb", "Jb"} -> <<"imm", at, 8, OperandSize(i)>>
    [] OTHER -> <<"imm", at, 8 * n, 0>>

(* What instruction i is if it is in this row of the map: its name and its    *)
(* operands, if its bytes can all be fetched and are at most 15.              *)
InRow(i, row) ==
  LET args == row.args
      after == Len(i.prefixes) + IF i.escape THEN 2 ELSE 1
      modrm == \E k \in DOMAIN args : args[k] \in ModrmArgs
      m == Address(i, after + 1)
      first == CASE ~modrm -> after
                 [] IsMem(i) /\ \A k \in DOMAIN args : args[k] # "Rd" -> m.end
                 [] OTHER -> after + 1
      bytes(k) == IF k \in DOMAIN args THEN Constants(i, args[k]) ELSE 0
      at(k) == first + (IF k > 1 THEN bytes(1) ELSE 0) + (IF k > 2 THEN bytes(2) ELSE 0)
      len == at(3) + bytes(3)
      named == IF Has(i, \hF0) /\ ~(Lockable(row) /\ IsMem(i)) THEN <<"ud">> ELSE row.name
      what == CASE (IF len < 15 THEN len ELSE 15) > i.room /\ ~i.next -> <<"fault">>
                [] len > 15 -> <<"gp">>
                [] OTHER -> named
  IN [name |-> what, len |-> len,
      ops |-> IF what # row.name \/ what = <<"ud">> \/ args = <<"skip">> THEN <<>>
              ELSE [k \in DOMAIN args |-> Operand(i, args[k], WidthOf(i, args[k]), Constants(i, args[k]), m, at(k))]]
Specified(i) ==
  InRow(i, IF i.escape THEN TwoByte(i, OperandSize(i), SimdPrefix(i)) ELSE OneByte(i, OperandSize(i), AddressSize(i)))
=============================================================================
