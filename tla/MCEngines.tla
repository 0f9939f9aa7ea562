------------------------------ MODULE MCEngines ------------------------------
(***************************************************************************)
(* The two engines that execute the guest's instructions, each on its      *)
(* instance: a process has one of them, the interpreter in the default     *)
(* build and the code the JIT emits in the other.                          *)
(***************************************************************************)
EXTENDS Integers, Sequences, FiniteSets, TLC

VARIABLES engine, insn, res, executed,
          cpu,      \* of the interpreter, and the control of its SIMD unit, FPU and decoder
          eflags    \* of the JIT

-----------------------------------------------------------------------------
(* The interpreter. Zero, the nibble and sign boundaries and all ones of a    *)
(* width; after two instructions of any kind one that depends on flags.       *)
InterpValue == [w \in {8, 16} |-> {0, 15, 16, 2^(w - 1) - 1, 2^(w - 1), 2^w - 1}]
InterpFew == [w \in {8, 16} |-> {1, 2^w - 1}]
AllNames == {"ADD", "ADC", "SBB", "SUB", "CMP", "XADD", "CMPXCHG", "LOGIC", "INC", "DEC",
             "MUL", "IMUL", "DIV", "IDIV", "SHL", "SHR", "SAR", "ROL", "ROR", "RCL", "RCR", "SHLD", "SHRD",
             "BT", "BSF", "BSR", "CARRY", "SAHF", "POPF", "FCOMI", "UCOMIS", "DAA", "DAS",
             "AAA", "AAS", "AAM", "AAD", "JCC"}
Readers == {"ADC", "INC", "RCL", "ROL", "CARRY", "SAHF", "JCC"}

(* The handlers: a few machines with bytes in memory that repeat, and with    *)
(* registers at the end of their range or across a byte; each condition both  *)
(* ways.                                                                      *)
Pattern(c, p, z) == [CF |-> c, PF |-> p, AF |-> c, ZF |-> z, SF |-> p, OF |-> z]
Content == <<0, 52, 0, 128, 1, 255, 7, 52, 52, 18, 9, 0, 127, 3, 214, 12, 2, 52, 255>>
Machine(eax, ecx, esp, esi, edi, eip, df) ==
  [r |-> [EAX |-> eax, ECX |-> ecx, EDX |-> 3, EBX |-> 5, ESP |-> esp, EBP |-> 4,
          ESI |-> esi, EDI |-> edi, EIP |-> eip],
   m |-> [a \in 0 .. 18 |-> Content[a + 1]], df |-> df]
InterpMachines == {Machine(13364, 3, 8, 2, 7, 100, 0), Machine(0, 0, 3, 1, 3, 65534, 1),
                   Machine(65535, 264, 65535, 255, 5, 254, 0),
                   Machine(308, 9, 260, 7, 8, 32767, 1)}

Interp == INSTANCE Interpreter WITH
            RegWidth <- 16, Width <- {8, 16}, Names <- <<AllNames, AllNames, Readers>>,
            Value <- InterpValue, Few <- InterpFew,
            Counts <- {0, 1, 7, 8, 9, 16}, FewCounts <- {1, 9},
            Cell <- 8, Chunk <- 2, Machines <- InterpMachines, Jumps <- {65530, 7},
            Bytes <- {1, 8, 129},
            Loads <- {Pattern(c, p, z) : c, p, z \in {0, 1}}

-----------------------------------------------------------------------------
(* The JIT. Every value of a narrow operand; of a full one those next to a    *)
(* power of two that matters, and the alternating patterns. Any flags, then   *)
(* any instruction, then one that depends on flags.                           *)
JitValue == [w \in {4, 8} |->
               IF w < 8 THEN 0 .. 2^w - 1
               ELSE {0, 1, 2, 15, 16, 17, 64, 85, 127, 128, 129, 170, 192, 240, 254, 255}]
JitMachines == {[r |-> [ESP |-> esp, EBP |-> ebp, EIP |-> 6],
                 m |-> [a \in 0 .. 7 |-> <<2, 0, 15, 3, 1, 9, 0, 14>>[a + 1]]] : esp, ebp \in {0, 1, 3, 127, 255}}
JitPatterns == {[CF |-> c, PF |-> p, AF |-> p, ZF |-> p, SF |-> p, OF |-> p] : c, p \in {0, 1}}
JitNames == <<{"POPF"},
              {"INC", "DEC", "ADD", "XADD", "XCHG", "MOV", "LEA", "PUSH", "POP", "JMP", "CALL",
               "RET", "LEAVE", "ADC", "SBB", "SUB", "CMP", "LOGIC", "CMPXCHG", "MUL", "IMUL",
               "DIV", "IDIV", "SHR", "SHL", "SAR", "ROL", "ROR", "RCR", "SHLD", "SHRD", "BSF",
               "JCC", "SAHF", "SCAS", "CMPS", "MOVS"},
              {"JCC", "INC", "RCR"}>>

Jit == INSTANCE JitCode WITH
         RegWidth <- 8, Width <- {4, 8}, Names <- JitNames, Value <- JitValue,
         Counts <- {0, 1, 3, 4, 5, 7, 8, 9}, Memory <- [0 .. 3 -> {0, 1}],
         Machines <- JitMachines, Patterns <- JitPatterns

-----------------------------------------------------------------------------
(* The SIMD instructions: cells of three bits, so that a lane has 3 to 24 and *)
(* a register 48. The arithmetic is any that tells the operations and their   *)
(* operands apart and raises every kind of exception.                         *)
FloatCode == "add" :> 1 @@ "mul" :> 2 @@ "sub" :> 3 @@ "min" :> 4 @@ "div" :> 5 @@ "max" :> 6 @@
             "sqrt" :> 7 @@ "int" :> 8 @@ "round" :> 9 @@ "trunc" :> 10 @@ "widen" :> 11 @@
             "narrow" :> 12 @@ "compare" :> 13 @@ "compare_quiet" :> 14
Hash(op, n, args) == 37 * FloatCode[op] + 13 * args[1] + IF Len(args) = 2 THEN 5 * args[2] ELSE 0
SseFloat(op, n, args) ==
  LET One == Hash("int", 4, <<1>>) % 8^4
      div(a) == Hash("div", 4, <<One, a>>) % 8^4
  IN CASE op = "rcp" -> div(args[1])
       [] op = "rsqrt" -> div(Hash("sqrt", 4, args) % 8^4)
       [] OTHER -> Hash(op, n, args) % 8^n
SseRaises(op, n, args) ==
  IF op \in {"rcp", "rsqrt"} \/ (op = "int" /\ n = 8) THEN {}
  ELSE <<{}, {"I"}, {"P"}, {"O", "P"}, {"D"}, {"Z"}, {"U", "P"}>>[(Hash(op, n, args) % 7) + 1]
SseRelation(n, a, b) ==
  CASE a = 8^n - 1 \/ b = 8^n - 1 -> "un"
    [] a = b -> "eq"
    [] OTHER -> IF a < b THEN "lt" ELSE "gt"

SseMasks == {{"I", "D", "Z", "O", "U", "P"}, {"I", "P"}}
SseCells(n, seed, values) == [c \in 0 .. n - 1 |-> values[(((seed * (c + 2) * (c + 2) * (c + 2)) % 13) % Len(values)) + 1]]
SseCount(n, k, high) ==
  [c \in 0 .. n - 1 |-> CASE c = 0 -> k % 8 [] c = 1 -> k \div 8 [] c \in 2 .. 7 -> 0 [] OTHER -> high]
SseMachine(x, y, m, mem) ==
  [x |-> 0 :> x @@ 1 :> y, m |-> 0 :> m @@ 1 :> [c \in 0 .. 7 |-> y[c]], ones |-> {},
   r |-> [k \in {0, 1, 7} |-> IF k = 7 THEN SseCount(4, 5, 0) ELSE [c \in 0 .. 3 |-> x[c + k]]],
   mem |-> mem, top |-> 3, tags |-> "some", flags |-> {"Z"}, eflags |-> {"CF"},
   cr |-> {"OSFXSR", "OSXMMEXCPT"}, pending |-> FALSE, fault |-> ""]
(* Any values; those at the ends of the ranges; counts next to the width of a *)
(* lane, in registers and memory; operands that are equal in places.          *)
All8 == <<0, 1, 2, 3, 4, 5, 6, 7>>
Edges == <<0, 7, 3, 4>>
SseAny == SseMachine(SseCells(16, 1, All8), SseCells(16, 2, All8), SseCells(8, 5, All8), SseCells(32, 7, All8))
SseEnds == SseMachine(SseCells(16, 1, Edges), SseCells(16, 3, Edges), SseCells(8, 5, Edges), SseCells(32, 6, Edges))
SseSmall(k, j, high) ==
  LET count == SseCount(16, j, high)
      d == SseCells(16, k, All8)
  IN SseMachine(d, SseCount(16, k, 0), SseCells(8, 5, All8),
                [a \in 0 .. 31 |-> IF a < 16 THEN count[a] ELSE IF a % 3 = 0 THEN d[a - 16] ELSE 7 - d[a - 16]])
SseMachines == {SseAny, SseEnds, SseSmall(2, 6, 3), SseSmall(12, 5, 0)}
(* The other states of the processor: what makes the instructions unavailable *)
(* or changes the exception.                                                  *)
SseStates(s) ==
  {[s EXCEPT !.cr = c] : c \in {{"OSXMMEXCPT"}, {"OSFXSR"}, {"OSFXSR", "TS"}, {"TS"}, {"OSFXSR", "EM"}}}
    \cup {[s EXCEPT !.pending = TRUE]}
SseFloats == {\h2A, \h2C, \h2D, \h2E, \h2F} \cup (\h51 .. \h53) \cup (\h58 .. \h5F) \cup {\hC2, \hE6}
SseOps == (\h10 .. \h17) \cup (\h28 .. \h2F) \cup (\h50 .. \h77) \cup (\h7E .. \h7F)
            \cup (\hC2 .. \hC6) \cup ((\hD1 .. \hFE) \ {\hF0})
SseImm(op) ==
  CASE op \in \h71 .. \h73 -> {0, 2, 5, 6, 7, 11, 12, 15, 17, 33}
    [] op \in {\h70, \hC6} -> {27, 228, 1, 146}
    [] op = \hC2 -> 0 .. 7
    [] op \in {\hC4, \hC5} -> {0, 3, 6}
    [] OTHER -> {0}
SseForms(op) ==
  IF op \in \h71 .. \h73
  THEN [reg : {2, 3, 4, 6, 7}, rm : {1}, isreg : {TRUE}, addr : {0}, imm : SseImm(op),
        host : IF op = \h73 THEN BOOLEAN ELSE {FALSE}]
  ELSE [reg : {0, 1}, rm : {0, 1}, isreg : {TRUE}, addr : {0}, imm : SseImm(op), host : {FALSE}]
       \cup [reg : {0}, rm : {0}, isreg : {FALSE}, addr : {0, 16, 8, 4, 5}, imm : SseImm(op), host : {FALSE}]
(* Unless all exceptions are masked only what may raise one is of interest.   *)
AllMasked(c) == c.masks = c.status /\ Cardinality(c.masks) = 6
SseMachinesUnder(c) ==
  {s @@ [masks |-> c.masks] : s \in IF AllMasked(c) THEN SseMachines \cup SseStates(SseAny) ELSE SseMachines}

Sse == INSTANCE Simd WITH Cell <- 3, Float <- SseFloat, Raises <- SseRaises, Relation <- SseRelation,
         CountCells <- 2, Masks <- SseMasks, Ops <- LAMBDA c : IF AllMasked(c) THEN SseOps ELSE SseFloats,
         Machines <- SseMachinesUnder, Forms <- SseForms

-----------------------------------------------------------------------------
(* The FPU: of every class a number, rotated through the registers; the       *)
(* arithmetic is again any that tells operations and operands apart, raises   *)
(* every kind of exception and is exact only on what is zero or infinite.     *)
FpuHalf == 2097152
N(class, neg, n) == [class |-> class, neg |-> neg, n |-> n]
FpuValues == <<N("normal", FALSE, 3), N("normal", TRUE, 5), N("zero", TRUE, 0), N("inf", FALSE, 0),
               N("normal", FALSE, 12345), N("qnan", FALSE, 2), N("denormal", FALSE, 1),
               N("normal", FALSE, 8), N("zero", FALSE, 0), N("snan", TRUE, 3), N("unsupported", FALSE, 4)>>
FpuNaN == {"qnan", "snan", "unsupported"}
FpuNames == <<"add", "mul", "sub", "div", "f2xm1", "fyl2x", "tan", "fpatan", "exponent", "significand",
              "fprem", "fprem1", "fyl2xp1", "sqrt", "sin", "cos", "round", "scale", "one",
              "float32", "float64">>
FpuInt == {"int16", "int32", "int64", "truncated int16", "truncated int32", "truncated int64", "bcd"}
FpuHash(name, args) ==
  LET of(v) == 2 * v.n + IF v.neg THEN 1 ELSE 0
  IN (CHOOSE k \in DOMAIN FpuNames : FpuNames[k] = name) + 2 * of(args[1])
       + IF Len(args) = 2 THEN of(args[2]) ELSE 0
FpuClasses(args) == {args[k].class : k \in DOMAIN args}
FpuTooBig(name, v) == v.class \in FpuNaN \cup {"inf"} \/ (name = "bcd" /\ v.n >= 10000)
FpuFloat(name, args) ==
  LET v == args[1]
      h == FpuHash(name, args)
  IN CASE name = "float80" -> v
       [] name = "extend" ->
            CASE v.class = "snan" -> [v EXCEPT !.class = "qnan"]
              [] v.class = "denormal" -> N("normal", v.neg, -1) [] OTHER -> v
       [] name \in FpuInt ->
            IF FpuTooBig(name, v) THEN IF name = "bcd" THEN N("qnan", TRUE, 0) ELSE N("int", TRUE, FpuHalf)
            ELSE N("int", v.neg, IF v.class = "denormal" THEN 0 ELSE v.n)
       [] OTHER ->
            IF FpuClasses(args) \cap FpuNaN # {} THEN N("qnan", TRUE, h)
            ELSE N(<<"normal", "zero", "normal", "inf">>[(h % 4) + 1], h % 3 = 0, h)
FpuRaises(name, args) ==
  LET v == args[1]
      w == args[Len(args)]
      h == FpuHash(name, args)
  IN CASE name = "float80" -> {}
       [] name \in FpuInt ->
            CASE FpuTooBig(name, v) -> {"I"} [] v.n = 5 -> {"P", "C1"}
              [] v.class = "denormal" \/ v.n = 8 -> {"P"} [] OTHER -> {}
       [] FpuClasses(args) \cap {"snan", "unsupported"} # {} -> {"I"}
       [] name = "extend" -> IF v.class = "denormal" THEN {"D"} ELSE {}
       [] "qnan" \in FpuClasses(args) -> {}
       [] name = "div" /\ w.class = "zero" -> {"Z"}
       [] name \in {"exponent", "fyl2x"} /\ v.class = "zero" -> {"Z"}
       [] name \in {"sqrt", "sin", "cos", "tan"} /\ (v.class = "inf" \/ (name = "sqrt" /\ v.neg)) -> {"I"}
       [] name \in {"fprem", "fprem1"} /\ (v.class = "inf" \/ w.class = "zero") -> {"I"}
       [] "denormal" \in FpuClasses(args) -> IF h % 2 = 0 THEN {"D"} ELSE {"D", "P"}
       [] FpuClasses(args) \cap {"inf", "zero"} # {} -> {}
       [] OTHER -> <<{}, {"P"}, {"P", "C1"}, {"O", "P"}, {"U", "P", "C1"}>>[(h % 5) + 1]
FpuTooLarge(v) == v.class = "normal" /\ v.n >= 10000
FpuQuotient(args) ==
  IF FpuRaises("fprem", args) = {"I"} \/ FpuClasses(args) \cap FpuNaN # {} THEN -1
  ELSE IF FpuTooLarge(args[1]) THEN 8 ELSE FpuHash("fprem", args) % 8

(* Stacks that are full, empty, or full but for a register an instruction may *)
(* want; exceptions masked and not, and one that is pending.                  *)
FpuTag(v) ==
  IF v = N("zero", FALSE, 0) THEN "zero" ELSE IF v.class \in {"normal", "zero"} THEN "valid" ELSE "special"
FpuState(shift, top, full, masks, sw) ==
  LET st == [p \in 0 .. 7 |-> FpuValues[((((p - top) % 8) + shift) % 11) + 1]]
  IN [st |-> st, tag |-> [p \in 0 .. 7 |-> IF ((p - top) % 8) \in full THEN FpuTag(st[p]) ELSE "empty"],
      top |-> top, masks |-> masks, rc |-> 1, sw |-> sw, ip |-> 7, op |-> <<1, 2, 3>>, dp |-> 5,
      eflags |-> IF shift % 2 = 0 THEN {"CF", "OF", "PF"} ELSE {"ZF", "AF"},
      out |-> <<>>, cr |-> {}, mxcsr |-> "own", fault |-> ""]
FpuAll == {"I", "D", "Z", "O", "U", "P"}
FpuMachines(c) ==
  {FpuState(shift, 3, IF shift % 2 = 0 THEN 0 .. 6 ELSE 0 .. 7, masks,
            IF shift % 3 = 0 THEN {"C0", "C1", "C2", "C3", "P"} ELSE {}) :
     shift \in 0 .. 10, masks \in {FpuAll, {}}}
  \cup {FpuState(0, 0, full, masks, {}) :
          full \in {{}, {0}, 1 .. 6, {0, 2, 3}, 0 .. 7}, masks \in {FpuAll, {}}}
  \cup {FpuState(shift, 0, 0 .. 6, FpuAll \ {"O", "U", "Z"}, {}) : shift \in {5, 7}}
  \cup {FpuState(0, 3, 0 .. 6, {"P"}, {"I", "ES"})}
  \cup {[FpuState(0, 3, 0 .. 6, FpuAll, {}) EXCEPT !.cr = cr] : cr \in {{"TS"}, {"MP", "TS"}, {"EM"}}}

FpuImages ==
  {[env |-> [masks |-> masks, rc |-> 2, sw |-> {"Z", "C2"} \cup (IF "Z" \in masks THEN {} ELSE {"ES"}),
             top |-> 6, tags |-> [p \in 0 .. 7 |-> IF p \in {1, 6} THEN "empty" ELSE "valid"],
             ip |-> 9, op |-> <<4, 4, 4>>, dp |-> 8],
    regs |-> [k \in 0 .. 7 |-> FpuValues[k + 1]], mxcsr |-> m] : masks \in {FpuAll, {"P"}}, m \in {"valid", "invalid"}}
FpuOperands(op, reg) ==
  LET v == FpuValues
  IN CASE op = \h0F -> FpuImages
       [] op \in {\hD9, \hDD} /\ reg = 4 -> {e \in FpuImages : e.mxcsr = "valid"}
       [] op = \hD9 /\ reg = 5 -> {[masks |-> m, rc |-> 3] : m \in {FpuAll, {}, {"I"}}}
       [] op = \hDF /\ reg = 4 ->
            {[neg |-> b, pairs |-> 0 :> p @@ 1 :> q @@ 2 :> 0] : b \in BOOLEAN, p \in {0, 7}, q \in {0, 34}}
       [] op \in {\hD8, \hDC} \/ (op \in {\hD9, \hDD} /\ reg = 0) \/ (op = \hDB /\ reg = 5) ->
            {v[k] : k \in 1 .. 11}
       [] op \in {\hDA, \hDE} \/ (op \in {\hDB, \hDF} /\ reg \in {0, 5}) -> {v[1], v[2], v[9]}
       [] OTHER -> {v[9]}
FpuIsStore(op, reg) == (reg \in {1, 2, 3} /\ op \in {\hD9, \hDB, \hDD, \hDF}) \/ <<op, reg>> = <<\hDF, 7>>
FpuRm(op, reg) ==
  IF (op = \hD9 /\ reg \in 4 .. 7) \/ <<op, reg>> \in {<<\hDB, 4>>, <<\hDF, 4>>, <<\hDE, 3>>, <<\hDA, 5>>, <<\hD9, 2>>}
  THEN 0 .. 7 ELSE {0, 1, 3}
FpuForm == [last |-> 2, ip |-> 11, addr |-> 12, aligned |-> TRUE, short |-> FALSE, race |-> "", rm |-> 0]
FpuRegForms(op, reg) == {[rm |-> k, isreg |-> TRUE, m |-> FpuValues[9]] @@ FpuForm : k \in FpuRm(op, reg)}
FpuMemForms(op, reg) ==
  {[isreg |-> FALSE, m |-> v, short |-> short, race |-> race] @@ FpuForm :
     v \in FpuOperands(op, reg), short \in IF op \in {\hD9, \hDD} /\ reg \in {4, 6} THEN BOOLEAN ELSE {FALSE},
     race \in IF FpuIsStore(op, reg) THEN {"", "check", "commit"} ELSE {""}}
FpuOther(op) == {[isreg |-> FALSE, m |-> v, aligned |-> b] @@ FpuForm : v \in FpuOperands(op, 0), b \in BOOLEAN}
FpuOf(op, reg) ==
  {f @@ [op |-> op, reg |-> reg] :
     f \in IF op < \hD8 THEN FpuOther(op) ELSE FpuRegForms(op, reg) \cup FpuMemForms(op, reg)}
FpuStores == {f \in FpuOf(\hD9, 2) \cup FpuOf(\hDF, 7) : ~f.isreg /\ f.race = ""}
FpuInsns(c) ==
  LET all == UNION {FpuOf(op, reg) : op \in \hD8 .. \hDF, reg \in 0 .. 7}
  IN IF c.partial = {} /\ c.clear = {} THEN all \cup UNION {FpuOf(op, reg) : op \in {\h0F, \h9B}, reg \in {0, 1}}
     ELSE {f \in all : ~f.isreg /\ f.race = "" /\ FpuIsStore(f.op, f.reg)}

Fpu == INSTANCE Fpu WITH Float <- FpuFloat, Raises <- FpuRaises, Quotient <- FpuQuotient,
         OutOfRange <- FpuTooLarge, Half <- FpuHalf, Machines <- FpuMachines, Insns <- FpuInsns,
         Stores <- FpuStores

(* The decoder: the map of opcodes under combinations of prefixes, every      *)
(* ModR/M byte with some SIB bytes, instructions that end with the page or a  *)
(* byte behind it, long ones, a trace that is full, and a second instruction  *)
(* where a first left a segment.                                              *)
DecSequences ==
  {<<>>, <<\h66>>, <<\h67>>, <<\hF3>>, <<\hF2>>, <<\h64>>, <<\h66, \hF3>>, <<\hF3, \h66>>, <<\h2E, \h26>>,
   <<\h66, \h67>>, <<\h66, \h66>>, <<\hF2, \hF3>>, <<\hF0>>}
DecNoOpcodes == {\h0F, \h26, \h2E, \h36, \h3E, \h64, \h65, \h66, \h67, \hF0, \hF2, \hF3}
DecOf(kind, sequences, escape, ops) ==
  {<<kind, p, escape, op>> : p \in sequences, op \in IF escape THEN ops ELSE ops \ DecNoOpcodes}
DecLong(b) == {[k \in 1 .. n |-> b] : n \in 8 .. 15}
DecGroups(c) ==
  IF c.seg # <<3, 2>>
  THEN DecOf("second", {<<>>, <<\h26>>, <<\h67>>}, FALSE, {\h8B, \h90, \hA1, \hA4, \hAE, \hD7})
  ELSE UNION {DecOf("map", DecSequences, e, 0 .. 255) \cup DecOf("end", {<<>>, <<\h66, \h67>>}, e, 0 .. 255)
                \cup DecOf("long", DecLong(\h2E) \cup DecLong(\h66), e, {\h10, \h90, \h8B, \h81, \hAF}) : e \in BOOLEAN}
       \cup DecOf("address", {<<>>, <<\h67>>, <<\h64>>, <<\h67, \h2E>>}, FALSE, {\h8B, \hD9, \h81, \hC0})
       \cup DecOf("full", {<<>>, <<\h66>>, <<\h64, \hF0>>, <<\hF0, \h36>>}, FALSE, {\h90, \hC3, \hE9, \h8B})

DecSpecified == INSTANCE X86Decode
DecEdge(i) ==
  {[i EXCEPT !.room = r, !.next = n, !.done = d] :
     r \in {DecSpecified!Specified(i).len - k : k \in {0, 1}} \ {0}, n \in BOOLEAN, d \in {0, 1}}
DecInsns(g) ==
  LET at(m, s) == [prefixes |-> g[2], escape |-> g[3], op |-> g[4], modrm |-> m, sib |-> s,
                   room |-> 4096, next |-> TRUE, done |-> 0]
  IN CASE g[1] = "map" -> {at(64 * mod + 8 * reg + 1, 37) : mod \in {0, 3}, reg \in 0 .. 7}
       [] g[1] = "address" -> {at(m, s) : m \in 0 .. 255, s \in {0, 36, 37, 109, 196}}
       [] g[1] = "end" -> UNION {DecEdge(at(m, 37)) : m \in {1, 68, 133, 207, 240}}
       [] g[1] = "long" -> UNION {{at(m, 37)} \cup DecEdge(at(m, 37)) : m \in {1, 5, 193}}
       [] g[1] = "full" -> {[at(1, 37) EXCEPT !.room = r, !.done = d] : r \in {3, 4096}, d \in {1, 29, 30}}
       [] OTHER -> {at(m, 37) : m \in {1, 68, 69, 193}}

Dec == INSTANCE Decoder WITH Groups <- DecGroups, Insns <- DecInsns

-----------------------------------------------------------------------------
Init == \/ engine \in {"flags", "interpreter"} /\ Interp!Init /\ eflags = 0
        \/ engine = "simd" /\ Sse!Init /\ eflags = 0
        \/ engine = "fpu" /\ Fpu!Init /\ eflags = 0
        \/ engine = "decoder" /\ Dec!Init /\ eflags = 0
        \/ engine = "jit" /\ Jit!Init /\ cpu = 0

Compute == engine = "flags" /\ Interp!Next /\ UNCHANGED <<engine, eflags>>
Interpret == engine = "interpreter" /\ Interp!RunNext /\ UNCHANGED <<engine, eflags>>
ComputeSimd == engine = "simd" /\ Sse!Next /\ UNCHANGED <<engine, eflags>>
ComputeFpu == engine = "fpu" /\ Fpu!Next /\ UNCHANGED <<engine, eflags>>
DecodeNext == engine = "decoder" /\ Dec!Next /\ UNCHANGED <<engine, eflags>>
RunJit == engine = "jit" /\ Jit!Next /\ UNCHANGED <<engine, cpu>>

Next == Compute \/ Interpret \/ ComputeSimd \/ ComputeFpu \/ DecodeNext \/ RunJit

vars == <<engine, insn, res, executed, cpu, eflags>>
Spec == Init /\ [][Next]_vars

-----------------------------------------------------------------------------
(* Whatever instructions follow each other, the flags the interpreter works   *)
(* out from the operands of earlier ones are those the architecture defines,  *)
(* and every condition is decided as if they had been stored (eflags.c and    *)
(* ops/arith.c), but for the cases LazyFlags lists in Deviates; handlers,     *)
(* SIMD and x87 instructions leave the machine as X86Machine, X86Simd and     *)
(* X86Fpu do, but for what Interpreter, Simd and Fpu list in theirs; and the  *)
(* handler, the operands and the length the decoder finds are those of the    *)
(* instruction X86Decode reads in the same bytes, but for Decoder's list.     *)
InterpreterIsX86 ==
  /\ [](engine \in {"flags", "interpreter"} => Interp!TypeOK)
  /\ [][engine = "flags" => Interp!Conforms]_vars
  /\ [][engine = "interpreter" => Interp!RunConforms]_vars
  /\ [][engine = "simd" => Sse!Conforms]_vars
  /\ [][engine = "fpu" => Fpu!Conforms]_vars
  /\ [][engine = "decoder" => Dec!Conforms]_vars

(* The emitted code leaves the results and the flags, and decides the         *)
(* conditions, that the architecture defines - the comparison a validation    *)
(* build makes after every instruction (basic_block.cpp, halfix_leave) - but  *)
(* for the instructions JitCode lists in Deviates.                            *)
JitIsX86 == [][engine = "jit" => Jit!Conforms]_vars
=============================================================================
