------------------------------- MODULE Interp -------------------------------
(***************************************************************************)
(* bin/execute.c: a second interpreter of the same instruction set, which  *)
(* ran the programs before there was a kernel.  No address translation, no *)
(* exceptions, no delayed loads; branches are delayed.  Words and addresses*)
(* as in Mips; the memory is one array of bytes.                           *)
(***************************************************************************)
EXTENDS Mips

(* The opcodes of encode.h, by number *)
mainOps == [c \in 0 .. 63 |->
    CASE c \in 0 .. 15 -> <<"SPECIAL", "BCOND", "J", "JAL", "BEQ", "BNE", "BLEZ", "BGTZ", "ADDI",
                            "ADDIU", "SLTI", "SLTIU", "ANDI", "ORI", "XORI", "LUI">>[c + 1]
      [] c \in 16 .. 19 \/ c \in 48 .. 51 \/ c \in 56 .. 59 -> "COP"
      [] c \in 32 .. 38 -> <<"LB", "LH", "LWL", "LW", "LBU", "LHU", "LWR">>[c - 31]
      [] c \in 40 .. 43 -> <<"SB", "SH", "SWL", "SW">>[c - 39]
      [] c = 46 -> "SWR"
      [] OTHER -> "u"]

specialOps == [f \in 0 .. 63 |->
    CASE f \in {0, 2, 3, 4, 6, 7} -> <<"SLL", "u", "SRL", "SRA", "SLLV", "u", "SRLV", "SRAV">>[f + 1]
      [] f \in {8, 9} -> <<"JR", "JALR">>[f - 7]
      [] f \in {12, 13} -> <<"SYSCALL", "BREAK">>[f - 11]
      [] f \in 16 .. 19 -> <<"MFHI", "MTHI", "MFLO", "MTLO">>[f - 15]
      [] f \in 24 .. 27 -> <<"MULT", "MULTU", "DIV", "DIVU">>[f - 23]
      [] f \in 32 .. 39 -> <<"ADD", "ADDU", "SUB", "SUBU", "AND", "OR", "XOR", "NOR">>[f - 31]
      [] f \in {42, 43} -> <<"SLT", "SLTU">>[f - 41]
      [] OTHER -> "u"]

bcondOps(r) == CASE r = 0 -> "BLTZ" [] r = 1 -> "BGEZ" [] r = 16 -> "BLTZAL"
                 [] r = 17 -> "BGEZAL" [] OTHER -> "u"

immed(w) == Extend(w.bits % 2^HalfBits, HalfBits)

(* The accesses to mem of int.h: any address, aligned or not *)
fetch(x, a, size) ==
    LET Byte(k) == x.mem[Wrap(a + k)] * 2^(k * ByteBits)
    IN  CASE size = 1 -> Byte(0) [] size = 2 -> Byte(0) + Byte(1)
          [] size = 4 -> Byte(0) + Byte(1) + Byte(2) + Byte(3)
store(x, a, size, v) ==
    [x EXCEPT !.mem = [b \in DOMAIN @ |->
       IF Wrap(b - a) \in 0 .. size - 1 THEN (v \div 2^(Wrap(b - a) * ByteBits)) % 2^ByteBits
       ELSE @[b]]]

(* The high word of a product is put together from the products of half    *)
(* words, without what the low parts carry into it.                        *)
product(t1, t2) ==
    LET lo(t) == t % 2^HalfBits
        hi(t) == t \div 2^HalfBits
    IN  [HI |-> Wrap(hi(t1) * hi(t2) + Signed(ShiftRight(Wrap(hi(t1) * lo(t2)), HalfBits))
                       + Signed(ShiftRight(Wrap(hi(t2) * lo(t1)), HalfBits))),
         LO |-> Wrap(t1 * t2)]

mult(a, b) ==
    LET abs(w) == IF SIGN_BIT(w) THEN Wrap(-w) ELSE w
        p == product(abs(a), abs(b))
        LO == Wrap(Complement(p.LO) + 1)
    IN  IF SIGN_BIT(a) = SIGN_BIT(b) THEN p
        ELSE [HI |-> Wrap(Complement(p.HI) + (IF LO = 0 THEN 1 ELSE 0)), LO |-> LO]

(* Set register r, or HI and LO *)
put(x, r, v) == [x EXCEPT !.Reg[r] = v]
putHiLo(x, p) == [x EXCEPT !.HI = p.HI, !.LO = p.LO]

(* The instructions under I_SPECIAL.  A variable shift by more than a word *)
(* is masked by the host's shift instruction.                              *)
special(x, w, xpc) ==
    LET s == x.Reg[w.rs]
        t == x.Reg[w.rt]
        f == specialOps[w.funct]
        Rd(v) == put(x, w.rd, v)
        quotient(a, b) == [HI |-> Wrap(a - b * DivBy(a, b)), LO |-> Wrap(DivBy(a, b))]
    IN  CASE f = "SLL" -> Rd(ShiftLeft(t, w.bits))
          [] f = "SRL" -> Rd(t \div 2^w.bits)
          [] f = "SRA" -> Rd(ShiftRight(t, w.bits))
          [] f = "SLLV" -> Rd(ShiftLeft(t, s % WordBits))
          [] f = "SRLV" -> Rd(t \div 2^(s % WordBits))
          [] f = "SRAV" -> Rd(ShiftRight(t, s % WordBits))
          [] f = "JR" -> [x EXCEPT !.npc = s]
          [] f = "JALR" -> [Rd(Wrap(xpc + 8)) EXCEPT !.npc = s]
          [] f = "MFHI" -> Rd(x.HI)
          [] f = "MTHI" -> [x EXCEPT !.HI = s]
          [] f = "MFLO" -> Rd(x.LO)
          [] f = "MTLO" -> [x EXCEPT !.LO = s]
          [] f = "MULT" -> putHiLo(x, mult(s, t))
          [] f = "MULTU" -> putHiLo(x, product(s, t))
          [] f = "DIV" -> putHiLo(x, quotient(Signed(s), Signed(t)))
          [] f = "DIVU" -> putHiLo(x, quotient(s, t))
          [] f \in {"ADD", "ADDU"} -> Rd(Wrap(s + t))
          [] f \in {"SUB", "SUBU"} -> Rd(Wrap(s - t))
          [] f = "AND" -> Rd(s & t)
          [] f = "OR" -> Rd(s | t)
          [] f = "XOR" -> Rd(s ^^ t)
          [] f = "NOR" -> Rd(Complement(s | t))
          [] f = "SLT" -> Rd(Less(Signed(s) < Signed(t)))
          [] f = "SLTU" -> Rd(Less(s < t))

(* The instructions under I_BCOND *)
bcond(x, w, xpc) ==
    LET f == bcondOps(w.rt)
        y == IF f \in {"BLTZAL", "BGEZAL"} THEN put(x, R31, Wrap(xpc + 8)) ELSE x
        taken == SIGN_BIT(y.Reg[w.rs]) = (f \in {"BLTZ", "BLTZAL"})
    IN  IF taken THEN [y EXCEPT !.npc = Wrap(xpc + 4 + 4 * immed(w))] ELSE y

(* Jumps, branches and immediates: the logical ones extend the sign too *)
immediate(x, w, xpc) ==
    LET op == mainOps[w.code]
        s == x.Reg[w.rs]
        im == immed(w)
        Rt1(v) == put(x, w.rt, v)
        branch(c) == IF c THEN [x EXCEPT !.npc = Wrap(xpc + 4 + 4 * im)] ELSE x
        jump(y) == [y EXCEPT !.npc = (xpc - (xpc % 2^JumpBits)) + ((4 * w.bits) % 2^JumpBits)]
    IN  CASE op = "J" -> jump(x)
          [] op = "JAL" -> jump(put(x, R31, Wrap(xpc + 8)))
          [] op = "BEQ" -> branch(s = x.Reg[w.rt])
          [] op = "BNE" -> branch(s # x.Reg[w.rt])
          [] op = "BLEZ" -> branch(Signed(s) <= 0)
          [] op = "BGTZ" -> branch(Signed(s) > 0)
          [] op \in {"ADDI", "ADDIU"} -> Rt1(Wrap(s + im))
          [] op = "SLTI" -> Rt1(Less(Signed(s) < Signed(im)))
          [] op = "SLTIU" -> Rt1(Less(s < im))
          [] op = "ANDI" -> Rt1(s & im)
          [] op = "ORI" -> Rt1(s | im)
          [] op = "XORI" -> Rt1(s ^^ im)
          [] op = "LUI" -> Rt1(ShiftLeft(w.bits, HalfBits))

(* Loads take effect at once.  LWL keeps the old bits (-1 >> n is -1) and  *)
(* ors the word into them.                                                 *)
memory(x, w) ==
    LET op == mainOps[w.code]
        a == Wrap(x.Reg[w.rs] + immed(w))
        t == x.Reg[w.rt]
        aligned == fetch(x, a - (a % 4), 4)
        Rt1(v) == put(x, w.rt, v)
        keep == IF a % 4 = 0 THEN 0 ELSE t - (t % 2^(ByteBits * (a % 4)))
    IN  CASE op = "LB" -> Rt1(Extend(fetch(x, a, 1), ByteBits))
          [] op = "LH" -> Rt1(Extend(fetch(x, a, 2), HalfBits))
          [] op = "LW" -> Rt1(fetch(x, a, 4))
          [] op = "LBU" -> Rt1(fetch(x, a, 1))
          [] op = "LHU" -> Rt1(fetch(x, a, 2))
          [] op = "LWL" -> Rt1(t | ShiftLeft(aligned, ByteBits * (a % 4)))
          [] op = "LWR" -> Rt1(keep | ShiftRight(aligned, ByteBits * ((-a) % 4)))
          [] op = "SB" -> store(x, a, 1, t)
          [] op = "SH" -> store(x, a, 2, t)
          [] op = "SW" -> store(x, a, 4, t)

(* The system calls leave their result in register 1. *)
system_trap(x, result) == put(x, 1, result)

(* What makes the interpreter exit: u(), no coprocessor, SWL and SWR, and  *)
(* the traps of the host's division                                        *)
exits(x, w) ==
    LET op == mainOps[w.code]
        f == specialOps[w.funct]
        s == x.Reg[w.rs]
        t == x.Reg[w.rt]
    IN  CASE op = "SPECIAL" -> \/ f = "u"
                               \/ f \in {"DIV", "DIVU"} /\ t = 0
                               \/ f = "DIV" /\ s = 2^(WordBits - 1) /\ Signed(t) = -1
          [] op = "BCOND" -> bcondOps(w.rt) = "u"
          [] OTHER -> op \in {"u", "COP", "SWL", "SWR"}

(* One turn of the loop of runprogram that does not exit *)
runprogram(x0, w, result) ==
    LET xpc == x0.pc
        x == [x0 EXCEPT !.pc = x0.npc, !.npc = Wrap(x0.npc + 4), !.Reg[0] = 0]
        op == mainOps[w.code]
    IN  CASE op = "SPECIAL" /\ specialOps[w.funct] \in {"SYSCALL", "BREAK"} -> system_trap(x, result)
          [] op = "SPECIAL" /\ specialOps[w.funct] \notin {"SYSCALL", "BREAK"} -> special(x, w, xpc)
          [] op = "BCOND" -> bcond(x, w, xpc)
          [] op \in {"LB", "LH", "LWL", "LW", "LBU", "LHU", "LWR", "SB", "SH", "SW"} -> memory(x, w)
          [] OTHER -> immediate(x, w, xpc)
=============================================================================
