------------------------------- MODULE Disasm -------------------------------
(***************************************************************************)
(* The disassembler of bin/disasm.c and bin/d.c: what it prints for a word *)
(* at an address, as the name of the instruction, the registers and the    *)
(* target.  The opcodes, immed and the words are those of Interp.          *)
(***************************************************************************)
EXTENDS Interp

(* opstrings.c, in capitals; numbers stand for themselves *)
Row(c) == [k \in 1 .. 8 |-> 8 * c + k - 1]
normalops ==
    << "SPECIAL", "BCOND", "J", "JAL", "BEQ", "BNE", "BLEZ", "BGTZ",
       "ADDI", "ADDIU", "SLTI", "SLTIU", "ANDI", "ORI", "XORI", "LUI",
       "COP0", "COP1", "COP2", "COP3" >> \o SubSeq(Row(2), 5, 8) \o Row(3)
    \o << "LB", "LH", "LWL", "LW", "LBU", "LHU", "LWR", 39,
          "SB", "SH", "SWL", "SW", 44, 45, "SWR", 47,
          "LWC0", "LWC1", "LWC2", "LWC3" >> \o SubSeq(Row(6), 5, 8)
    \o << "SWC0", "SWC1", "SWC2", "SWC3" >> \o SubSeq(Row(7), 5, 8)

specialops ==
    << "SLL", 1, "SRL", "SRA", "SLLV", 5, "SRLV", "SRAV",
       "JR", "JALR", 10, 11, "SYSCALL", "BREAK", 14, 15,
       "MFHI", "MTHI", "MFLO", "MTLO", 20, 21, 22, 23,
       "MULT", "MULTU", "DIV", "DIVU", 28, 29, 30, 31,
       "ADD", "ADDU", "SUB", "SUBU", "AND", "OR", "XOR", "NOR",
       40, 41, "SLT", "SLTU" >> \o SubSeq(Row(5), 5, 8) \o Row(6) \o Row(7)

Line(name, regs, target) == [name |-> name, regs |-> regs, target |-> target]
NoTarget == -1
I_NOP(w) == w.code = 0 /\ w.rs = 0 /\ w.rt = 0 /\ w.rd = 0 /\ w.funct = 0 /\ w.bits = 0
off16(w) == IndexToAddr(immed(w))
off26(w) == IndexToAddr(w.bits) % 2^JumpBits
top4(pc) == pc - (pc % 2^JumpBits)

(* The operands of the instructions under I_SPECIAL *)
specialOperands(w) ==
    LET f == specialOps[w.funct]
    IN  CASE f \in {"SLL", "SRL", "SRA"} -> <<w.rd, w.rt>>
          [] f \in {"SLLV", "SRLV", "SRAV"} -> <<w.rd, w.rt, w.rs>>
          [] f \in {"JR", "JALR", "MFLO", "MTLO"} -> <<w.rs>>
          [] f \in {"MFHI", "MTHI"} -> <<w.rd>>
          [] f \in {"MULT", "MULTU", "DIV", "DIVU"} -> <<w.rs, w.rt>>
          [] f \in {"ADD", "ADDU", "SUB", "SUBU", "AND", "OR", "XOR", "NOR", "SLT", "SLTU"} ->
               <<w.rd, w.rs, w.rt>>
          [] OTHER -> <<>>

(* Variant: LUI, which has no rs, is printed with it. *)
operandsSwapped(w) == IF mainOps[w.code] = "LUI" THEN <<w.rs>> ELSE <<w.rt, w.rs>>

(* ... and of the others.  BLEZ and BGTZ get none. *)
operands(w) ==
    CASE mainOps[w.code] \in {"BEQ", "BNE", "ADDI", "ADDIU", "SLTI", "SLTIU", "ANDI", "ORI", "XORI",
                              "LB", "LH", "LWL", "LW", "LBU", "LHU", "LWR", "SB", "SH", "SWL", "SW", "SWR"} ->
           <<w.rt, w.rs>>
      [] mainOps[w.code] = "LUI" -> <<w.rt>>
      [] mainOps[w.code] = "COP" /\ w.code > 19 -> <<w.rt, w.rs>>
      [] OTHER -> <<>>

(* dump_ascii *)
dump_ascii(w, pc) ==
    LET op == mainOps[w.code]
        branch == Wrap(off16(w) + pc + 4)
    IN  CASE I_NOP(w) -> Line("nop", <<>>, NoTarget)
          [] ~I_NOP(w) /\ op = "SPECIAL" -> Line(specialops[w.funct + 1], specialOperands(w), NoTarget)
          [] op = "BCOND" -> Line(IF bcondOps(w.rt) = "u" THEN "BCOND" ELSE bcondOps(w.rt), <<w.rs>>, branch)
          [] op \in {"J", "JAL"} -> Line(op, <<>>, top4(pc) + off26(w))
          [] OTHER -> Line(normalops[w.code + 1], operands(w),
                           IF op \in {"BEQ", "BNE"} THEN branch ELSE NoTarget)
=============================================================================
