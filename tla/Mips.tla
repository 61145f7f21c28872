-------------------------------- MODULE Mips --------------------------------
(***************************************************************************)
(* The simulated MIPS processor: decoding and executing one instruction,   *)
(* address translation by a page table, exceptions.  The width of a word   *)
(* is a parameter (32 in the code); a half word and a byte are a half and  *)
(* a quarter of it, as there, and an address counts bytes.  A register     *)
(* holds the unsigned value of its bits.                                   *)
(***************************************************************************)
EXTENDS Integers, Sequences, FiniteSets, Bitwise

CONSTANTS
    WordBits,        \* bits of a word: 32 in the code
    JumpBits,        \* low bits of an address that J replaces: 28 in the code
    NumGPRegs,       \* general registers; the last one is R31
    PageSize         \* bytes of a page

ASSUME WidthAssumption ==
    WordBits \in Nat /\ WordBits > 0 /\ WordBits % 4 = 0 /\ JumpBits \in 2 .. WordBits

HalfBits == WordBits \div 2
ByteBits == WordBits \div 4
Word == 0 .. 2^WordBits - 1
GPR == 0 .. NumGPRegs - 1
R31 == NumGPRegs - 1

Wrap(n) == n % 2^WordBits                      \* an int that overflows wraps
SIGN_BIT(w) == w >= 2^(WordBits - 1)
Signed(w) == IF SIGN_BIT(w) THEN w - 2^WordBits ELSE w
Extend(v, bits) == IF v >= 2^(bits - 1) THEN Wrap(v - 2^bits) ELSE v
Complement(w) == 2^WordBits - 1 - w
ShiftLeft(w, n) == Wrap(w * 2^n)
ShiftRight(w, n) == Wrap(Signed(w) \div 2^n)   \* of an int: the sign is copied
IndexToAddr(n) == 4 * n

-----------------------------------------------------------------------------
(* opTable and specialTable of mipssim.h, indexed from 0 *)
opTable == <<
    "SPECIAL", "BCOND", "J", "JAL", "BEQ", "BNE", "BLEZ", "BGTZ",
    "ADDI", "ADDIU", "SLTI", "SLTIU", "ANDI", "ORI", "XORI", "LUI",
    "UNIMP", "UNIMP", "UNIMP", "UNIMP", "RES", "RES", "RES", "RES",
    "RES", "RES", "RES", "RES", "RES", "RES", "RES", "RES",
    "LB", "LH", "LWL", "LW", "LBU", "LHU", "LWR", "RES",
    "SB", "SH", "SWL", "SW", "RES", "RES", "SWR", "RES",
    "UNIMP", "UNIMP", "UNIMP", "UNIMP", "RES", "RES", "RES", "RES",
    "UNIMP", "UNIMP", "UNIMP", "UNIMP", "RES", "RES", "RES", "RES" >>

specialTable == <<
    "SLL", "RES", "SRL", "SRA", "SLLV", "RES", "SRLV", "SRAV",
    "JR", "JALR", "RES", "RES", "SYSCALL", "UNIMP", "RES", "RES",
    "MFHI", "MTHI", "MFLO", "MTLO", "RES", "RES", "RES", "RES",
    "MULT", "MULTU", "DIV", "DIVU", "RES", "RES", "RES", "RES",
    "ADD", "ADDU", "SUB", "SUBU", "AND", "OR", "XOR", "NOR",
    "RES", "RES", "SLT", "SLTU" >> \o [k \in 1 .. 20 |-> "RES"]

(* Instruction::Decode.  The word is given by its fields: code (the top six *)
(* bits), rs, rt, rd, funct, and bits, which stands for the immediate, the  *)
(* target or the shift amount, whichever the format of the instruction has. *)
Decode(w) ==
    LET op == opTable[w.code + 1]
    IN  [op |-> CASE op = "SPECIAL" -> specialTable[w.funct + 1]
                  [] op = "BCOND" -> (CASE w.rt = 0 -> "BLTZ" [] w.rt = 1 -> "BGEZ"
                                        [] w.rt = 16 -> "BLTZAL" [] w.rt = 17 -> "BGEZAL"
                                        [] OTHER -> "UNIMP")
                  [] OTHER -> op,
         rs |-> w.rs, rt |-> w.rt, rd |-> w.rd,
         extra |-> IF op \in {"SPECIAL", "J", "JAL"} THEN w.bits
                   ELSE Extend(w.bits, HalfBits)]

-----------------------------------------------------------------------------
(* The processor: registers [gpr, Hi, Lo, PC, NextPC, PrevPC, LoadReg,     *)
(* LoadValue, BadVAddr], the page table in use and mainMemory.             *)

(* Machine::Translate with a linear page table, which is valid and may be  *)
(* written throughout in this copy; use and dirty are never looked at.     *)
Translate(m, addr, size) ==
    LET vpn == addr \div PageSize
    IN  IF addr % size # 0 \/ vpn >= Len(m.pageTable)
        THEN [exc |-> "AddressErrorException", physAddr |-> 0]
        ELSE [exc |-> "NoException",
              physAddr |-> m.pageTable[vpn + 1] * PageSize + (addr % PageSize)]

(* Machine::ReadMem: little-endian; a single byte is a signed char *)
ReadMem(m, addr, size) ==
    LET t == Translate(m, addr, size)
        Byte(k) == m.mainMemory[t.physAddr + k] * 2^(k * ByteBits)
    IN  [exc |-> t.exc,
         value |-> CASE t.exc # "NoException" -> 0
                     [] t.exc = "NoException" /\ size = 1 -> Extend(Byte(0), ByteBits)
                     [] t.exc = "NoException" /\ size = 2 -> Byte(0) + Byte(1)
                     [] t.exc = "NoException" /\ size = 4 ->
                          Byte(0) + Byte(1) + Byte(2) + Byte(3)]

(* Machine::WriteMem, when the translation succeeds *)
WriteMem(m, addr, size, value) ==
    LET p == Translate(m, addr, size).physAddr
    IN  [m EXCEPT !.mainMemory = [a \in DOMAIN @ |->
           IF a - p \in 0 .. size - 1 THEN (value \div 2^((a - p) * ByteBits)) % 2^ByteBits
           ELSE @[a]]]

(* Machine::DelayedLoad *)
DelayedLoad(m, nextReg, nextValue) ==
    [m EXCEPT !.gpr = [[@ EXCEPT ![m.LoadReg] = m.LoadValue] EXCEPT ![0] = 0],
              !.LoadReg = nextReg, !.LoadValue = nextValue]

(* Variant: the pending load is dropped. *)
RaiseExceptionLosesLoad(m, badVAddr) ==
    [m EXCEPT !.BadVAddr = badVAddr, !.LoadReg = 0, !.LoadValue = 0]

(* Machine::RaiseException, up to the call of ExceptionHandler *)
RaiseException(m, badVAddr) == DelayedLoad([m EXCEPT !.BadVAddr = badVAddr], 0, 0)

-----------------------------------------------------------------------------
(* Variant: no carry into the high word. *)
MultNoCarry(a, b, signedArith) ==
    [Hi |-> 0, Lo |-> Wrap(a * b)]

(* Mult: add b shifted by the number of each bit of a, in double words     *)
(* made of hi and lo; the sign is put back at the end.                     *)
Mult(a, b, signedArith) ==
    LET Neg(w) == signedArith /\ SIGN_BIT(w)
        Abs(w) == IF Neg(w) THEN Wrap(-w) ELSE w
        bits == {k \in 0 .. WordBits - 1 : (Abs(a) \div 2^k) % 2 = 1}
        bLo(k) == ShiftLeft(Abs(b), k)
        bHi(k) == (Abs(b) * 2^k) \div 2^WordBits
        sum[k \in 0 .. WordBits] ==
            IF k = 0 THEN [lo |-> 0, hi |-> 0]
            ELSE IF k - 1 \notin bits THEN sum[k - 1]
            ELSE LET lo == Wrap(sum[k - 1].lo + bLo(k - 1))
                     carry == IF lo < bLo(k - 1) THEN 1 ELSE 0
                 IN  [lo |-> lo, hi |-> Wrap(sum[k - 1].hi + carry + bHi(k - 1))]
        s == sum[WordBits]
        lo1 == Wrap(Complement(s.lo) + 1)
        hi1 == Wrap(Complement(s.hi) + (IF lo1 = 0 THEN 1 ELSE 0))
    IN  IF a = 0 \/ b = 0 THEN [Hi |-> 0, Lo |-> 0]
        ELSE IF Neg(a) # Neg(b) THEN [Hi |-> hi1, Lo |-> lo1]
        ELSE [Hi |-> s.hi, Lo |-> s.lo]

-----------------------------------------------------------------------------
(* OneInstruction works on an outcome: the machine so far, the exception,  *)
(* pcAfter and the load to be done after the next instruction.             *)
Started(m) == [m |-> m, exc |-> "NoException", bad |-> 0, pcAfter |-> Wrap(m.NextPC + 4),
               nextLoadReg |-> 0, nextLoadValue |-> 0]
Set(o, r, v) == [o EXCEPT !.m.gpr[r] = v]
Raise(o, exc, bad) == [o EXCEPT !.exc = exc, !.bad = bad]
HiLo(o, hi, lo) == [o EXCEPT !.m.Hi = hi, !.m.Lo = lo]
Less(p) == IF p THEN 1 ELSE 0
Rs(o, i) == o.m.gpr[i.rs]
Rt(o, i) == o.m.gpr[i.rt]

AddAnd(o, i) ==
    LET a == Rs(o, i)
        b == IF i.op = "ADD" THEN Rt(o, i) ELSE i.extra
        sum == Wrap(a + b)
        overflow == SIGN_BIT(a) = SIGN_BIT(b) /\ SIGN_BIT(b) # SIGN_BIT(sum)
    IN  CASE i.op \in {"ADD", "ADDI"} ->
               IF overflow THEN Raise(o, "OverflowException", 0)
               ELSE Set(o, IF i.op = "ADD" THEN i.rd ELSE i.rt, sum)
          [] i.op = "ADDIU" -> Set(o, i.rt, sum)
          [] i.op = "ADDU" -> Set(o, i.rd, Wrap(a + Rt(o, i)))
          [] i.op = "AND" -> Set(o, i.rd, a & Rt(o, i))
          [] i.op = "ANDI" -> Set(o, i.rt, a & (i.extra % 2^HalfBits))

(* The "and link" forms fall through, after R31 is set. *)
Branch(o, i) ==
    LET n == IF i.op \in {"BGEZAL", "BLTZAL"} THEN Set(o, R31, Wrap(o.m.NextPC + 4)) ELSE o
        a == Rs(n, i)
        taken == CASE i.op = "BEQ" -> a = Rt(n, i)
                   [] i.op = "BNE" -> a # Rt(n, i)
                   [] i.op \in {"BGEZ", "BGEZAL"} -> ~SIGN_BIT(a)
                   [] i.op \in {"BLTZ", "BLTZAL"} -> SIGN_BIT(a)
                   [] i.op = "BGTZ" -> Signed(a) > 0
                   [] i.op = "BLEZ" -> Signed(a) <= 0
    IN  IF taken THEN [n EXCEPT !.pcAfter = Wrap(n.m.NextPC + IndexToAddr(i.extra))] ELSE n

(* C rounds towards zero; the least int by -1 traps on the host. *)
DivBy(a, b) == IF (a < 0) = (b < 0) THEN (IF a < 0 THEN (-a) \div (-b) ELSE a \div b)
               ELSE -((IF a < 0 THEN -a ELSE a) \div (IF b < 0 THEN -b ELSE b))

Divide(o, i) ==
    LET conv(w) == IF i.op = "DIV" THEN Signed(w) ELSE w
        a == conv(Rs(o, i))
        b == conv(Rt(o, i))
    IN  IF b = 0 THEN HiLo(o, 0, 0)
        ELSE IF i.op = "DIV" /\ a = -(2^(WordBits - 1)) /\ b = -1 THEN Raise(o, "SIGFPE", 0)
        ELSE HiLo(o, Wrap(a - b * DivBy(a, b)), Wrap(DivBy(a, b)))

(* JALR stores the return address before it reads the target. *)
Jump(o, i) ==
    LET n == CASE i.op = "JAL" -> Set(o, R31, Wrap(o.m.NextPC + 4))
               [] i.op = "JALR" -> Set(o, i.rd, Wrap(o.m.NextPC + 4))
               [] OTHER -> o
    IN  [n EXCEPT !.pcAfter = IF i.op \in {"J", "JAL"}
                                THEN (@ - (@ % 2^JumpBits)) + (IndexToAddr(i.extra) % 2^JumpBits)
                                ELSE Rs(n, i)]

(* LB, LBU, LH, LHU and LW.  LH and LW test the alignment themselves, with *)
(* the same exception as Translate.                                        *)
Load(o, i) ==
    LET addr == Wrap(Rs(o, i) + i.extra)
        size == CASE i.op \in {"LB", "LBU"} -> 1 [] i.op \in {"LH", "LHU"} -> 2
                  [] i.op = "LW" -> 4
        r == ReadMem(o.m, addr, size)
        low == r.value % 2^(size * ByteBits)
    IN  IF r.exc # "NoException" THEN Raise(o, r.exc, addr)
        ELSE [o EXCEPT !.nextLoadReg = i.rt,
                       !.nextLoadValue = IF i.op \in {"LB", "LH"} THEN Extend(low, size * ByteBits)
                                         ELSE low]

(* LWL and LWR: an ASSERT leaves only the aligned case.  The old value is  *)
(* the one of a load under way, if there is one.                           *)
LoadPart(o, i) ==
    LET addr == Wrap(Rs(o, i) + i.extra)
        r == ReadMem(o.m, addr, 4)
        old == IF o.m.LoadReg = i.rt THEN o.m.LoadValue ELSE Rt(o, i)
    IN  IF addr % 4 # 0 THEN Raise(o, "ASSERT", addr)
        ELSE IF r.exc # "NoException" THEN Raise(o, r.exc, addr)
        ELSE [o EXCEPT !.nextLoadReg = i.rt,
                       !.nextLoadValue = IF i.op = "LWL" THEN r.value
                                         ELSE (old - (old % 2^ByteBits)) + (r.value \div 2^(3 * ByteBits))]

LoadUpper(o, i) == Set(o, i.rt, ShiftLeft(i.extra, HalfBits))

MoveMult(o, i) ==
    LET p == Mult(Rs(o, i), Rt(o, i), i.op = "MULT")
    IN  CASE i.op = "MFHI" -> Set(o, i.rd, o.m.Hi)
          [] i.op = "MFLO" -> Set(o, i.rd, o.m.Lo)
          [] i.op = "MTHI" -> HiLo(o, Rs(o, i), o.m.Lo)
          [] i.op = "MTLO" -> HiLo(o, o.m.Hi, Rs(o, i))
          [] i.op \in {"MULT", "MULTU"} -> HiLo(o, p.Hi, p.Lo)

(* OR combines rs with itself. *)
NorOr(o, i) ==
    LET a == Rs(o, i)
    IN  CASE i.op = "NOR" -> Set(o, i.rd, Complement(a | Rt(o, i)))
          [] i.op = "OR" -> Set(o, i.rd, a | a)
          [] i.op = "ORI" -> Set(o, i.rt, a | (i.extra % 2^HalfBits))

Store(o, i) ==
    LET addr == Wrap(Rs(o, i) + i.extra)
        size == CASE i.op = "SB" -> 1 [] i.op = "SH" -> 2 [] i.op = "SW" -> 4
        exc == Translate(o.m, addr, size).exc
    IN  IF exc # "NoException" THEN Raise(o, exc, addr)
        ELSE [o EXCEPT !.m = WriteMem(o.m, addr, size, Rt(o, i))]

(* SRL and SRLV shift an int: they copy the sign, as SRA and SRAV. *)
Shift(o, i) ==
    LET n == IF i.op \in {"SLLV", "SRAV", "SRLV"} THEN Rs(o, i) % WordBits ELSE i.extra
    IN  Set(o, i.rd, IF i.op \in {"SLL", "SLLV"} THEN ShiftLeft(Rt(o, i), n)
                     ELSE ShiftRight(Rt(o, i), n))

SetLess(o, i) ==
    LET a == Rs(o, i)
    IN  CASE i.op = "SLT" -> Set(o, i.rd, Less(Signed(a) < Signed(Rt(o, i))))
          [] i.op = "SLTI" -> Set(o, i.rt, Less(Signed(a) < Signed(i.extra)))
          [] i.op = "SLTIU" -> Set(o, i.rt, Less(a < i.extra))
          [] i.op = "SLTU" -> Set(o, i.rd, Less(a < Rt(o, i)))

Subtract(o, i) ==
    LET a == Rs(o, i)
        diff == Wrap(a - Rt(o, i))
        overflow == SIGN_BIT(a) # SIGN_BIT(Rt(o, i)) /\ SIGN_BIT(a) # SIGN_BIT(diff)
    IN  IF i.op = "SUB" /\ overflow THEN Raise(o, "OverflowException", 0)
        ELSE Set(o, i.rd, diff)

(* SWL and SWR, aligned as LWL and LWR: the word is read, then written. *)
StorePart(o, i) ==
    LET addr == Wrap(Rs(o, i) + i.extra)
        r == ReadMem(o.m, addr, 4)
        value == IF i.op = "SWL" THEN Rt(o, i)
                 ELSE (r.value % 2^(3 * ByteBits)) + ShiftLeft(Rt(o, i), 3 * ByteBits)
    IN  IF addr % 4 # 0 THEN Raise(o, "ASSERT", addr)
        ELSE IF r.exc # "NoException" THEN Raise(o, r.exc, addr)
        ELSE [o EXCEPT !.m = WriteMem(o.m, addr, 4, value)]

ExclusiveOr(o, i) ==
    CASE i.op = "XOR" -> Set(o, i.rd, Rs(o, i) ^^ Rt(o, i))
      [] i.op = "XORI" -> Set(o, i.rt, Rs(o, i) ^^ (i.extra % 2^HalfBits))

(* The switch of OneInstruction; what it does not handle fails an ASSERT. *)
Switch(o, i) ==
    CASE i.op \in {"ADD", "ADDI", "ADDIU", "ADDU", "AND", "ANDI"} -> AddAnd(o, i)
      [] i.op \in {"BEQ", "BGEZ", "BGEZAL", "BGTZ", "BLEZ", "BLTZ", "BLTZAL", "BNE"} ->
           Branch(o, i)
      [] i.op \in {"DIV", "DIVU"} -> Divide(o, i)
      [] i.op \in {"J", "JAL", "JALR", "JR"} -> Jump(o, i)
      [] i.op \in {"LB", "LBU", "LH", "LHU", "LW"} -> Load(o, i)
      [] i.op \in {"LWL", "LWR"} -> LoadPart(o, i)
      [] i.op = "LUI" -> LoadUpper(o, i)
      [] i.op \in {"MFHI", "MFLO", "MTHI", "MTLO", "MULT", "MULTU"} -> MoveMult(o, i)
      [] i.op \in {"NOR", "OR", "ORI"} -> NorOr(o, i)
      [] i.op \in {"SB", "SH", "SW"} -> Store(o, i)
      [] i.op \in {"SLL", "SLLV", "SRA", "SRAV", "SRL", "SRLV"} -> Shift(o, i)
      [] i.op \in {"SLT", "SLTI", "SLTIU", "SLTU"} -> SetLess(o, i)
      [] i.op \in {"SUB", "SUBU"} -> Subtract(o, i)
      [] i.op \in {"SWL", "SWR"} -> StorePart(o, i)
      [] i.op = "SYSCALL" -> Raise(o, "SyscallException", 0)
      [] i.op \in {"XOR", "XORI"} -> ExclusiveOr(o, i)
      [] i.op \in {"RES", "UNIMP"} -> Raise(o, "IllegalInstrException", 0)
      [] OTHER -> Raise(o, "ASSERT", 0)

(* The end of OneInstruction when nothing was raised *)
Advance(o, m) ==
    [DelayedLoad(o.m, o.nextLoadReg, o.nextLoadValue) EXCEPT
       !.PrevPC = m.PC, !.PC = m.NextPC, !.NextPC = o.pcAfter]

(* Machine::OneInstruction with w the word at PC: the exception, and the   *)
(* machine as ExceptionHandler or the next instruction finds it.  SIGFPE   *)
(* and a failed ASSERT end the simulator on the spot.                      *)
OneInstruction(m, w) ==
    LET fetch == Translate(m, m.PC, 4).exc
        o == IF fetch # "NoException" THEN Raise(Started(m), fetch, m.PC)
             ELSE Switch(Started(m), Decode(w))
    IN  [exc |-> o.exc,
         m |-> CASE o.exc = "NoException" -> Advance(o, m)
                 [] o.exc \in {"SIGFPE", "ASSERT"} -> o.m
                 [] OTHER -> RaiseException(o.m, o.bad)]

(* returnFromSystemCall, after the kernel put its result in r2 *)
returnFromSystemCall(m, result) ==
    [m EXCEPT !.gpr[2] = result,
              !.PrevPC = m.PC, !.PC = m.NextPC, !.NextPC = Wrap(m.NextPC + 4)]
=============================================================================
