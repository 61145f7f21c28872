------------------------------ MODULE UserMode ------------------------------
(***************************************************************************)
(* User threads on the one simulated processor: Machine::Run executes an   *)
(* instruction and ticks, a tick may yield to another thread, and          *)
(* Scheduler::Run saves and restores the registers.  Beside each thread    *)
(* runs the interpreter of bin/execute.c on the same instructions and its  *)
(* own memory, for comparison.                                             *)
(***************************************************************************)
EXTENDS Disasm

CONSTANTS
    Threads,         \* user threads
    PageTables,      \* their page tables: sequences of frames
    NumPhysPages,    \* frames of main memory
    Programs,        \* Programs[t][n]: what the n-th word fetched by t can be
    Starts,          \* Starts[t]: the general registers t can start with
    Bytes,           \* the bytes of memory at first
    Results          \* what system calls return

VARIABLES
    m,               \* the machine, with the registers of the running thread
    currentThread,
    userRegisters,   \* of the threads that do not run
    x,               \* x[t]: the interpreter beside thread t
    fetched,         \* fetched[t]: instructions fetched so far
    last,            \* the last word executed
    status           \* "running", "called", "apart", or what stopped the simulator

vars == <<m, currentThread, userRegisters, x, fetched, last, status>>

Registers == {"gpr", "Hi", "Lo", "PC", "NextPC", "PrevPC", "LoadReg", "LoadValue", "BadVAddr"}
Saved(mach) == [f \in Registers |-> mach[f]]
NoWord == [code |-> 0, rs |-> 0, rt |-> 0, rd |-> 0, funct |-> 0, bits |-> 0]

(* Machine: the registers, the page table and the memory of the simulator *)
Machine(regs, pageTable, memory0) ==
    [f \in Registers \union {"pageTable", "mainMemory"} |->
       CASE f = "pageTable" -> pageTable [] f = "mainMemory" -> memory0
         [] OTHER -> regs[f]]

(* RestoreUserState and AddrSpace::RestoreState of t *)
Loaded(regs, t, memory0) == Machine(regs, PageTables[t], memory0)

(* AddrSpace::InitRegisters, but for the general registers: each thread is *)
(* somewhere in its program.                                               *)
Init ==
    \E start \in [Threads -> UNION {Starts[t] : t \in Threads}], first \in Threads :
      LET regs(t) == [gpr |-> start[t], Hi |-> 0, Lo |-> 0, PC |-> 0, NextPC |-> 4,
                      PrevPC |-> 0, LoadReg |-> 0, LoadValue |-> 0, BadVAddr |-> 0]
          memory0 == [a \in 0 .. NumPhysPages * PageSize - 1 |-> Bytes[a]]
          Owner(a) == a \div PageSize
      IN  /\ \A t \in Threads : start[t] \in Starts[t]
          /\ userRegisters = [t \in Threads |-> regs(t)]
          /\ currentThread = first
          /\ m = Loaded(regs(first), first, memory0)
          /\ x = [t \in Threads |->
                    [Reg |-> start[t], HI |-> 0, LO |-> 0, pc |-> 0, npc |-> 4,
                     mem |-> [a \in Word |->
                        IF Owner(a) < Len(PageTables[t])
                        THEN memory0[PageTables[t][Owner(a) + 1] * PageSize + (a % PageSize)]
                        ELSE 0]]]
          /\ fetched = [t \in Threads |-> 0]
          /\ last = NoWord /\ status = "running"

-----------------------------------------------------------------------------
Links == {"JAL", "JALR", "BGEZAL", "BLTZAL"}
Branches == {"BEQ", "BGEZ", "BGEZAL", "BGTZ", "BLEZ", "BLTZ", "BLTZAL", "BNE"}

(* A program must not touch a register in the delay slot of its load. *)
LoadSlotMisused(i) ==
    /\ m.LoadReg # 0
    /\ m.LoadReg \in {i.rs, i.rd} \union (IF i.op \in {"BGEZ", "BGEZAL", "BLTZ", "BLTZAL"} THEN {}
                                           ELSE {i.rt})
                        \union (IF i.op \in Links THEN {R31} ELSE {})

(* Where the two interpreters are known to differ on an instruction that   *)
(* the simulated machine carries out                                       *)
Differs(w, i) ==
    LET a == m.gpr[i.rs]
        b == m.gpr[i.rt]
        inSlot == m.NextPC # Wrap(m.PC + 4)
        wide(v) == v >= 2^HalfBits
        abs(v) == IF SIGN_BIT(v) THEN Wrap(-v) ELSE v
    IN  \/ LoadSlotMisused(i)
        \/ i.op = "OR" /\ (a | b) # a                  \* rs with itself
        \/ i.op \in {"SRL", "SRLV"} /\ SIGN_BIT(b)     \* an arithmetic shift
        \/ i.op \in {"ANDI", "ORI", "XORI"} /\ SIGN_BIT(i.extra)   \* sign extended there
        \/ i.op = "MULT" /\ (wide(abs(a)) \/ wide(abs(b)))  \* carries lost there
        \/ i.op = "MULTU" /\ (wide(a) \/ wide(b))
        \/ exits(x[currentThread], w)
        \/ i.op = "JALR" /\ i.rd = i.rs                \* rd written first
        \/ i.op \in Branches \union Links /\ inSlot    \* relative to NextPC, and to xpc there
        \/ i.op \in {"J", "JAL"}                       \* the segment of pcAfter, and of xpc there
             /\ Wrap(m.NextPC + 4) \div 2^JumpBits # m.PC \div 2^JumpBits
        \/ i.op \in {"LWL", "LWR"}                   \* big-endian, and all bits kept there

(* OneInstruction and OneTick that does not yield.  An exception other     *)
(* than a system call fails an ASSERT in ExceptionHandler.                 *)
OneStep(w) ==
    LET t == currentThread
        i == Decode(w)
        one == OneInstruction(m, w)
    IN  /\ status = "running"
        /\ fetched' = [fetched EXCEPT ![t] = @ + 1]
        /\ last' = w
        /\ IF one.exc = "SyscallException"
           THEN \E r \in Results :
                  /\ m' = returnFromSystemCall(one.m, r)
                  /\ x' = [x EXCEPT ![t] = runprogram(@, w, r)]
                  /\ status' = "called"
           ELSE /\ m' = one.m
                /\ status' = CASE one.exc # "NoException" -> one.exc
                               [] one.exc = "NoException" /\ Differs(w, i) -> "apart"
                               [] OTHER -> "running"
                /\ x' = IF status' = "running" THEN [x EXCEPT ![t] = runprogram(@, w, 0)] ELSE x
        /\ UNCHANGED <<currentThread, userRegisters>>

(* Variant: only the general registers are saved. *)
YieldGeneralOnly(t) ==
    /\ status = "running" /\ t # currentThread
    /\ userRegisters' = [userRegisters EXCEPT ![currentThread] =
                           [Saved(m) EXCEPT !.LoadReg = 0, !.LoadValue = 0]]
    /\ m' = Loaded(userRegisters[t], t, m.mainMemory)
    /\ currentThread' = t
    /\ UNCHANGED <<x, fetched, last, status>>

(* A tick yields: SaveUserState, RestoreUserState and AddrSpace::RestoreState *)
Yield(t) ==
    /\ status = "running" /\ t # currentThread
    /\ userRegisters' = [userRegisters EXCEPT ![currentThread] = Saved(m)]
    /\ m' = Loaded(userRegisters[t], t, m.mainMemory)
    /\ currentThread' = t
    /\ UNCHANGED <<x, fetched, last, status>>

Next ==
    \/ \E n \in DOMAIN Programs[currentThread] :
         /\ n = fetched[currentThread] + 1
         /\ \E w \in Programs[currentThread][n] : OneStep(w)
    \/ \E t \in Threads : Yield(t)

Spec == Init /\ [][Next]_vars

-----------------------------------------------------------------------------
Regs(t) == IF t = currentThread THEN Saved(m) ELSE userRegisters[t]

(* The general registers once the load under way is done *)
Settled(r) == [r.gpr EXCEPT ![r.LoadReg] = r.LoadValue]

(* Whatever the threads execute and wherever they are preempted, each is   *)
(* in step with the interpreter of bin/execute.c that runs beside it: the  *)
(* delayed load and the delayed branch survive a context switch and a      *)
(* system call, and no thread sees the registers or the memory of another. *)
InStep ==
    status \in {"running", "called"} =>
      \A t \in Threads :
        /\ Regs(t).PC = x[t].pc /\ Regs(t).NextPC = x[t].npc
        /\ Regs(t).Hi = x[t].HI /\ Regs(t).Lo = x[t].LO
        /\ \A r \in GPR \ {0} :
             \/ status = "called" /\ t = currentThread /\ r \in {1, 2}
             \/ Settled(Regs(t))[r] = x[t].Reg[r]
        /\ \A a \in 0 .. Len(PageTables[t]) * PageSize - 1 :
             x[t].mem[a] = m.mainMemory[PageTables[t][(a \div PageSize) + 1] * PageSize
                                          + (a % PageSize)]

Executed == fetched' # fetched

(* What the arithmetic instructions compute, in the integers: the double-  *)
(* length product, a quotient and remainder, and an overflow exactly when  *)
(* the result does not fit.                                                *)
ArithmeticExact ==
    [][LET i == Decode(last')
           a == m.gpr[i.rs]
           b == IF i.op = "ADDI" THEN i.extra ELSE m.gpr[i.rt]
           exact == IF i.op = "SUB" THEN Signed(a) - Signed(b) ELSE Signed(a) + Signed(b)
           fits == exact \in -(2^(WordBits - 1)) .. 2^(WordBits - 1) - 1
           double == m'.Hi * 2^WordBits + m'.Lo
       IN  Executed /\ Translate(m, m.PC, 4).exc = "NoException" =>
             /\ i.op = "MULT" => double = (Signed(a) * Signed(b)) % 2^(2 * WordBits)
             /\ i.op = "MULTU" => double = a * b
             /\ i.op = "DIV" /\ b # 0 /\ status' # "SIGFPE" =>
                  /\ Wrap(Signed(m'.Lo) * Signed(b) + Signed(m'.Hi)) = a
                  /\ Signed(m'.Hi) \in -(2^WordBits) .. 2^WordBits
                  /\ Signed(m'.Hi) * Signed(m'.Hi) < Signed(b) * Signed(b)
             /\ i.op \in {"ADD", "ADDI", "SUB"} => (status' = "OverflowException") = ~fits]_vars

Changed == {r \in GPR : Settled(m')[r] # Settled(m)[r]}

(* What bin/disasm.c prints for a word is what the machine does: the name  *)
(* is that of the instruction carried out, a register that changes is one  *)
(* of the operands (or R31, for a link), and a branch that is taken goes   *)
(* to the target.  MFLO is printed with rs and JALR without rd.            *)
DisassemblyAgrees ==
    [][LET i == Decode(last')
           d == dump_ascii(last', m.PC)
           straight == m.NextPC = Wrap(m.PC + 4)
           jumped == m'.NextPC # Wrap(m.NextPC + 4)
           segment == Wrap(m.NextPC + 4) \div 2^JumpBits = m.PC \div 2^JumpBits
       IN  Executed /\ status' \in {"running", "called", "apart"} =>
             /\ i.op \in {d.name, "SYSCALL"} \/ d.name = "nop"
             /\ i.op \notin {"MFLO", "JALR", "SYSCALL"} =>
                  \A r \in Changed : r \in {d.regs[k] : k \in DOMAIN d.regs} \/ (r = R31 /\ i.op \in Links)
             /\ jumped /\ straight /\ segment /\ d.target # NoTarget => m'.NextPC = d.target]_vars

(* An exception is precise: the kernel finds the registers and the memory  *)
(* as they were before the instruction, with the load under way done.      *)
PreciseExceptions ==
    [][status' \in {"AddressErrorException", "OverflowException", "IllegalInstrException"} =>
         /\ m'.gpr = [Settled(m) EXCEPT ![0] = 0] /\ m'.LoadReg = 0
         /\ m'.mainMemory = m.mainMemory
         /\ <<m'.PC, m'.NextPC, m'.Hi, m'.Lo>> = <<m.PC, m.NextPC, m.Hi, m.Lo>>]_vars
=============================================================================
