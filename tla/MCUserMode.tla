----------------------------- MODULE MCUserMode -----------------------------
(* Words of four bits.  Thread "a" first runs one of a few instructions    *)
(* that leave something pending or change its registers, then any          *)
(* instruction at all; thread "b" loads a word and adds.                   *)
EXTENDS UserMode, TLC

R(rs, rt, rd, f, n) == [code |-> 0, rs |-> rs, rt |-> rt, rd |-> rd, funct |-> f, bits |-> n]
I(c, rs, rt, n) == [code |-> c, rs |-> rs, rt |-> rt, rd |-> 0, funct |-> 0, bits |-> n]

Immediates == 0 .. 2^HalfBits - 1
Shifts == 0 .. WordBits - 1
AnyInstruction ==
    {R(rs, rt, rd, f, 0) : rs \in 1 .. 2, rt \in 0 .. 2, rd \in {0, 1, 3}, f \in 4 .. 63}
      \union {R(0, rt, rd, f, n) : rt \in 1 .. 2, rd \in {1, 3}, f \in 0 .. 3, n \in Shifts}
      \union {I(1, rs, c, n) : rs \in 0 .. 3, c \in {0, 1, 2, 16, 17}, n \in Immediates}
      \union {I(c, 0, 0, n) : c \in {2, 3}, n \in 0 .. 1}
      \union {I(c, rs, rt, n) : c \in 4 .. 63, rs \in 1 .. 2, rt \in 1 .. 2, n \in Immediates}

FirstInstructions ==
    { I(35, 0, 1, 0),       \* LW r1, 0(r0)
      I(32, 2, 1, 0),       \* LB r1, 0(r2)
      I(4, 1, 1, 1),        \* BEQ r1, r1, 1
      R(2, 0, 0, 8, 0),     \* JR r2
      I(9, 1, 2, 3),        \* ADDIU r2, r1, -1
      I(3, 0, 0, 1) }       \* JAL

MCPrograms == [t \in Threads |-> IF t = "a" THEN <<FirstInstructions, AnyInstruction>>
                                 ELSE <<{I(35, 0, 1, 1)}, {R(2, 2, 3, 33, 0)}>>]
MCPageTables == [t \in Threads |-> IF t = "a" THEN <<2, 0, 5>> ELSE <<4, 1, 3>>]
MCBytes == [a \in 0 .. NumPhysPages * PageSize - 1 |-> IF a % 5 \in {0, 3} THEN 1 ELSE 0]

Corners == {0, 1, 3, 4, 7, 8, 9, 15}
MCStarts == [t \in Threads |->
    IF t = "a" THEN {(0 :> 0) @@ (1 :> v) @@ (2 :> w) @@ (3 :> 6) : v \in Corners, w \in Corners}
    ELSE {(0 :> 0) @@ (1 :> 3) @@ (2 :> 5) @@ (3 :> 9)}]
=============================================================================
