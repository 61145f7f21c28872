------------------------------ MODULE MCLoader ------------------------------
(***************************************************************************)
(* Object files with code and data of up to two pages, linked one after    *)
(* the other, and a few that are not: two data sections, bss and sbss in a *)
(* row and apart, a section nobody knows, data whose two addresses differ   *)
(* and data at the end of the interpreter's memory.                        *)
(***************************************************************************)
EXTENDS Loader

At(name, paddr, vaddr, size) ==
    [s_name |-> name, s_paddr |-> paddr, s_vaddr |-> vaddr, s_size |-> size]
Sec(name, at, size) == At(name, at, at, size)
MCPacked == [f \in (0 .. 4) \X (0 .. 4) \X (0 .. 1) \X BssNames |->
    <<Sec(".text", 0, f[1]), Sec(".data", f[1], f[2]), Sec(f[4], f[1] + f[2], f[3])>>]
MCOdd == <<
    <<Sec(".text", 0, 2), Sec(".rdata", 2, 1), Sec(".data", 3, 1)>>,
    <<Sec(".text", 0, 3), Sec(".rdata", 3, 1), Sec(".data", 4, 0), Sec(".sbss", 4, 1), Sec(".bss", 5, 2)>>,
    <<Sec(".text", 0, 3), Sec(".data", 3, 1), Sec(".bss", 4, 1), Sec(".sbss", 6, 1)>>,
    <<Sec(".data", 0, 1), Sec(".text", 1, 3)>>,
    <<Sec(".text", 0, 3), Sec(".sdata", 3, 1)>>,
    <<Sec(".text", 0, 3), At(".data", 3, 8, 1)>>, <<Sec(".text", 0, 2), At(".data", 2, 15, 1)>> >>
MCFiles == MCPacked @@ [f \in {<<i>> : i \in DOMAIN MCOdd} |-> MCOdd[f[1]]]
=============================================================================
