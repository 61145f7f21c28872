-------------------------- MODULE MCVirtualMemory --------------------------
(* Page 0 is code; the executable has no bytes for the last page, a stack   *)
(* page; what it has for the pages between is zero.                         *)
EXTENDS VirtualMemory

MCImage == [v \in Pages |-> CASE v = 0 -> "one" [] v = NumPages - 1 -> NoBytes
                               [] OTHER -> "zero"]
=============================================================================
