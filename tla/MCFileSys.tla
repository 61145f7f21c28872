----------------------------- MODULE MCFileSys -----------------------------
EXTENDS FileSys, TLC

(* Requests for part of a sector, across the sector boundary, up to the    *)
(* end of the larger file and past the end of the smaller.                 *)
MCReads == { <<0, 3>> }
MCWritings == { <<0, 1>>, <<1, 2>> }

Symmetry == Permutations(Threads)
=============================================================================
