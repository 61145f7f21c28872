-------------------------------- MODULE Lists --------------------------------
(***************************************************************************)
(* The List of threads/list.h as a sequence: Append adds at the end,       *)
(* Remove takes the head.                                                  *)
(***************************************************************************)
EXTENDS Naturals, Sequences

Elems(seq) == {seq[i] : i \in DOMAIN seq}

NoDuplicates(seq) ==
    \A i, j \in DOMAIN seq : seq[i] = seq[j] => i = j
=============================================================================
