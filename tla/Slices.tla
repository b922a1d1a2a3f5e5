--------------------------------- MODULE Slices ---------------------------------
(***************************************************************************)
(* Python's slices of bytes, for positions that count from 1.              *)
(***************************************************************************)
EXTENDS Naturals, Sequences

Octets == {n \in Nat : n < 256}

\* data[from:], data[from:to]
From(data, from) == SubSeq(data, from, Len(data))
Slice(data, from, to) == SubSeq(data, from, IF to < Len(data) THEN to ELSE Len(data))
===============================================================================
