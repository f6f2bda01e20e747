------------------------------ MODULE Vectors ------------------------------
(* Operations of the program's vectors that the library has no operator for. *)
EXTENDS Integers, Sequences

(* The items of s that are in `keep`, in their order: filter and retain.    *)
Retain(s, keep) ==
  LET kept[i \in 0 .. Len(s)] ==
        IF i = 0 THEN <<>>
        ELSE IF s[i] \in keep THEN Append(kept[i - 1], s[i]) ELSE kept[i - 1]
  IN kept[Len(s)]
=============================================================================
