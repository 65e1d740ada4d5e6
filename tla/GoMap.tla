-------------------------------- MODULE GoMap --------------------------------
(***************************************************************************)
(* A Go map as a function on its keys: m[k] = v and delete(m, k).          *)
(***************************************************************************)
Put(f, k, v) == [x \in DOMAIN f \cup {k} |-> IF x = k THEN v ELSE f[x]]
Drop(f, k) == [x \in DOMAIN f \ {k} |-> f[x]]
=============================================================================
