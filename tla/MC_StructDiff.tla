---------------------------- MODULE MC_StructDiff ----------------------------
(***************************************************************************)
(* StructDiff for TLC.  The structs have a leaf, one tagged "-", a masked   *)
(* leaf, a pointer, another pointer, a masked pointer and a slice, of which *)
(* each family of heaps uses some: pointers in any shape, cycles and shared *)
(* structs included; slices in slices; slices beyond the limit; masks.      *)
(***************************************************************************)
EXTENDS StructDiff, TLC

CONSTANTS o1, o2, o3, o4, zero, one

MCFields == <<"v", "hidden", "secret", "p", "q", "m", "rows">>
MCKindOf == [v |-> "leaf", hidden |-> "leaf", secret |-> "leaf", p |-> "pointer",
             q |-> "pointer", m |-> "pointer", rows |-> "slice"]
MCTagOf == [v |-> "none", hidden |-> "-", secret |-> "mask", p |-> "none",
            q |-> "none", m |-> "mask", rows |-> "none"]

Structs(v, hidden, secret, p, q, m, rows) ==
    [v : v, hidden : hidden, secret : secret, p : p, q : q, m : m, rows : rows]

Z == {zero}
B == {zero, one}
N == {Nil}
E == {<<>>}
UpTo(k, S) == UNION {[1..l -> S] : l \in 0..k}
Blank == Structs(Z, Z, Z, N, N, N, E)

Heap4(h1, h2, h3, h4) ==
    {o1 :> a @@ o2 :> b @@ o3 :> c @@ o4 :> d : a \in h1, b \in h2, c \in h3, d \in h4}

Pointers ==
    LET Anywhere == {Nil, o1, o2, o3} IN
    Heap4(Structs(B, Z, Z, Anywhere, Anywhere, N, E), Structs(B, Z, Z, Anywhere, Anywhere, N, E),
          Structs(B, Z, Z, Anywhere, N, N, E), Blank)
SlicesIn ==
    Heap4(Structs(Z, Z, Z, N, N, N, UpTo(2, {o1, o3, o4})), Structs(Z, Z, Z, N, N, N, UpTo(2, {o2, o3, o4})),
          Structs(Z, B, Z, N, N, N, {<<>>, <<o4>>}), Structs(B, B, Z, N, N, N, E))
LongSlices ==
    Heap4(Structs(Z, Z, Z, N, N, N, UpTo(3, {o3, o4})), Structs(Z, Z, Z, N, N, N, UpTo(3, {o3, o4})),
          Structs(Z, Z, Z, N, N, N, E), Structs(B, Z, Z, N, N, N, E))
Masks ==
    Heap4(Structs(Z, Z, B, N, N, {Nil, o1, o3, o4}, E), Structs(Z, Z, B, N, N, {Nil, o2, o3, o4}, E),
          Structs(B, Z, Z, {Nil, o3, o4}, N, N, E), Structs(B, Z, Z, {Nil, o3, o4}, N, N, E))

MCObjects == {o1, o2, o3, o4}
MCVals == {zero, one}
MCHeaps == Pointers \cup SlicesIn \cup LongSlices \cup Masks
MCRoots == {<<o1, o2>>, <<Nil, o2>>, <<Nil, Nil>>}
=============================================================================
