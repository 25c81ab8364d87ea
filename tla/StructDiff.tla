----------------------------- MODULE StructDiff -----------------------------
(***************************************************************************)
(* zenalog.DiffStructs (diff.go): the recursion over two graphs of structs *)
(* that point to each other, with tags, masks and the set of pairs already *)
(* visited, and how slices and wholes are compared by their JSON.          *)
(*                                                                         *)
(* The structs live in a heap; before and after are pointers into it, and  *)
(* may share structs.  The recursion is a stack of calls, the innermost    *)
(* first.  All structs are of one type with the fields Fields, each a leaf *)
(* (a basic value, a time, a map), a pointer to a struct or a slice of     *)
(* such pointers, none of them nil.  Two slices are aligned along any      *)
(* cheapest way: that diffSlice takes one is what SliceDiff shows.         *)
(***************************************************************************)
EXTENDS Integers, Sequences, SequencesExt, FiniteSets

CONSTANTS
    Objects,            \* addresses of structs
    Nil,                \* the nil pointer
    Mask,               \* maskText
    Vals,               \* values of leaves
    Fields,             \* the exported fields, in their order
    KindOf,             \* "leaf", "pointer" or "slice"
    TagOf,              \* the zenalog tag: "none", "mask" or "-"
    Heaps,              \* the heaps to compare in
    Roots,              \* the pairs of before and after
    MaxLevenshteinLen

FieldSet == ToSet(Fields)

ASSUME FieldsAssumption ==
    /\ KindOf \in [FieldSet -> {"leaf", "pointer", "slice"}]
    /\ TagOf \in [FieldSet -> {"none", "mask", "-"}]
    /\ Fields \in Seq(FieldSet)
    /\ \A k, l \in 1..Len(Fields) : Fields[k] = Fields[l] => k = l
    /\ MaxLevenshteinLen \in Nat

Pointer == Objects \cup {Nil}

\* What a field of a kind may hold.
ValuesOf(kind) ==
    CASE kind = "leaf"    -> Vals
      [] kind = "pointer" -> Pointer
      [] kind = "slice"   -> Seq(Objects)

ASSUME HeapsAssumption ==
    /\ IsFiniteSet(Objects)
    /\ Nil \notin Objects /\ Mask \notin Pointer \cup Vals /\ Vals \cap Objects = {}
    /\ Roots \subseteq Pointer \X Pointer
    /\ \A h \in Heaps, o \in Objects, f \in FieldSet : h[o][f] \in ValuesOf(KindOf[f])

VARIABLES
    heap,       \* the fields of every struct
    root,       \* <<before, after>>
    visited,    \* d.visited
    stack,      \* the calls of diff and diffSlice that are under way
    out         \* d.out; the pair a change was found in, of, is history

vars == <<heap, root, visited, stack, out>>

\* A place is a sequence of steps <<field, k>>: into the field, and to its k-th
\* element if k > 0 (the code numbers elements from 0).
Call(path, of, field, b, a) ==
    [path |-> path, of |-> of, kind |-> KindOf[field], masked |-> TagOf[field] = "mask",
     b |-> b, a |-> a, i |-> 0, j |-> 0]

\* d.diff of two pointers to structs, no field's tag applying.
PointerCall(path, of, b, a) ==
    [path |-> path, of |-> of, kind |-> "pointer", masked |-> FALSE,
     b |-> b, a |-> a, i |-> 0, j |-> 0]

Init ==
    /\ heap \in Heaps /\ root \in Roots
    /\ visited = {}
    /\ stack = <<PointerCall(<<>>, root, root[1], root[2])>>
    /\ out = <<>>

call == Head(stack)
rest == Tail(stack)
-----------------------------------------------------------------------------
(* canonical: JSON, or the print of a struct that has none.                *)

Pointees(o) ==
    UNION {IF KindOf[f] = "pointer" THEN {heap[o][f]} \ {Nil} ELSE ToSet(heap[o][f]) :
              f \in {g \in FieldSet : KindOf[g] # "leaf"}}

\* The structs k pointers or fewer away from one that o points to.
Within(o) ==
    LET w[k \in Nat] ==
          IF k = 0 THEN Pointees(o)
          ELSE LET near == w[k - 1] IN near \cup UNION {Pointees(x) : x \in near}
    IN  w[Cardinality(Objects)]

\* json.Marshal fails on a struct that leads to a cycle.
Cyclic(o) == \E x \in Within(o) \cup {o} : x \in Within(x)

\* Two values of one field look alike, if R relates the structs they point to.
Alike(f, x, y, R) ==
    CASE KindOf[f] = "leaf"    -> x = y
      [] KindOf[f] = "pointer" -> x = y \/ <<x, y>> \in R
      [] KindOf[f] = "slice"   -> Len(x) = Len(y) /\ \A k \in 1..Len(x) : <<x[k], y[k]>> \in R

\* The pairs of P that differ in no field of fs, however far one follows these fields:
\* those that are left when no more of them are told apart.
Indistinct(P, fs) ==
    LET eq[k \in Nat] ==
          IF k = 0 THEN P
          ELSE LET R == eq[k - 1]
               IN  {p \in R : \A f \in fs : Alike(f, heap[p[1]][f], heap[p[2]][f], R)}
    IN  eq[CHOOSE k \in 0..Cardinality(P) : eq[k + 1] = eq[k]]

\* The texts of two pointers or leaves.  JSON shows every field, whatever its zenalog
\* tag; where it fails, %v shows the fields of the struct with the pointers in them.
SameText(x, y) ==
    IF x \in Objects /\ y \in Objects
      THEN \/ Cyclic(x) /\ Cyclic(y) /\ heap[x] = heap[y]
           \/ ~Cyclic(x) /\ ~Cyclic(y) /\ <<x, y>> \in Indistinct(Objects \X Objects, FieldSet)
      ELSE x = y

\* The texts of two values of a kind; a slice has no JSON if one element has none, and
\* %v shows the pointers in it.
SameTexts(kind, x, y) ==
    IF kind # "slice" THEN SameText(x, y)
    ELSE \/ x = y
         \/ /\ Len(x) = Len(y)
            /\ \A o \in ToSet(x) \cup ToSet(y) : ~Cyclic(o)
            /\ \A k \in 1..Len(x) : SameText(x[k], y[k])
-----------------------------------------------------------------------------
(* diff, diffStruct, leaf                                                  *)

Change(path, of, from, to) == [path |-> path, of |-> of, from |-> from, to |-> to]

Pop == stack' = rest /\ UNCHANGED <<heap, root, visited>>

\* leaf: equal texts are no change; masked, both values are shown as Mask.
SameLeaf == SameTexts(call.kind, call.b, call.a)

IsLeaf ==
    \/ call.masked \/ call.kind = "leaf"
    \/ call.kind = "pointer" /\ (call.b = Nil) # (call.a = Nil)

Leaf ==
    /\ stack # <<>> /\ IsLeaf
    /\ out' = IF SameLeaf THEN out
              ELSE Append(out, IF call.masked THEN Change(call.path, call.of, Mask, Mask)
                               ELSE Change(call.path, call.of, call.b, call.a))
    /\ Pop

IsPair == stack # <<>> /\ call.kind = "pointer" /\ ~IsLeaf

BothNil ==
    /\ IsPair /\ call.b = Nil
    /\ Pop /\ UNCHANGED out

\* Altered: a struct is visited once, whatever it is compared with.
SeenOld == \E p \in visited : p[1] = call.b

\* The pair has been compared, or is being compared.
Seen == <<call.b, call.a>> \in visited

Revisit ==
    /\ IsPair /\ call.b # Nil /\ Seen
    /\ Pop /\ UNCHANGED out

\* Altered: pairs are not remembered.
MarkMissing == UNCHANGED visited

Mark == visited' = visited \cup {<<call.b, call.a>>}

\* diffStruct: each field in its order, but those tagged "-".
ShownFields ==
    LET s[k \in 0..Len(Fields)] ==
          IF k = 0 THEN <<>>
          ELSE IF TagOf[Fields[k]] = "-" THEN s[k - 1] ELSE Append(s[k - 1], Fields[k])
    IN  s[Len(Fields)]

FieldCall(f) ==
    Call(Append(call.path, <<f, 0>>), <<call.b, call.a>>, f, heap[call.b][f], heap[call.a][f])

FieldCalls == [k \in 1..Len(ShownFields) |-> FieldCall(ShownFields[k])]

Enter ==
    /\ IsPair /\ call.b # Nil /\ ~Seen
    /\ Mark
    /\ stack' = FieldCalls \o rest
    /\ UNCHANGED <<heap, root, out>>
-----------------------------------------------------------------------------
(* diffSlice: i and j elements are behind.                                 *)

IsSlice == stack # <<>> /\ call.kind = "slice" /\ ~call.masked

TooLong == Len(call.b) > MaxLevenshteinLen \/ Len(call.a) > MaxLevenshteinLen

Smallest(S) == CHOOSE x \in S : \A y \in S : x <= y

\* The number of operations that turn what follows i elements into what follows j.
Distance(b, a) ==
    LET d[k \in 0..Len(b), l \in 0..Len(a)] ==
          IF k = Len(b) THEN Len(a) - l
          ELSE IF l = Len(a) THEN Len(b) - k
          ELSE Smallest({d[k + 1, l + 1] + (IF SameText(b[k + 1], a[l + 1]) THEN 0 ELSE 1),
                         d[k + 1, l] + 1, d[k, l + 1] + 1})
    IN  d

\* Going on by di and dj elements for one operation, or for none, is on a cheapest way.
Cheapest(di, dj, cost) ==
    /\ call.i + di <= Len(call.b) /\ call.j + dj <= Len(call.a)
    /\ LET d == Distance(call.b, call.a)
       IN  d[call.i, call.j] = d[call.i + di, call.j + dj] + cost

AdvanceBy(di, dj) == [call EXCEPT !.i = @ + di, !.j = @ + dj]

\* Altered: a pair is filed under its old index, as design.md:269 has it.
PairIndexOld == call.i + 1

\* The index in the field of a pair: the new one, whatever design.md:269 says.
PairIndex == call.j + 1

\* path[k]: the path of the slice itself ends in its field.
Element(k) == [call.path EXCEPT ![Len(call.path)] = <<@[1], k>>]

\* Equal elements: nothing to do.
Keep ==
    /\ IsSlice /\ ~TooLong /\ Cheapest(1, 1, 0)
    /\ SameText(call.b[call.i + 1], call.a[call.j + 1])
    /\ stack' = <<AdvanceBy(1, 1)>> \o rest
    /\ UNCHANGED <<heap, root, visited, out>>

\* Two elements are paired: d.diff of the pointers.
PairUp ==
    /\ IsSlice
    /\ IF TooLong THEN call.i < Len(call.b) /\ call.j < Len(call.a)
                  ELSE Cheapest(1, 1, 1) /\ ~SameText(call.b[call.i + 1], call.a[call.j + 1])
    /\ stack' = <<PointerCall(Element(PairIndex), call.of, call.b[call.i + 1], call.a[call.j + 1]),
                  AdvanceBy(1, 1)>> \o rest
    /\ UNCHANGED <<heap, root, visited, out>>

Unpaired(di, dj) == IF TooLong THEN call.i + di <= Len(call.b) /\ call.j + dj <= Len(call.a)
                                    /\ (call.i = Len(call.b) \/ call.j = Len(call.a))
                               ELSE Cheapest(di, dj, 1)

Delete ==
    /\ IsSlice /\ Unpaired(1, 0)
    /\ out' = Append(out, Change(Element(call.i + 1), call.of, call.b[call.i + 1], Nil))
    /\ stack' = <<AdvanceBy(1, 0)>> \o rest
    /\ UNCHANGED <<heap, root, visited>>

Insert ==
    /\ IsSlice /\ Unpaired(0, 1)
    /\ out' = Append(out, Change(Element(call.j + 1), call.of, Nil, call.a[call.j + 1]))
    /\ stack' = <<AdvanceBy(0, 1)>> \o rest
    /\ UNCHANGED <<heap, root, visited>>

SliceDone ==
    /\ IsSlice /\ call.i = Len(call.b) /\ call.j = Len(call.a)
    /\ Pop /\ UNCHANGED out

Next ==
    \/ Leaf \/ BothNil \/ Revisit \/ Enter
    \/ Keep \/ PairUp \/ Delete \/ Insert \/ SliceDone

Spec == Init /\ [][Next]_vars

-----------------------------------------------------------------------------
Done == stack = <<>>
Shown == {f \in FieldSet : TagOf[f] # "-"}

\* The pairs of structs whose masked fields have equal texts.
SameMasked ==
    {p \in Objects \X Objects : \A f \in FieldSet :
        TagOf[f] = "mask" => SameTexts(KindOf[f], heap[p[1]][f], heap[p[2]][f])}

\* An empty answer means that nothing visible has changed: wherever one gets from
\* before and after, by the same fields and the same indices, there is no difference
\* outside the fields tagged "-".  On graphs with cycles and shared structs too,
\* though a pair is compared only once and elements with equal texts not at all.
EmptyMeansSame ==
    Done /\ out = <<>> =>
        \/ root = <<Nil, Nil>>
        \/ root \in Indistinct(SameMasked, {f \in Shown : TagOf[f] = "none"})

\* The pairs of structs that the same pointers lead to.
Met ==
    LET Next1(P) == {<<heap[p[1]][f], heap[p[2]][f]>> :
                        p \in P, f \in {g \in FieldSet : KindOf[g] = "pointer" /\ TagOf[g] = "none"}}
        m[k \in Nat] == IF k = 0 THEN {root} \cap (Objects \X Objects)
                        ELSE LET P == m[k - 1] IN P \cup (Next1(P) \cap (Objects \X Objects))
    IN  m[Cardinality(Objects) * Cardinality(Objects)]

Differs(p, f) ==
    LET x == heap[p[1]][f]
        y == heap[p[2]][f]
    IN  IF TagOf[f] = "mask" THEN ~SameTexts(KindOf[f], x, y)
        ELSE IF KindOf[f] = "pointer" THEN (x = Nil) # (y = Nil)
        ELSE x # y

Reports(p, f) == {k \in 1..Len(out) : out[k].of = p /\ out[k].path # <<>>
                                      /\ out[k].path[Len(out[k].path)] = <<f, 0>>}

\* Every pair of structs that pointers lead to is reported, each field that differs
\* exactly once, however many ways lead there; a field that does not differ, never.
DifferencesOnce ==
    Done => \A p \in Met, f \in Shown :
              KindOf[f] # "slice" \/ TagOf[f] = "mask" =>
                Cardinality(Reports(p, f)) = IF Differs(p, f) THEN 1 ELSE 0

\* The value of field and index that a path leads to.
At(o, path) ==
    LET v[k \in 0..Len(path)] ==
          IF k = 0 THEN o
          ELSE LET x == heap[v[k - 1]][path[k][1]] IN IF path[k][2] = 0 THEN x ELSE x[path[k][2]]
    IN  v[Len(path)]

\* A reader who follows the field of a change in the new object finds the new value
\* there; only what was deleted, or is masked, is not to be found.  This is what
\* diffSlice does, and not what design.md:269 says, which files a pair of elements
\* under its original index.
ToIsAtPath ==
    \A k \in 1..Len(out) :
        out[k].to \in {Nil, Mask} \/ out[k].to = At(root[2], out[k].path)

\* What is left to do: elements of slices count twice, as two of them may become a call.
Weight(c) ==
    1 + (IF c.kind = "slice" THEN 2 * ((Len(c.b) - c.i) + (Len(c.a) - c.j)) ELSE 0)

WorkOf(calls) ==
    LET w[k \in 0..Len(calls)] == IF k = 0 THEN 0 ELSE w[k - 1] + Weight(calls[k])
    IN  w[Len(calls)]

Work == WorkOf(stack)

\* DiffStructs ends on every graph, cyclic or not: each step either meets a new pair
\* of structs, of which there are finitely many, or leaves less to do.
EndsOnCycles ==
    [][ \/ visited' # visited /\ visited \subseteq visited'
        \/ visited' = visited /\ Work' < Work ]_vars
=============================================================================
