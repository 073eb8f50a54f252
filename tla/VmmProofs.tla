------------------------------ MODULE VmmProofs ------------------------------
(***************************************************************************)
(* Proofs about the page tables.  The inductive invariant gives every      *)
(* frame in use an owner (the kernel or a process) and a place (the path   *)
(* of indices that leads to it from the owner's top level), by two         *)
(* functions, who and at, which the code does not have: they exist, and    *)
(* each step says how they change.  With them the tables are a forest: no  *)
(* two frames have one place, an entry holds the frame whose place is one  *)
(* index further down, and every frame but a top level is held by such an  *)
(* entry.  This is what makes freeing the frame of one entry harmless for  *)
(* all other entries.  What the deletion has visited already is exempt:    *)
(* those entries still hold the frames they held.                          *)
(***************************************************************************)
EXTENDS Vmm, TLAPS

\* Whose tables there are, which of them exist, and the addresses they map.
Owners     == Procs \cup {"kernel"}
Present(w) == w = "kernel" \/ (w \in Procs /\ top[w] # NULL)
Addrs(w)   == IF w = "kernel" THEN KernelAddrs ELSE UserAddrs

\* The page a caller of vmm_map_page holds that is not entered yet.
Held       == IF op.do = "map" THEN {op.phys} ELSE {}

\* The frames in the tables.
In         == (Frames \ available) \ Held

\* The deletion has passed the entry i of f.
Visited(f, i) == \E k \in DOMAIN walk : walk[k].table = f /\ i < walk[k].i

\* Paths through the tables: an address up to some level.
Paths      == Seq(Indices)
Root       == <<>>
Down(x, i) == Append(x, i)
Depth(x)   == Len(x)
Upto(a, n) == [k \in 1..n |-> a[k]]

\* The values of op.
Ops == [do : {"off", "map", "get_phys", "unmap"}, who : Owners \cup {NULL},
        addr : UserAddrs \cup KernelAddrs \cup {<<>>}, table : Frames \cup {NULL},
        depth : 0..Levels, phys : Frames \cup {NULL, Fb}]

\* Types of the variables.
Types ==
    /\ available \subseteq Frames /\ failed \in BOOLEAN
    /\ entry \in [Frames -> [Indices -> Frames \cup {NULL, Junk, Fb}]]
    /\ top \in [Procs -> Frames \cup {NULL}]
    /\ victim \in Procs \cup {NULL}
    /\ op \in Ops /\ (op.do = "off" => op = Off)
    /\ walk \in Seq([table : Frames, i : 0..Entries])
    /\ mapping = [w \in Owners |-> mapping[w]]
    /\ \A w \in Owners : mapping[w] \in [Addrs(w) -> Frames \cup {NULL, Fb}]

\* An entry of a process's top level that is the kernel's.
Shared(who, at, f, i) == at[f] = Root /\ who[f] # "kernel" /\ i >= Half

\* c is in the place that the entry i of f leads to.
Child(who, at, f, i, c) == who[c] = who[f] /\ at[c] = Down(at[f], i)

\* x is a place on the way to an address of w; the kernel's half is complete.
Known(w, x) ==
    \/ x = Root
    \/ w = "kernel" /\ Depth(x) = 1
    \/ \E a \in Addrs(w) : x = Upto(a, Depth(x))

\* Every frame in use has a place of its own, and the top levels have theirs.
Placed(who, at) ==
    /\ \A f \in In : Present(who[f]) /\ Depth(at[f]) <= Levels /\ Known(who[f], at[f])
    /\ \A f, g \in In : who[f] = who[g] /\ at[f] = at[g] => f = g
    /\ \A w \in Owners : Present(w) => TopOf(w) \in In /\ who[TopOf(w)] = w /\ at[TopOf(w)] = Root

\* An entry that is present, and not visited, holds the frame of its place.
Children(who, at) ==
    \A f \in In, i \in Indices :
      Depth(at[f]) < Levels /\ ~Shared(who, at, f, i) /\ ~Visited(f, i) /\ entry[f][i] # NULL =>
        \/ entry[f][i] = Fb /\ Depth(at[f]) = Levels - 1
        \/ entry[f][i] \in In /\ Child(who, at, f, i, entry[f][i])

\* Every frame but a top level is held by the entry that leads to its place.
Parents(who, at) ==
    \A f \in In : at[f] # Root =>
      \E g \in In, i \in Indices :
        Child(who, at, g, i, f) /\ entry[g][i] = f /\ ~Visited(g, i)

\* The kernel's half is full, and the same in every top level.
KernelShared ==
    /\ \A i \in Indices : entry[KTop][i] = NULL <=> i < Half
    /\ \A p \in Procs : top[p] # NULL => \A i \in KernelHalf : entry[top[p]][i] = entry[KTop][i]

\* g is the last-level table of the address a of w.
Maps(who, at, w, a, g) == who[g] = w /\ Down(at[g], a[Levels]) = a

\* What that table holds for a is what was mapped there last.
MapsExactly(who, at, w, a) ==
    /\ \A g \in In : Maps(who, at, w, a, g) => entry[g][a[Levels]] = mapping[w][a]
    /\ mapping[w][a] # NULL => \E g \in In : Maps(who, at, w, a, g)

\* This for every address; a process that is gone has mapped nothing.
Mapped(who, at) ==
    /\ \A w \in Live \cup {"kernel"} : \A a \in Addrs(w) : MapsExactly(who, at, w, a)
    /\ \A p \in Procs \ Live : \A a \in UserAddrs : mapping[p][a] = NULL
    /\ \A a \in KernelAddrs : mapping["kernel"][a] # Fb

\* The walk under vmm_spinlock stands at the table of its address and level, and a
\* page that is to be mapped is mapped nowhere.
Walking(who, at) ==
    op # Off =>
      /\ op.who \in Live \cup {"kernel"}
      /\ op.addr \in Addrs(op.who) /\ op.depth \in 1..Levels
      /\ op.table \in In /\ who[op.table] = op.who /\ at[op.table] = Upto(op.addr, op.depth - 1)
      /\ op.do = "map" => /\ mapping[op.who][op.addr] = NULL
                          /\ op.phys \in (Frames \ available) \cup {Fb}
                          /\ op.phys = Fb => op.who # "kernel"
      /\ op.do # "map" => op.who = "kernel" /\ mapping[op.who][op.addr] # NULL
      /\ op.do = "unmap" => op.phys = mapping[op.who][op.addr]

\* The nested calls of free_levels are a path of the victim's tables.
Deleting(who, at) ==
    /\ walk = <<>> <=> victim = NULL
    /\ walk # <<>> => top[victim] # NULL /\ walk[1].table = top[victim] /\ walk[1].i <= Half
    /\ Len(walk) <= Levels
    /\ \A k \in DOMAIN walk :
         /\ walk[k].table \in In /\ who[walk[k].table] = victim /\ Depth(at[walk[k].table]) = k - 1
         /\ k < Len(walk) => /\ walk[k].i \in Indices /\ (k = 1 => walk[k].i < Half)
                             /\ entry[walk[k].table][walk[k].i] = walk[k + 1].table

\* All of it, for one choice of the two functions.
Shape(who, at) ==
    /\ who \in [Frames -> Owners] /\ at \in [Frames -> Paths]
    /\ Placed(who, at) /\ Children(who, at) /\ Parents(who, at) /\ KernelShared
    /\ Mapped(who, at) /\ Walking(who, at) /\ Deleting(who, at)

\* The inductive invariant.
IInv == Types /\ \E who \in [Frames -> Owners], at \in [Frames -> Paths] : Shape(who, at)

\* Most leaves are first-order; those with arithmetic or EXCEPT cite SMT.
USE Zenon

-----------------------------------------------------------------------------
\* Paths.

\* Going down lengthens a path by one and never leads to the root.
LEMMA PathFacts ==
    /\ \A x \in Paths, i \in Indices :
         Down(x, i) \in Paths /\ Depth(Down(x, i)) = Depth(x) + 1 /\ Down(x, i) # Root
    /\ \A x \in Paths : Depth(x) \in Nat /\ (Depth(x) = 0 <=> x = Root)
    /\ Root \in Paths /\ Depth(Root) = 0
<1>1. ASSUME NEW x \in Paths, NEW i \in Indices
      PROVE  Down(x, i) \in Paths /\ Depth(Down(x, i)) = Depth(x) + 1 /\ Down(x, i) # Root
  <2>1. Append(x, i) \in Seq(Indices) /\ Len(Append(x, i)) = Len(x) + 1 /\ Len(x) \in Nat
    BY SMT DEF Paths
  <2>2. Len(<<>>) = 0
    OBVIOUS
  <2> QED BY <2>1, <2>2, SMT DEF Paths, Down, Depth, Root
<1>2. ASSUME NEW x \in Paths
      PROVE  Depth(x) \in Nat /\ (Depth(x) = 0 <=> x = Root)
  <2>1. Len(x) \in Nat
    BY SMT DEF Paths
  <2>2. x = <<>> => Len(x) = 0
    BY SMT
  <2>3. ASSUME Len(x) = 0 PROVE x = <<>>
    BY <2>3, SMT DEF Paths
  <2> QED BY <2>1, <2>2, <2>3 DEF Depth, Root
<1>3. Root \in Paths
  BY SMT DEF Root, Paths
<1> QED BY <1>1, <1>2, <1>3

\* A path that goes down determines where it came from and by which index.
LEMMA DownInjective ==
    \A s, t \in Paths, i, j \in Indices : Down(s, i) = Down(t, j) => s = t /\ i = j
<1> SUFFICES ASSUME NEW s \in Seq(Indices), NEW t \in Seq(Indices), NEW i \in Indices,
                    NEW j \in Indices, Append(s, i) = Append(t, j)
             PROVE  s = t /\ i = j
  BY DEF Paths, Down
<1>1. Len(s) = Len(t)
  <2>1. Len(Append(s, i)) = Len(s) + 1 /\ Len(Append(t, j)) = Len(t) + 1 /\ Len(s) \in Nat /\ Len(t) \in Nat
    BY SMT
  <2> QED BY <2>1, SMT
<1>2. i = j
  <2>1. Append(s, i)[Len(s) + 1] = i /\ Append(t, j)[Len(t) + 1] = j
    BY SMT
  <2> QED BY <1>1, <2>1
<1>3. \A k \in 1..Len(s) : s[k] = t[k]
  <2> TAKE k \in 1..Len(s)
  <2>1. Append(s, i)[k] = s[k] /\ Append(t, j)[k] = t[k]
    BY <1>1, SMT
  <2> QED BY <2>1
<1> QED BY <1>1, <1>2, <1>3, SMT

\* An address up to a level is a path, one index longer than up to the level before.
LEMMA UptoPath ==
    ASSUME NEW a \in Paths, NEW n \in 0..Depth(a)
    PROVE  /\ Upto(a, n) \in Paths /\ Depth(Upto(a, n)) = n
           /\ n > 0 => a[n] \in Indices /\ Upto(a, n) = Down(Upto(a, n - 1), a[n])
           /\ n = 0 => Upto(a, n) = Root
           /\ n = Depth(a) => Upto(a, n) = a
<1>1. \A m \in 0..Len(a) : Upto(a, m) \in Seq(Indices) /\ Len(Upto(a, m)) = m
  <2> TAKE m \in 0..Len(a)
  <2>1. \A k \in 1..m : a[k] \in Indices
    BY SMT DEF Paths
  <2>2. Upto(a, m) \in [1..m -> Indices]
    BY <2>1 DEF Upto
  <2> QED BY <2>2, SMT DEF Paths
<1>2. ASSUME n > 0 PROVE a[n] \in Indices /\ Upto(a, n) = Append(Upto(a, n - 1), a[n])
  <2>1. a[n] \in Indices
    BY <1>2, SMT DEF Paths, Depth
  <2>2. Upto(a, n - 1) \in Seq(Indices) /\ Len(Upto(a, n - 1)) = n - 1
    BY <1>1, <1>2, SMT DEF Depth, Paths
  <2>3. Append(Upto(a, n - 1), a[n]) \in Seq(Indices) /\ Len(Append(Upto(a, n - 1), a[n])) = n
    BY <2>1, <2>2, <1>2, SMT
  <2>4. \A k \in 1..n : Append(Upto(a, n - 1), a[n])[k] = a[k]
    BY <2>1, <2>2, <1>2, SMT DEF Upto
  <2>5. \A k \in 1..n : Upto(a, n)[k] = a[k]
    BY DEF Upto
  <2> QED BY <1>1, <2>1, <2>3, <2>4, <2>5, SMT DEF Depth
<1>3. n = 0 => Upto(a, n) = <<>>
  BY <1>1, SMT DEF Depth
<1>4. n = Len(a) => Upto(a, n) = a
  BY <1>1, SMT DEF Upto, Paths
<1> QED BY <1>1, <1>2, <1>3, <1>4 DEF Paths, Depth, Down, Root

-----------------------------------------------------------------------------
\* Facts of one state.

\* An address is a path of full depth whose first index tells whose it is.
LEMMA AddrFacts ==
    ASSUME NEW w \in Owners, NEW a \in Addrs(w)
    PROVE  /\ a \in Paths /\ Depth(a) = Levels /\ Levels \in Nat /\ Levels > 1
           /\ \A n \in 1..Levels : a[n] \in Indices
           /\ w = "kernel" <=> a[1] >= Half
<1>1. a \in Seq(Indices) /\ Len(a) = Levels /\ Levels \in Nat /\ Levels > 1
  BY VmmAssumption, SMT DEF Addrs
<1>2. \A n \in 1..Levels : a[n] \in Indices
  BY <1>1, SMT
<1>3. a[1] \in KernelHalf <=> a \in KernelAddrs
  BY VmmAssumption DEF Addrs
<1>4. a \in KernelAddrs <=> w = "kernel"
  BY VmmAssumption DEF Addrs
<1>5. a[1] \in Indices
  BY <1>1, <1>2, SMT
<1>6. a[1] >= Half <=> a[1] \in KernelHalf
  BY <1>5, VmmAssumption, SMT DEF KernelHalf, Indices
<1> QED BY <1>1, <1>2, <1>3, <1>4, <1>6 DEF Paths, Depth

\* What is in the tables is a frame.
LEMMA InFrames == In \subseteq Frames
BY DEF In

\* Every frame in the tables has an owner and a place.
LEMMA InFacts ==
    ASSUME NEW who, NEW at, Shape(who, at)
    PROVE  \A f \in In : f \in Frames /\ who[f] \in Owners /\ at[f] \in Paths
BY InFrames DEF Shape

\* The top levels, and no other frames, are at the root.
LEMMA TopFacts ==
    ASSUME NEW who, NEW at, Shape(who, at)
    PROVE  /\ KTop \in In /\ who[KTop] = "kernel" /\ at[KTop] = Root
           /\ \A w \in Owners : Present(w) => TopOf(w) \in In /\ who[TopOf(w)] = w /\ at[TopOf(w)] = Root
           /\ \A g \in In : at[g] = Root => Present(who[g]) /\ g = TopOf(who[g])
<1>1. Placed(who, at) /\ who \in [Frames -> Owners]
  BY DEF Shape
<1>2. \A w \in Owners : Present(w) => TopOf(w) \in In /\ who[TopOf(w)] = w /\ at[TopOf(w)] = Root
  BY <1>1 DEF Placed
<1>3. "kernel" \in Owners /\ Present("kernel") /\ TopOf("kernel") = KTop
  BY DEF Present, TopOf, Owners
<1>4. ASSUME NEW g \in In, at[g] = Root PROVE Present(who[g]) /\ g = TopOf(who[g])
  <2>1. Present(who[g]) /\ who[g] \in Owners
    BY <1>1, InFrames DEF Placed
  <2>2. TopOf(who[g]) \in In /\ who[TopOf(who[g])] = who[g] /\ at[TopOf(who[g])] = Root
    BY <1>2, <2>1
  <2> QED BY <1>1, <1>4, <2>1, <2>2 DEF Placed
<1> QED BY <1>2, <1>3, <1>4

\* A frame below the entry i of g is what that entry holds, and it is not visited: there
\* is one entry for a place.
LEMMA OnlyChild ==
    ASSUME NEW who, NEW at, Shape(who, at), NEW f \in In, NEW g \in In, NEW i \in Indices,
           Child(who, at, g, i, f)
    PROVE  entry[g][i] = f /\ ~Visited(g, i)
<1>1. at \in [Frames -> Paths] /\ Parents(who, at)
  BY DEF Shape
<1>2. f \in Frames /\ g \in Frames /\ at[f] \in Paths /\ at[g] \in Paths
  BY <1>1, InFrames
<1>3. at[f] = Down(at[g], i) /\ who[f] = who[g]
  BY DEF Child
<1>4. at[f] # Root
  BY <1>2, <1>3, PathFacts
<1>5. PICK h \in In, j \in Indices : Child(who, at, h, j, f) /\ entry[h][j] = f /\ ~Visited(h, j)
  BY <1>1, <1>4 DEF Parents
<1>6. h \in Frames /\ at[h] \in Paths /\ Down(at[h], j) = Down(at[g], i) /\ who[h] = who[g]
  BY <1>1, <1>3, <1>5, InFrames DEF Child
<1>7. at[h] = at[g] /\ j = i
  BY <1>2, <1>6, DownInjective, SMT
<1>8. h = g
  BY <1>6, <1>7 DEF Shape, Placed
<1> QED BY <1>5, <1>7, <1>8

\* Only tables of the process that is deleted have visited entries.
LEMMA VisitedIsVictim ==
    ASSUME NEW who, NEW at, Shape(who, at), NEW f, NEW i, Visited(f, i)
    PROVE  f \in In /\ who[f] = victim /\ victim # NULL
<1>1. PICK k \in DOMAIN walk : walk[k].table = f
  BY DEF Visited
<1>2. Deleting(who, at)
  BY DEF Shape
<1>3. walk # <<>>
  <2>1. DOMAIN <<>> = {}
    BY SMT
  <2> QED BY <1>1, <2>1
<1> QED BY <1>1, <1>2, <1>3 DEF Deleting

\* A step that changes no table keeps the invariant if the walk it leaves is sound.
LEMMA SameTrees ==
    ASSUME NEW who, NEW at, Shape(who, at), In' = In,
           UNCHANGED <<entry, top, walk, victim, mapping>>, Walking(who, at)'
    PROVE  Shape(who, at)'
<1>1. Placed(who, at)'
  <2>1. Placed(who, at)
    BY DEF Shape
  <2>2. \A w : Present(w)' = Present(w) /\ TopOf(w)' = TopOf(w)
    BY DEF Present, TopOf
  <2> QED BY <2>1, <2>2 DEF Placed
<1>2. \A f, i : Visited(f, i)' = Visited(f, i)
  BY DEF Visited
<1>3. Children(who, at)'
  BY <1>2 DEF Shape, Children
<1>4. Parents(who, at)'
  BY <1>2 DEF Shape, Parents
<1>5. KernelShared'
  BY DEF Shape, KernelShared
<1>6. Mapped(who, at)'
  <2>1. Live' = Live
    BY DEF Live
  <2> QED BY <2>1, SMT DEF Shape, Mapped, MapsExactly
<1>7. Deleting(who, at)'
  BY DEF Shape, Deleting
<1> QED BY <1>1, <1>3, <1>4, <1>5, <1>6, <1>7 DEF Shape

\* The types of the fields of op.
LEMMA OpTypes ==
    ASSUME Types
    PROVE  /\ op.do \in {"off", "map", "get_phys", "unmap"} /\ op.who \in Owners \cup {NULL}
           /\ op.table \in Frames \cup {NULL} /\ op.depth \in 0..Levels
           /\ op.phys \in Frames \cup {NULL, Fb} /\ op.addr \in UserAddrs \cup KernelAddrs \cup {<<>>}
           /\ op # Off => op.do # "off"
BY DEF Types, Ops

\* Nobody walks the tables that are being deleted.
LEMMA WhoIsNotVictim ==
    ASSUME Types, NEW w \in Live \cup {"kernel"}
    PROVE  w \in Owners /\ Present(w) /\ w # victim
BY VmmAssumption DEF Types, Live, Owners, Present

\* Where the walk stands: a table in use that is not visited, at an entry that leads to the
\* next level of its address, and what it can find there.
LEMMA HereFacts ==
    ASSUME Types, NEW who, NEW at, Shape(who, at), op # Off
    PROVE  /\ Index \in Indices /\ Depth(at[op.table]) = op.depth - 1
           /\ op.table \in In /\ op.depth \in 1..Levels /\ op.who \in Owners
           /\ ~Shared(who, at, op.table, Index) /\ ~Visited(op.table, Index)
           /\ Down(at[op.table], Index) = Upto(op.addr, op.depth)
           /\ Upto(op.addr, op.depth) \in Paths
           /\ Here # NULL /\ op.depth < Levels => Here \in In /\ Child(who, at, op.table, Index, Here)
           /\ Here # Junk
<1>1. Walking(who, at) /\ Children(who, at) /\ at \in [Frames -> Paths]
  BY DEF Shape
<1>2. /\ op.who \in Live \cup {"kernel"} /\ op.addr \in Addrs(op.who) /\ op.depth \in 1..Levels
      /\ op.table \in In /\ who[op.table] = op.who /\ at[op.table] = Upto(op.addr, op.depth - 1)
  BY <1>1 DEF Walking
<1>3. op.who \in Owners /\ op.who # victim
  BY <1>2, WhoIsNotVictim
<1>4. /\ op.addr \in Paths /\ Depth(op.addr) = Levels /\ Levels \in Nat
      /\ \A n \in 1..Levels : op.addr[n] \in Indices
      /\ op.who = "kernel" <=> op.addr[1] >= Half
  BY <1>2, <1>3, AddrFacts
<1>5. Index \in Indices
  BY <1>2, <1>4 DEF Index
<1>6. op.depth - 1 \in 0..Depth(op.addr) /\ op.depth \in 0..Depth(op.addr) /\ op.depth > 0
  BY <1>2, <1>4, SMT
<1>7. Depth(at[op.table]) = op.depth - 1
  BY <1>2, <1>4, <1>6, UptoPath, SMT
<1>8. Down(at[op.table], Index) = Upto(op.addr, op.depth) /\ Upto(op.addr, op.depth) \in Paths
  BY <1>2, <1>4, <1>6, UptoPath, SMT DEF Index
<1>9. ~Visited(op.table, Index)
  BY <1>2, <1>3, VisitedIsVictim
<1>10. ~Shared(who, at, op.table, Index)
  <2> SUFFICES ASSUME at[op.table] = Root, op.who # "kernel", Index >= Half PROVE FALSE
    BY <1>2 DEF Shared
  <2>1. op.depth = 1
    BY <1>7, <1>2, PathFacts, SMT
  <2> QED BY <2>1, <1>4 DEF Index
<1>11. Here # NULL => \/ Here = Fb /\ op.depth - 1 = Levels - 1
                      \/ Here \in In /\ Child(who, at, op.table, Index, Here)
  <2>1. Depth(at[op.table]) < Levels
    BY <1>2, <1>4, <1>7, SMT
  <2> QED BY <1>1, <1>2, <1>5, <1>7, <1>9, <1>10, <2>1 DEF Children, Here
<1>12. Here # NULL /\ op.depth < Levels => Here \in In /\ Child(who, at, op.table, Index, Here)
  BY <1>2, <1>4, <1>11, SMT
<1>13. Here # Junk
  BY <1>11, InFrames, VmmAssumption
<1> QED BY <1>2, <1>3, <1>5, <1>7, <1>8, <1>9, <1>10, <1>12, <1>13

-----------------------------------------------------------------------------
\* The steps of a walk that change no table.

\* Running out of memory keeps the invariant: it sets failed, which stops the kernel.
LEMMA OutOfMemoryStep ==
    ASSUME Types, NEW who, NEW at, Shape(who, at), failed' = TRUE,
           UNCHANGED <<available, entry, top, op, walk, victim, mapping>>
    PROVE  Types' /\ Shape(who, at)'
<1>1. Types'
  BY DEF Types
<1>2. In' = In
  BY DEF In, Held
<1>3. Walking(who, at)'
  <2>1. Live' = Live
    BY DEF Live
  <2> QED BY <1>2, <2>1 DEF Shape, Walking
<1> QED BY <1>1, <1>2, <1>3, SameTrees

\* Descend keeps the invariant: the entry holds the table of the next level.
LEMMA DescendStep ==
    ASSUME Types, NEW who, NEW at, Shape(who, at), Descend
    PROVE  Types' /\ Shape(who, at)'
<1> USE DEF Descend, Inner
<1>1. Walking(who, at) /\ op.depth \in 1..Levels /\ Levels \in Nat
  BY HereFacts, VmmAssumption DEF Shape
<1>2. Here \in In /\ Child(who, at, op.table, Index, Here)
  BY HereFacts
<1>3. op' = [op EXCEPT !.table = Here, !.depth = op.depth + 1] /\ op \in Ops
  BY DEF Types
<1>4. /\ op'.do = op.do /\ op'.who = op.who /\ op'.addr = op.addr /\ op'.phys = op.phys
      /\ op'.table = Here /\ op'.depth = op.depth + 1
  BY <1>3 DEF Ops
<1>5. op' \in Ops
  <2>1. Here \in Frames \cup {NULL} /\ op.depth + 1 \in 0..Levels
    BY <1>1, <1>2, InFrames, SMT
  <2> QED BY <1>3, <2>1 DEF Ops
<1>6. op'.do # "off" /\ op' # Off
  BY <1>4, OpTypes DEF Off
<1>7. Types'
  BY <1>5, <1>6 DEF Types
<1>8. In' = In
  BY <1>4 DEF In, Held
<1>9. Walking(who, at)'
  <2>1. Live' = Live
    BY DEF Live
  <2>2. who[Here] = op.who /\ at[Here] = Upto(op.addr, op.depth)
    BY <1>1, <1>2, HereFacts DEF Child, Walking
  <2>3. op.depth + 1 \in 1..Levels /\ (op.depth + 1) - 1 = op.depth
    BY <1>1, SMT
  <2> QED BY <1>1, <1>2, <1>4, <1>8, <2>1, <2>2, <2>3, SMT DEF Walking
<1> QED BY <1>7, <1>8, <1>9, SameTrees

\* GetEntry keeps the invariant: vmm_get_phys answers with the page mapped there.
LEMMA GetEntryStep ==
    ASSUME Types, NEW who, NEW at, Shape(who, at), GetEntry
    PROVE  Types' /\ Shape(who, at)'
<1> USE DEF GetEntry, Leaf
<1>1. Walking(who, at) /\ op.depth \in 1..Levels /\ Levels \in Nat /\ Levels > 1
  BY HereFacts, VmmAssumption, SMT DEF Shape
<1>2. op.who = "kernel" /\ op.addr \in Addrs("kernel") /\ mapping["kernel"][op.addr] # NULL
  BY <1>1 DEF Walking
<1>3. Here = mapping["kernel"][op.addr]
  <2>1. op.table \in In /\ who[op.table] = "kernel"
    BY <1>1, <1>2 DEF Walking
  <2>2. Down(at[op.table], op.addr[Levels]) = op.addr
    <3>1. op.addr \in Paths /\ Depth(op.addr) = Levels
      BY <1>2, AddrFacts DEF Owners
    <3>2. Upto(op.addr, op.depth) = op.addr
      BY <3>1, <1>1, UptoPath, SMT
    <3> QED BY <3>2, HereFacts DEF Index
  <2>3. Mapped(who, at)
    BY DEF Shape
  <2> QED BY <1>2, <2>1, <2>2, <2>3, SMT DEF Mapped, MapsExactly, Maps, Here, Index
<1>4. KTop \in In /\ who[KTop] = "kernel" /\ at[KTop] = Root
  BY TopFacts
<1>5. op' = [do |-> "unmap", who |-> "kernel", addr |-> op.addr, table |-> KTop, depth |-> 1,
             phys |-> Here]
  BY <1>2 DEF Begin, TopOf
<1>6. Here \in Frames \cup {NULL, Fb}
  BY <1>2, <1>3 DEF Types, Owners
<1>7. op' \in Ops /\ op' # Off /\ op'.do # "off"
  BY <1>1, <1>2, <1>4, <1>5, <1>6, InFrames, OpTypes, SMT DEF Ops, Off, Owners
<1>8. Types'
  BY <1>7 DEF Types
<1>9. In' = In
  BY <1>5 DEF In, Held
<1>10. Walking(who, at)'
  <2>1. Live' = Live
    BY DEF Live
  <2>2. Upto(op.addr, 0) = Root
    BY <1>2, AddrFacts, UptoPath, SMT DEF Owners
  <2> QED BY <1>1, <1>2, <1>3, <1>4, <1>5, <1>9, <2>1, <2>2, SMT DEF Walking
<1> QED BY <1>8, <1>9, <1>10, SameTrees

\* allocate_page gives an available page.
LEMMA PickAvailable ==
    ASSUME available # {}
    PROVE  Pick \in available
BY DEF Pick

\* Between two walks nothing is held outside the tables.
LEMMA IdleHolds ==
    ASSUME op = Off
    PROVE  Held = {} /\ In = Frames \ available
BY DEF Off, Held, In

\* A walk begins at the top of a pagemap.
LEMMA BeginStep ==
    ASSUME Types, NEW who, NEW at, Shape(who, at), op = Off,
           NEW w \in Live \cup {"kernel"}, NEW a \in Addrs(w), NEW do \in {"map", "get_phys"},
           NEW phys \in Frames \cup {NULL, Fb}, Begin(do, w, a, phys), In' = In,
           UNCHANGED <<failed, entry, top, walk, victim, mapping>>, available' \subseteq Frames,
           do = "map" => /\ mapping[w][a] = NULL /\ phys \in (Frames \ available') \cup {Fb}
                         /\ phys = Fb => w # "kernel",
           do # "map" => w = "kernel" /\ mapping[w][a] # NULL
    PROVE  Types' /\ Shape(who, at)'
<1>1. w \in Owners /\ Present(w)
  BY WhoIsNotVictim
<1>2. TopOf(w) \in In /\ who[TopOf(w)] = w /\ at[TopOf(w)] = Root
  BY <1>1 DEF Shape, Placed
<1>3. op' = [do |-> do, who |-> w, addr |-> a, table |-> TopOf(w), depth |-> 1, phys |-> phys]
  BY DEF Begin
<1>4. /\ op'.do = do /\ op'.who = w /\ op'.addr = a /\ op'.table = TopOf(w) /\ op'.depth = 1
      /\ op'.phys = phys
  BY <1>3
<1>5. Levels \in Nat /\ Levels > 1 /\ Upto(a, 0) = Root
  BY <1>1, AddrFacts, UptoPath, SMT
<1>6. op' \in Ops /\ op'.do # "off" /\ op' # Off
  <2>1. TopOf(w) \in Frames \cup {NULL} /\ 1 \in 0..Levels
    BY <1>2, <1>5, InFrames, SMT
  <2>2. a \in UserAddrs \cup KernelAddrs \cup {<<>>} /\ w \in Owners \cup {NULL}
    BY <1>1 DEF Addrs
  <2>3. op' \in Ops
    BY <1>3, <2>1, <2>2 DEF Ops
  <2>4. op'.do # "off"
    BY <1>4
  <2> QED BY <2>3, <2>4, SMT DEF Off
<1>7. Types'
  BY <1>6 DEF Types
<1>8. Walking(who, at)'
  <2>1. Live' = Live
    BY DEF Live
  <2> QED BY <1>2, <1>4, <1>5, <2>1, SMT DEF Walking
<1> QED BY <1>7, <1>8, SameTrees

\* UnmapPage keeps the invariant.
LEMMA UnmapPageStep ==
    ASSUME Types, NEW who, NEW at, Shape(who, at), NEW a \in KernelAddrs, UnmapPage(a)
    PROVE  Types' /\ Shape(who, at)'
<1> USE DEF UnmapPage
<1>1. In = Frames \ available /\ In' = (Frames \ available')
  BY IdleHolds DEF Begin, In, Held
<1> QED
  BY <1>1, BeginStep DEF Types, Addrs

\* MapPage keeps the invariant: the page it takes is in no table.
LEMMA MapPageStep ==
    ASSUME Types, NEW who, NEW at, Shape(who, at), NEW w \in Live \cup {"kernel"},
           NEW a \in Addrs(w), MapPage(w, a)
    PROVE  Types' /\ Shape(who, at)'
<1> USE DEF MapPage
<1>1. CASE a = FbAddr
  <2>1. Begin("map", w, a, Fb) /\ UNCHANGED <<available, failed>>
    BY <1>1
  <2>2. In' = In
    BY <2>1, IdleHolds, VmmAssumption DEF Begin, In, Held
  <2>3. w # "kernel"
    BY <1>1, VmmAssumption DEF Addrs
  <2> QED BY <2>1, <2>2, <2>3, BeginStep DEF Types
<1>2. CASE a # FbAddr /\ available = {}
  BY <1>2, OutOfMemoryStep DEF PA!Fail
<1>3. CASE a # FbAddr /\ available # {}
  <2>1. Begin("map", w, a, Pick) /\ Pick \in available /\ available' = available \ {Pick} /\ failed' = failed
    BY <1>3 DEF PA!Lend
  <2>2. Pick \in Frames /\ available' \subseteq Frames
    BY <2>1 DEF Types
  <2>3. In' = In
    BY <2>1, <2>2, IdleHolds DEF Begin, In, Held
  <2>4. Pick \in (Frames \ available') \cup {Fb}
    BY <2>1, <2>2
  <2>5. Pick # Fb
    BY <2>2, VmmAssumption
  <2> QED BY <2>1, <2>2, <2>3, <2>4, <2>5, BeginStep
<1> QED BY <1>1, <1>2, <1>3

-----------------------------------------------------------------------------
\* The steps that add a frame to a tree.

\* The frame n is entered where op's walk has arrived.
Adding(n) ==
    /\ op # Off /\ Here = NULL /\ n \in Frames /\ n \notin In /\ In' = In \cup {n}
    /\ UNCHANGED <<top, walk, victim>>
    /\ \A f \in In, i \in Indices :
         entry'[f][i] = IF f = op.table /\ i = Index THEN n ELSE entry[f][i]
    /\ op.depth < Levels => \A i \in Indices : entry'[n][i] = NULL

\* The functions, with the place of n added.
PlacedAt(n, who, at, who2, at2) ==
    who2 = [who EXCEPT ![n] = op.who] /\ at2 = [at EXCEPT ![n] = Upto(op.addr, op.depth)]

\* A frame entered where the walk has arrived keeps the forest a forest: nothing was in
\* that place.
LEMMA AddFrame ==
    ASSUME Types, NEW who \in [Frames -> Owners], NEW at \in [Frames -> Paths], Shape(who, at),
           NEW n, Adding(n), NEW who2, NEW at2, PlacedAt(n, who, at, who2, at2)
    PROVE  /\ who2 \in [Frames -> Owners] /\ at2 \in [Frames -> Paths]
           /\ Placed(who2, at2)' /\ Children(who2, at2)' /\ Parents(who2, at2)' /\ KernelShared'
           /\ Deleting(who2, at2)'
           /\ \A f \in In : ~(who[f] = op.who /\ at[f] = Upto(op.addr, op.depth))
<1> USE DEF Adding, PlacedAt
<1>0. PICK t, j, x : t = op.table /\ j = Index /\ x = Upto(op.addr, op.depth)
  OBVIOUS
<1>1. Walking(who, at) /\ Placed(who, at) /\ Children(who, at) /\ Parents(who, at) /\ KernelShared /\ Deleting(who, at)
  BY DEF Shape
<1>2. /\ op.who \in Owners /\ op.who \in Live \cup {"kernel"} /\ op.who # victim /\ Present(op.who)
      /\ op.addr \in Addrs(op.who)
  BY <1>1, WhoIsNotVictim DEF Walking
<1>3. /\ j \in Indices /\ Depth(at[t]) = op.depth - 1 /\ t \in In /\ op.depth \in 1..Levels
      /\ ~Shared(who, at, t, j) /\ ~Visited(t, j) /\ Down(at[t], j) = x /\ x \in Paths
      /\ who[t] = op.who
  BY <1>1, HereFacts, <1>0 DEF Walking
<1>4. op.addr \in Paths /\ Depth(op.addr) = Levels /\ Levels \in Nat /\ Levels > 1 /\ Depth(x) = op.depth
  BY <1>0, <1>2, <1>3, AddrFacts, UptoPath, SMT
<1>5. who2 \in [Frames -> Owners] /\ at2 \in [Frames -> Paths]
  BY <1>0, <1>2, <1>3
<1>6. /\ who2[n] = op.who /\ at2[n] = x
      /\ \A f \in In : f \in Frames /\ f # n /\ who2[f] = who[f] /\ at2[f] = at[f] /\ at[f] \in Paths
  BY <1>0, InFrames
<1>7. ASSUME NEW f \in In, who[f] = op.who, at[f] = x PROVE FALSE
  <2>1. Child(who, at, t, j, f)
    BY <1>3, <1>7 DEF Child
  <2>2. entry[t][j] = f
    BY <1>3, <2>1, OnlyChild, SMT
  <2> QED BY <2>2, <1>6, VmmAssumption, <1>0 DEF Here
<1>8. \A w : Present(w)' = Present(w) /\ TopOf(w)' = TopOf(w)
  BY DEF Present, TopOf
<1>9. \A f, i : Visited(f, i)' = Visited(f, i)
  BY DEF Visited
<1>10. Placed(who2, at2)'
  <2>1. \A f \in In' : Present(who2[f])' /\ Depth(at2[f]) <= Levels /\ Known(who2[f], at2[f])
    <3>1. ASSUME NEW f \in In PROVE Present(who2[f])' /\ Depth(at2[f]) <= Levels /\ Known(who2[f], at2[f])
      BY <1>1, <1>6, <1>8 DEF Placed
    <3>2. Present(who2[n])' /\ Depth(at2[n]) <= Levels
      BY <1>2, <1>3, <1>4, <1>6, <1>8, SMT
    <3>3. Known(who2[n], at2[n])
      BY <1>2, <1>4, <1>6, <1>0 DEF Known
    <3> QED BY <3>1, <3>2, <3>3
  <2>2. \A f, g \in In' : who2[f] = who2[g] /\ at2[f] = at2[g] => f = g
    BY <1>1, <1>6, <1>7, SMT DEF Placed
  <2>3. \A w \in Owners : Present(w)' => TopOf(w)' \in In' /\ who2[TopOf(w)'] = w /\ at2[TopOf(w)'] = Root
    BY <1>1, <1>6, <1>8 DEF Placed
  <2> QED BY <2>1, <2>2, <2>3 DEF Placed, Known, Addrs
<1>11. Children(who2, at2)'
  <2> SUFFICES ASSUME NEW f \in In', NEW i \in Indices, Depth(at2[f]) < Levels,
                      ~Shared(who2, at2, f, i), ~Visited(f, i)', entry'[f][i] # NULL
               PROVE  \/ entry'[f][i] = Fb /\ Depth(at2[f]) = Levels - 1
                      \/ entry'[f][i] \in In' /\ Child(who2, at2, f, i, entry'[f][i])
    BY SMT DEF Children, Shared, Child
  <2>1. CASE f = n
    BY <2>1, <1>3, <1>4, <1>6
  <2>2. CASE f = t /\ i = j
    <3>1. entry'[f][i] = n
      BY <1>3, <2>2, <1>0
    <3> QED BY <3>1, <2>2, <1>3, <1>6 DEF Child
  <2>3. CASE f \in In /\ ~(f = t /\ i = j)
    <3>1. entry'[f][i] = entry[f][i]
      BY <2>3, <1>0
    <3>2. \/ entry[f][i] = Fb /\ Depth(at[f]) = Levels - 1
          \/ entry[f][i] \in In /\ Child(who, at, f, i, entry[f][i])
      BY <1>1, <1>6, <1>9, <2>3, <3>1 DEF Children, Shared
    <3> QED BY <3>1, <3>2, <1>6, <2>3 DEF Child
  <2> QED BY <2>1, <2>2, <2>3
<1>12. Parents(who2, at2)'
  <2> SUFFICES ASSUME NEW f \in In', at2[f] # Root
               PROVE  \E g \in In', i \in Indices :
                        Child(who2, at2, g, i, f) /\ entry'[g][i] = f /\ ~Visited(g, i)'
    BY DEF Parents, Child
  <2>1. CASE f = n
    <3>1. Child(who2, at2, t, j, f) /\ entry'[t][j] = f /\ ~Visited(t, j)'
      BY <1>3, <1>6, <1>9, <2>1, <1>0 DEF Child
    <3> QED BY <3>1, <1>3
  <2>2. CASE f \in In
    <3>1. PICK g \in In, i \in Indices : Child(who, at, g, i, f) /\ entry[g][i] = f /\ ~Visited(g, i)
      BY <1>1, <1>6, <2>2 DEF Parents
    <3>2. ~(g = t /\ i = j)
      BY <3>1, <2>2, <1>6, VmmAssumption, <1>0 DEF Here
    <3>3. entry'[g][i] = f /\ Child(who2, at2, g, i, f)
      BY <3>1, <3>2, <1>6, <2>2, <1>0 DEF Child
    <3> QED BY <3>1, <3>3, <1>9
  <2> QED BY <2>1, <2>2
<1>13. KernelShared'
  <2>1. KTop \in In /\ who[KTop] = "kernel" /\ at[KTop] = Root
    BY <1>1 DEF Placed, Present, TopOf, Owners
  <2>2. t # KTop
    <3> SUFFICES ASSUME t = KTop PROVE FALSE
      OBVIOUS
    <3>1. op.depth = 1 /\ op.who = "kernel"
      BY <2>1, <1>3, PathFacts, SMT
    <3>2. j >= Half
      BY <1>0, <3>1, <1>2, AddrFacts DEF Index
    <3>3. Here # NULL
      BY <3>2, <1>1, <1>3, VmmAssumption, <1>0, SMT DEF KernelShared, Here, Indices
    <3> QED BY <3>3
  <2>3. \A i \in Indices : entry'[KTop][i] = entry[KTop][i]
    BY <2>1, <2>2, <1>0
  <2>4. ASSUME NEW p \in Procs, top[p] # NULL, NEW i \in KernelHalf PROVE entry'[top[p]][i] = entry[top[p]][i]
    <3>1. top[p] \in In /\ who[top[p]] = p /\ at[top[p]] = Root /\ p # "kernel"
      BY <1>1, <2>4, VmmAssumption DEF Placed, Present, TopOf, Owners
    <3>2. i \in Indices /\ i >= Half
      BY <2>4, VmmAssumption, SMT DEF KernelHalf, Indices
    <3>3. ~(top[p] = t /\ i = j)
      BY <3>1, <3>2, <1>3 DEF Shared
    <3> QED BY <3>1, <3>2, <3>3, <1>0
  <2>5. KernelHalf \subseteq Indices
    BY VmmAssumption, SMT DEF KernelHalf, Indices
  <2> QED BY <1>1, <2>3, <2>4, <2>5, SMT DEF KernelShared
<1>14. Deleting(who2, at2)'
  <2>1. ASSUME NEW k \in DOMAIN walk
        PROVE  /\ walk[k].table \in In' /\ who2[walk[k].table] = victim
               /\ Depth(at2[walk[k].table]) = k - 1
               /\ \A i \in Indices : entry'[walk[k].table][i] = entry[walk[k].table][i]
    <3>1. walk[k].table \in In /\ who[walk[k].table] = victim /\ Depth(at[walk[k].table]) = k - 1
      BY <1>1 DEF Deleting
    <3>2. walk[k].table # t
      BY <3>1, <1>2, <1>3
    <3> QED BY <3>1, <3>2, <1>6, <1>0
  <2> QED BY <1>1, <2>1, SMT DEF Deleting
<1> QED BY <1>5, <1>7, <1>10, <1>11, <1>12, <1>13, <1>14, <1>0

\* The conjuncts of Mapped, put together in the next state.
LEMMA MappedNext ==
    ASSUME NEW who, NEW at, \A w \in Live' \cup {"kernel"} : \A a \in Addrs(w) : MapsExactly(who, at, w, a)',
           \A p \in Procs \ Live' : \A a \in UserAddrs : mapping'[p][a] = NULL,
           \A a \in KernelAddrs : mapping'["kernel"][a] # Fb
    PROVE  Mapped(who, at)'
BY DEF Mapped, Addrs

\* AddTable keeps the invariant: the new table is empty and in the place of the level.
LEMMA AddTableStep ==
    ASSUME Types, NEW who \in [Frames -> Owners], NEW at \in [Frames -> Paths], Shape(who, at), AddTable
    PROVE  Types' /\ \E who2 \in [Frames -> Owners], at2 \in [Frames -> Paths] : Shape(who2, at2)'
<1>0. op # Off /\ op.depth < Levels /\ Here = NULL /\ op.do = "map"
  BY DEF AddTable, Inner
<1>1. CASE available = {}
  BY <1>1, OutOfMemoryStep DEF AddTable, OutOfMemory, PA!Fail
<1>2. CASE available # {}
  <2>0. PICK n, t, j, x : n = Pick /\ t = op.table /\ j = Index /\ x = Upto(op.addr, op.depth)
    OBVIOUS
  <2>1. /\ n \in available /\ available' = available \ {n} /\ UNCHANGED <<failed, top, walk, victim, mapping>>
        /\ entry' = [entry EXCEPT ![n] = Empty, ![t][j] = n]
        /\ op' = [op EXCEPT !.table = n, !.depth = op.depth + 1]
    BY <1>2, <2>0 DEF AddTable, PA!Lend
  <2>2. /\ Walking(who, at) /\ op.depth \in 1..Levels /\ Levels \in Nat /\ Levels > 1 /\ op.depth < Levels
        /\ t \in In /\ j \in Indices /\ Depth(at[t]) = op.depth - 1 /\ Down(at[t], j) = x /\ x \in Paths
    BY <1>0, <2>0, HereFacts, VmmAssumption, SMT DEF Shape
  <2>3. n \in Frames /\ n \notin In /\ t \in Frames /\ t # n
    BY <2>1, <2>2 DEF Types, In
  <2>4. /\ op'.do = op.do /\ op'.who = op.who /\ op'.addr = op.addr /\ op'.phys = op.phys
        /\ op'.table = n /\ op'.depth = op.depth + 1 /\ op' \in Ops
    <3>1. op \in Ops /\ op.depth + 1 \in 0..Levels /\ n \in Frames \cup {NULL}
      BY <2>2, <2>3, SMT DEF Types
    <3> QED BY <2>1, <3>1 DEF Ops
  <2>5. op' # Off /\ op'.do # "off"
    BY <1>0, <2>4, SMT DEF Off
  <2>6. /\ entry' \in [Frames -> [Indices -> Frames \cup {NULL, Junk, Fb}]]
        /\ \A i \in Indices : entry'[n][i] = NULL
        /\ \A f \in Frames \ {n}, i \in Indices :
             entry'[f][i] = IF f = t /\ i = j THEN n ELSE entry[f][i]
    <3>1. entry \in [Frames -> [Indices -> Frames \cup {NULL, Junk, Fb}]]
      BY DEF Types
    <3>2. Empty \in [Indices -> Frames \cup {NULL, Junk, Fb}] /\ \A i \in Indices : Empty[i] = NULL
      BY DEF Empty
    <3>3. PICK e : e = [entry EXCEPT ![n] = Empty]
      OBVIOUS
    <3>4. /\ e \in [Frames -> [Indices -> Frames \cup {NULL, Junk, Fb}]]
          /\ e[n] = Empty /\ \A f \in Frames \ {n} : e[f] = entry[f]
      BY <2>3, <3>1, <3>2, <3>3
    <3>5. entry' = [e EXCEPT ![t] = [e[t] EXCEPT ![j] = n]]
      BY <2>1, <3>3
    <3> QED BY <3>2, <3>4, <3>5, <2>2, <2>3
  <2>7. Types'
    BY <2>1, <2>4, <2>5, <2>6 DEF Types
  <2>8. In' = In \cup {n}
    <3>1. n \notin Held
      BY <1>0, <2>1, <2>2, <2>3, VmmAssumption DEF Walking, Held
    <3>2. Held' = Held
      BY <2>4 DEF Held
    <3> QED BY <2>1, <2>3, <3>1, <3>2 DEF In
  <2>9. PICK who2, at2 : who2 = [who EXCEPT ![n] = op.who] /\ at2 = [at EXCEPT ![n] = x]
    OBVIOUS
  <2>10. /\ who2 \in [Frames -> Owners] /\ at2 \in [Frames -> Paths]
         /\ Placed(who2, at2)' /\ Children(who2, at2)' /\ Parents(who2, at2)' /\ KernelShared'
         /\ Deleting(who2, at2)'
         /\ \A f \in In : ~(who[f] = op.who /\ at[f] = x)
    <3>1. \A f \in In, i \in Indices : entry'[f][i] = IF f = op.table /\ i = Index THEN n ELSE entry[f][i]
      BY <2>0, <2>3, <2>6, InFrames
    <3>2. at2 = [at EXCEPT ![n] = Upto(op.addr, op.depth)] /\ UNCHANGED <<top, walk, victim>>
      BY <2>0, <2>1, <2>9
    <3>3. op.depth < Levels => \A i \in Indices : entry'[n][i] = NULL
      BY <2>6
    <3>4. Adding(n) /\ PlacedAt(n, who, at, who2, at2)
      BY <1>0, <2>3, <2>8, <2>9, <3>1, <3>2, <3>3 DEF Adding, PlacedAt
    <3> QED BY <2>0, <3>4, AddFrame
  <2>11. /\ who2[n] = op.who /\ at2[n] = x
         /\ \A f \in In : f \in Frames /\ f # n /\ who2[f] = who[f] /\ at2[f] = at[f] /\ at[f] \in Paths
    BY <2>3, <2>9, InFrames
  <2>12. Live' = Live
    BY <2>1 DEF Live
  <2>13. Walking(who2, at2)'
    <3>1. op.depth + 1 \in 1..Levels /\ (op.depth + 1) - 1 = op.depth
      BY <2>2, SMT
    <3>2. op'.phys \in (Frames \ available') \cup {Fb}
      BY <1>0, <2>1, <2>2, <2>4, SMT DEF Walking
    <3> QED BY <1>0, <2>0, <2>1, <2>2, <2>4, <2>8, <2>11, <2>12, <3>1, <3>2, SMT DEF Walking
  <2>14. Mapped(who2, at2)'
    <3>1. Mapped(who, at)
      BY DEF Shape
    <3>2. ASSUME NEW w \in Live \cup {"kernel"}, NEW a \in Addrs(w)
          PROVE  MapsExactly(who2, at2, w, a)'
      <4>1. w \in Owners
        BY WhoIsNotVictim
      <4>2. a \in Paths /\ Depth(a) = Levels /\ a[Levels] \in Indices
        BY <4>1, AddrFacts, SMT
      <4>3. ASSUME mapping[w][a] # NULL
            PROVE  \E g \in In : Maps(who, at, w, a, g) /\ Maps(who2, at2, w, a, g)
        BY <3>1, <4>3, <2>11, SMT DEF Mapped, MapsExactly, Maps
      <4>4. ASSUME NEW g \in In, Maps(who2, at2, w, a, g)
            PROVE  entry'[g][a[Levels]] = mapping[w][a]
        <5>1. Maps(who, at, w, a, g) /\ Depth(at[g]) = Levels - 1
          BY <4>2, <4>4, <2>2, <2>11, PathFacts, SMT DEF Maps
        <5>2. g # t
          BY <5>1, <2>2, SMT
        <5> QED BY <5>1, <5>2, <2>6, <2>11, <3>1, <4>2, SMT DEF Mapped, MapsExactly
      <4>5. ASSUME Maps(who2, at2, w, a, n)
            PROVE  entry'[n][a[Levels]] = mapping[w][a]
        <5>1. w = op.who /\ Down(x, a[Levels]) = a
          BY <4>5, <2>11 DEF Maps
        <5>2. ASSUME NEW g \in In, Maps(who, at, w, a, g) PROVE FALSE
          <6>1. who[g] = op.who /\ Down(at[g], a[Levels]) = Down(x, a[Levels])
            BY <5>1, <5>2 DEF Maps
          <6>2. at[g] = x
            BY <6>1, <4>2, <2>2, <2>11, DownInjective, SMT
          <6> QED BY <6>1, <6>2, <2>10
        <5>3. mapping[w][a] = NULL
          BY <5>2, <4>3
        <5> QED BY <5>3, <2>6, <4>2
      <4> QED BY <2>1, <2>8, <4>3, <4>4, <4>5 DEF MapsExactly, Maps
    <3>3. /\ \A p \in Procs \ Live' : \A a \in UserAddrs : mapping'[p][a] = NULL
          /\ \A a \in KernelAddrs : mapping'["kernel"][a] # Fb
      BY <2>1, <2>12, <3>1 DEF Mapped
    <3>4. \A w \in Live' \cup {"kernel"} : \A a \in Addrs(w) : MapsExactly(who2, at2, w, a)'
      BY <2>12, <3>2
    <3> QED BY <3>3, <3>4, MappedNext
  <2> QED BY <2>7, <2>10, <2>13, <2>14 DEF Shape
<1> QED BY <1>1, <1>2

\* At the last level the walk stands at the entry of its address.
LEMMA LeafFacts ==
    ASSUME Types, NEW who, NEW at, Shape(who, at), op # Off, op.depth = Levels
    PROVE  Index = op.addr[Levels] /\ Upto(op.addr, op.depth) = op.addr /\ Maps(who, at, op.who, op.addr, op.table)
           /\ Here = mapping[op.who][op.addr] /\ op.addr \in Paths /\ Depth(op.addr) = Levels
<1>1. Walking(who, at) /\ Mapped(who, at)
  BY DEF Shape
<1>2. op.who \in Live \cup {"kernel"} /\ op.addr \in Addrs(op.who) /\ op.table \in In /\ who[op.table] = op.who
  BY <1>1 DEF Walking
<1>3. op.addr \in Paths /\ Depth(op.addr) = Levels /\ Levels \in Nat
  BY <1>2, AddrFacts, WhoIsNotVictim
<1>4. Upto(op.addr, op.depth) = op.addr
  BY <1>3, UptoPath, SMT
<1>5. Maps(who, at, op.who, op.addr, op.table)
  BY <1>2, <1>4, HereFacts DEF Maps, Index
<1>6. Here = mapping[op.who][op.addr]
  BY <1>1, <1>2, <1>5 DEF Mapped, MapsExactly, Here, Index
<1> QED BY <1>3, <1>4, <1>5, <1>6 DEF Index

\* SetEntry keeps the invariant: the page of vmm_map_page enters the tables, or the
\* framebuffer's, which is no frame.
LEMMA SetEntryStep ==
    ASSUME Types, NEW who \in [Frames -> Owners], NEW at \in [Frames -> Paths], Shape(who, at), SetEntry
    PROVE  Types' /\ \E who2 \in [Frames -> Owners], at2 \in [Frames -> Paths] : Shape(who2, at2)'
<1>0. op # Off /\ op.depth = Levels /\ op.do = "map" /\ op' = Off /\ UNCHANGED <<available, failed, top, walk, victim>>
  BY DEF SetEntry, Leaf
<1>1. PICK n, t, j, u, b : n = op.phys /\ t = op.table /\ j = Index /\ u = op.who /\ b = op.addr
  OBVIOUS
<1>2. /\ entry' = [entry EXCEPT ![t][j] = n]
      /\ mapping' = [mapping EXCEPT ![u][b] = n]
  BY <1>1 DEF SetEntry
<1>3. /\ u \in Live \cup {"kernel"} /\ u \in Owners /\ u # victim /\ b \in Addrs(u)
      /\ n \in (Frames \ available) \cup {Fb} /\ (n = Fb => u # "kernel") /\ who[t] = u
      /\ mapping[u][b] = NULL
  BY <1>0, <1>1, WhoIsNotVictim DEF Shape, Walking
<1>4. /\ t \in In /\ j \in Indices /\ Depth(at[t]) = Levels - 1 /\ Levels \in Nat /\ Levels > 1
      /\ ~Visited(t, j) /\ b \in Paths /\ Depth(b) = Levels
  BY <1>0, <1>1, HereFacts, LeafFacts, VmmAssumption, SMT
<1>5. /\ j = b[Levels] /\ Upto(op.addr, op.depth) = b /\ Maps(who, at, u, b, t) /\ Down(at[t], j) = b
      /\ entry[t][j] = NULL
  BY <1>0, <1>1, <1>3, LeafFacts DEF Maps, Here
<1>6. /\ entry' \in [Frames -> [Indices -> Frames \cup {NULL, Junk, Fb}]]
      /\ \A f \in Frames, i \in Indices : entry'[f][i] = IF f = t /\ i = j THEN n ELSE entry[f][i]
  <2>1. t \in Frames /\ entry \in [Frames -> [Indices -> Frames \cup {NULL, Junk, Fb}]]
    BY <1>4, InFrames DEF Types
  <2> QED BY <1>2, <1>3, <1>4, <2>1
<1>7. /\ mapping' = [w \in Owners |-> mapping'[w]]
      /\ \A w \in Owners : mapping'[w] \in [Addrs(w) -> Frames \cup {NULL, Fb}]
      /\ \A w \in Owners : \A a \in Addrs(w) : mapping'[w][a] = IF w = u /\ a = b THEN n ELSE mapping[w][a]
  <2>1. /\ mapping = [w \in Owners |-> mapping[w]]
        /\ \A w \in Owners : mapping[w] \in [Addrs(w) -> Frames \cup {NULL, Fb}]
    BY DEF Types
  <2>2. mapping' = [w \in Owners |-> IF w = u THEN [mapping[u] EXCEPT ![b] = n] ELSE mapping[w]]
    BY <1>2, <1>3, <2>1
  <2> QED BY <1>3, <2>1, <2>2
<1>8. Types'
  <2>1. Off \in Ops /\ Off.do = "off"
    BY VmmAssumption, SMT DEF Off, Ops
  <2> QED BY <1>0, <1>6, <1>7, <2>1 DEF Types, Addrs
<1>9. Live' = Live
  BY <1>0 DEF Live
<1>10. ASSUME NEW who2, NEW at2, In \subseteq In', \A g \in In : who2[g] = who[g] /\ at2[g] = at[g],
              \A g \in In' \ In : at2[g] = b
       PROVE  Mapped(who2, at2)' /\ Walking(who2, at2)'
  <2>1. Mapped(who, at)
    BY DEF Shape
  <2>2. ASSUME NEW w \in Live \cup {"kernel"}, NEW a \in Addrs(w)
        PROVE  MapsExactly(who2, at2, w, a)'
    <3>1. w \in Owners
      BY WhoIsNotVictim
    <3>2. a \in Paths /\ Depth(a) = Levels /\ a[Levels] \in Indices
      BY <3>1, AddrFacts, SMT
    <3>3. MapsExactly(who, at, w, a)
      BY <2>1 DEF Mapped
    <3>4. mapping'[w][a] = IF w = u /\ a = b THEN n ELSE mapping[w][a]
      BY <1>7, <3>1
    <3>5. ASSUME NEW g \in In', Maps(who2, at2, w, a, g)
          PROVE  entry'[g][a[Levels]] = mapping'[w][a]
      <4>1. g \in In
        <5> SUFFICES ASSUME g \notin In PROVE FALSE
          OBVIOUS
        <5>1. Down(b, a[Levels]) = a
          BY <1>10, <3>5 DEF Maps
        <5> QED BY <5>1, <3>2, <1>4, PathFacts, SMT
      <4>2. Maps(who, at, w, a, g) /\ who[g] = w /\ Down(at[g], a[Levels]) = a /\ g \in Frames /\ at[g] \in Paths /\ at[t] \in Paths
        BY <4>1, <1>4, <1>10, <3>5, InFrames DEF Maps
      <4>3. CASE w = u /\ a = b
        <5>1. at[g] = at[t]
          BY <1>4, <1>5, <4>2, <4>3, DownInjective, SMT
        <5>2. g = t
          BY <5>1, <4>1, <4>2, <4>3, <1>3, <1>4 DEF Shape, Placed
        <5> QED BY <5>2, <4>3, <3>4, <1>4, <1>5, <1>6, InFrames
      <4>4. CASE ~(w = u /\ a = b)
        <5>1. ~(g = t /\ a[Levels] = j)
          BY <4>2, <4>4, <1>3, <1>5
        <5>2. entry'[g][a[Levels]] = entry[g][a[Levels]]
          BY <5>1, <1>6, <3>2, <4>2
        <5> QED BY <5>2, <4>1, <4>2, <4>4, <3>3, <3>4 DEF MapsExactly
      <4> QED BY <4>3, <4>4
    <3>6. ASSUME mapping'[w][a] # NULL PROVE \E g \in In' : Maps(who2, at2, w, a, g)
      <4>1. CASE w = u /\ a = b
        BY <4>1, <1>4, <1>5, <1>10 DEF Maps
      <4>2. CASE ~(w = u /\ a = b)
        BY <4>2, <3>3, <3>4, <3>6, <1>10 DEF Maps, MapsExactly
      <4> QED BY <4>1, <4>2
    <3> QED BY <3>5, <3>6 DEF MapsExactly, Maps
  <2>3. \A p \in Procs \ Live' : \A a \in UserAddrs : mapping'[p][a] = NULL
    <3> SUFFICES ASSUME NEW p \in Procs \ Live, NEW a \in UserAddrs PROVE mapping'[p][a] = NULL
      BY <1>9
    <3>1. p \in Owners /\ a \in Addrs(p) /\ p # u
      BY <1>3, VmmAssumption DEF Owners, Addrs, Live
    <3> QED BY <3>1, <1>7, <2>1 DEF Mapped
  <2>4. \A a \in KernelAddrs : mapping'["kernel"][a] # Fb
    <3> SUFFICES ASSUME NEW a \in KernelAddrs PROVE mapping'["kernel"][a] # Fb
      OBVIOUS
    <3>1. "kernel" \in Owners /\ a \in Addrs("kernel")
      BY DEF Owners, Addrs
    <3> QED BY <3>1, <1>3, <1>7, <2>1 DEF Mapped
  <2>5. \A w \in Live' \cup {"kernel"} : \A a \in Addrs(w) : MapsExactly(who2, at2, w, a)'
    BY <1>9, <2>2
  <2> QED BY <1>0, <2>3, <2>4, <2>5, MappedNext DEF Walking
<1>11. CASE n \in Frames
  <2>1. n \notin In /\ In' = In \cup {n}
    <3>1. Held = {n} /\ Held' = {}
      BY <1>0, <1>1 DEF Held, Off
    <3>2. n \notin available
      BY <1>3, <1>11, VmmAssumption
    <3> QED BY <1>0, <1>11, <3>1, <3>2 DEF In
  <2>2. PICK who2, at2 : who2 = [who EXCEPT ![n] = u] /\ at2 = [at EXCEPT ![n] = b]
    OBVIOUS
  <2>3. PlacedAt(n, who, at, who2, at2)
    BY <1>1, <1>5, <2>2 DEF PlacedAt
  <2>4. Adding(n)
    BY <1>0, <1>1, <1>3, <1>4, <1>5, <1>6, <1>11, <2>1, InFrames, SMT DEF Adding, Here
  <2>5. /\ who2 \in [Frames -> Owners] /\ at2 \in [Frames -> Paths]
        /\ Placed(who2, at2)' /\ Children(who2, at2)' /\ Parents(who2, at2)' /\ KernelShared'
        /\ Deleting(who2, at2)'
    BY <2>3, <2>4, AddFrame
  <2>6. Mapped(who2, at2)' /\ Walking(who2, at2)'
    <3>1. In \subseteq In' /\ \A g \in In : who2[g] = who[g] /\ at2[g] = at[g]
      BY <2>1, <2>2, InFrames
    <3>2. \A g \in In' \ In : at2[g] = b
      BY <1>11, <2>1, <2>2
    <3> QED BY <1>10, <3>1, <3>2
  <2> QED BY <1>8, <2>5, <2>6 DEF Shape
<1>12. CASE n = Fb
  <2>1. In' = In
    BY <1>0, <1>1, <1>12, VmmAssumption DEF In, Held, Off
  <2>2. Mapped(who, at)' /\ Walking(who, at)'
    BY <1>10, <2>1
  <2>3. Placed(who, at)'
    <3>1. Placed(who, at)
      BY DEF Shape
    <3>2. \A w : Present(w)' = Present(w) /\ TopOf(w)' = TopOf(w)
      BY <1>0 DEF Present, TopOf
    <3> QED BY <2>1, <3>1, <3>2 DEF Placed
  <2>4. \A f, i : Visited(f, i)' = Visited(f, i)
    BY <1>0 DEF Visited
  <2>5. Children(who, at)'
    <3> SUFFICES ASSUME NEW f \in In, NEW i \in Indices, Depth(at[f]) < Levels,
                        ~Shared(who, at, f, i), ~Visited(f, i), entry'[f][i] # NULL
                 PROVE  \/ entry'[f][i] = Fb /\ Depth(at[f]) = Levels - 1
                        \/ entry'[f][i] \in In' /\ Child(who, at, f, i, entry'[f][i])
      BY <2>1, <2>4 DEF Children, Shared, Child
    <3>1. CASE f = t /\ i = j
      BY <3>1, <1>4, <1>6, <1>12, InFrames
    <3>2. CASE ~(f = t /\ i = j)
      <4>1. entry'[f][i] = entry[f][i]
        BY <3>2, <1>6, InFrames
      <4>2. Children(who, at)
        BY DEF Shape
      <4> QED BY <4>1, <4>2, <2>1 DEF Children
    <3> QED BY <3>1, <3>2
  <2>6. Parents(who, at)'
    <3> SUFFICES ASSUME NEW f \in In, at[f] # Root
                 PROVE  \E g \in In, i \in Indices : Child(who, at, g, i, f) /\ entry'[g][i] = f /\ ~Visited(g, i)
      BY <2>1, <2>4 DEF Parents, Child
    <3>1. PICK g \in In, i \in Indices : Child(who, at, g, i, f) /\ entry[g][i] = f /\ ~Visited(g, i)
      BY DEF Shape, Parents
    <3>2. entry'[g][i] = f
      BY <3>1, <1>5, <1>6, InFrames, VmmAssumption
    <3> QED BY <3>1, <3>2
  <2>7. \A w \in Owners : Present(w) => TopOf(w) # t
    BY <1>4, PathFacts, SMT DEF Shape, Placed
  <2>8. KernelShared'
    <3>1. KTop \in Frames /\ KTop # t
      BY <2>7, InFrames, TopFacts
    <3>2. \A p \in Procs : top[p] # NULL => top[p] \in Frames /\ top[p] # t
      BY <2>7, VmmAssumption DEF Present, TopOf, Owners, Types
    <3>3. KernelHalf \subseteq Indices
      BY VmmAssumption, SMT DEF KernelHalf, Indices
    <3> QED BY <1>0, <1>6, <3>1, <3>2, <3>3, SMT DEF Shape, KernelShared
  <2>9. Deleting(who, at)'
    <3>1. Deleting(who, at)
      BY DEF Shape
    <3>2. ASSUME NEW k \in DOMAIN walk
          PROVE  \A i \in Indices : entry'[walk[k].table][i] = entry[walk[k].table][i]
      BY <3>1, <1>3, <1>6, InFrames, SMT DEF Deleting
    <3> QED BY <1>0, <2>1, <3>1, <3>2 DEF Deleting
  <2> QED BY <1>8, <2>2, <2>3, <2>5, <2>6, <2>8, <2>9 DEF Shape
<1> QED BY <1>3, <1>11, <1>12

\* The frame f leaves the tables: the entry j of the table t, where it was, is cleared or visited.
Removing(who, at, f, t, j) ==
    /\ f \in In /\ t \in In /\ t # f /\ j \in Indices /\ Child(who, at, t, j, f) /\ In' = In \ {f}
    /\ UNCHANGED <<top, victim>>
    /\ \A g \in In \ {f}, i \in Indices : ~(g = t /\ i = j) =>
         entry'[g][i] = entry[g][i] /\ (Visited(g, i)' <=> Visited(g, i))
    /\ entry'[t][j] = NULL \/ (entry'[t][j] = entry[t][j] /\ Visited(t, j)')
    /\ entry'[t][j] = NULL => at[t] # Root
    /\ \A g \in In, i \in Indices : ~Child(who, at, f, i, g)

\* A frame that is taken out keeps the forest a forest: nothing is below it, and no other
\* entry holds it.
LEMMA RemoveFrame ==
    ASSUME Types, NEW who \in [Frames -> Owners], NEW at \in [Frames -> Paths], Shape(who, at),
           NEW f, NEW t, NEW j, Removing(who, at, f, t, j)
    PROVE  Placed(who, at)' /\ Children(who, at)' /\ Parents(who, at)' /\ KernelShared'
<1>1. Placed(who, at) /\ Children(who, at) /\ Parents(who, at) /\ KernelShared
  BY DEF Shape
<1>2. /\ f \in In /\ t \in In /\ t # f /\ j \in Indices /\ who[f] = who[t] /\ at[f] = Down(at[t], j)
      /\ In' = In \ {f} /\ UNCHANGED <<top, victim>>
  BY DEF Removing, Child
<1>3. \A g \in In : g \in Frames /\ at[g] \in Paths
  BY InFrames
<1>4. at[f] # Root
  BY <1>2, <1>3, PathFacts
<1>5. \A w : Present(w)' = Present(w) /\ TopOf(w)' = TopOf(w)
  BY <1>2 DEF Present, TopOf
<1>6. Placed(who, at)'
  BY <1>1, <1>2, <1>4, <1>5 DEF Placed
<1>7. Children(who, at)'
  <2> SUFFICES ASSUME NEW g \in In \ {f}, NEW i \in Indices, Depth(at[g]) < Levels,
                      ~Shared(who, at, g, i), ~Visited(g, i)', entry'[g][i] # NULL
               PROVE  \/ entry'[g][i] = Fb /\ Depth(at[g]) = Levels - 1
                      \/ entry'[g][i] \in In \ {f} /\ Child(who, at, g, i, entry'[g][i])
    BY <1>2, SMT DEF Children, Shared, Child
  <2>1. ~(g = t /\ i = j)
    BY DEF Removing
  <2>2. entry'[g][i] = entry[g][i] /\ ~Visited(g, i)
    BY <2>1 DEF Removing
  <2>3. \/ entry[g][i] = Fb /\ Depth(at[g]) = Levels - 1
        \/ entry[g][i] \in In /\ Child(who, at, g, i, entry[g][i])
    BY <1>1, <2>2 DEF Children
  <2>4. ASSUME Child(who, at, g, i, f) PROVE FALSE
    <3>1. who[g] = who[t] /\ Down(at[g], i) = Down(at[t], j)
      BY <1>2, <2>4 DEF Child
    <3>2. at[g] = at[t] /\ i = j
      BY <1>2, <1>3, <3>1, DownInjective, SMT
    <3> QED BY <1>1, <1>2, <2>1, <3>1, <3>2 DEF Placed
  <2> QED BY <2>2, <2>3, <2>4
<1>8. Parents(who, at)'
  <2> SUFFICES ASSUME NEW h \in In \ {f}, at[h] # Root
               PROVE  \E g \in In \ {f}, i \in Indices :
                        Child(who, at, g, i, h) /\ entry'[g][i] = h /\ ~Visited(g, i)'
    BY <1>2 DEF Parents, Child
  <2>1. PICK g \in In, i \in Indices : Child(who, at, g, i, h) /\ entry[g][i] = h /\ ~Visited(g, i)
    BY <1>1 DEF Parents
  <2>2. g # f
    <3>1. \A y \in In, k \in Indices : ~Child(who, at, f, k, y)
      BY DEF Removing
    <3> QED BY <2>1, <3>1
  <2>3. ~(g = t /\ i = j)
    BY <1>1, <1>2, <2>1, SMT DEF Placed, Child
  <2> QED BY <2>1, <2>2, <2>3 DEF Removing
<1>9. KernelShared'
  <2>1. ASSUME NEW w \in Owners, Present(w), NEW i \in Indices
        PROVE  entry'[TopOf(w)][i] = entry[TopOf(w)][i]
    <3>1. TopOf(w) \in In \ {f} /\ at[TopOf(w)] = Root
      BY <1>1, <1>4, <2>1 DEF Placed
    <3>2. CASE TopOf(w) = t /\ i = j
      BY <3>1, <3>2 DEF Removing
    <3>3. CASE ~(TopOf(w) = t /\ i = j)
      BY <3>1, <3>3 DEF Removing
    <3> QED BY <3>2, <3>3
  <2>2. \A i \in Indices : entry'[KTop][i] = entry[KTop][i]
    BY <2>1 DEF Owners, Present, TopOf
  <2>3. \A p \in Procs : top[p] # NULL => \A i \in Indices : entry'[top[p]][i] = entry[top[p]][i]
    BY <2>1, VmmAssumption DEF Owners, Present, TopOf
  <2>4. KernelHalf \subseteq Indices
    BY VmmAssumption, SMT DEF KernelHalf, Indices
  <2> QED BY <1>1, <1>2, <2>2, <2>3, <2>4, SMT DEF KernelShared
<1> QED BY <1>6, <1>7, <1>8, <1>9

\* ClearEntry keeps the invariant: vmm_unmap_page clears the only entry of the page that
\* is freed.
LEMMA ClearEntryStep ==
    ASSUME Types, NEW who \in [Frames -> Owners], NEW at \in [Frames -> Paths], Shape(who, at), ClearEntry
    PROVE  Types' /\ Shape(who, at)'
<1>0. /\ op # Off /\ op.depth = Levels /\ op.do = "unmap" /\ op' = Off /\ UNCHANGED <<failed, top, walk, victim>>
      /\ op.phys \in Frames \ available /\ available' = available \cup {op.phys}
  BY DEF ClearEntry, Leaf, PA!Return
<1>1. PICK n, t, j, u, b : n = op.phys /\ t = op.table /\ j = Index /\ u = op.who /\ b = op.addr
  OBVIOUS
<1>2. /\ entry' = [entry EXCEPT ![t][j] = NULL, ![n] = Garbage]
      /\ mapping' = [mapping EXCEPT ![u][b] = NULL]
  BY <1>1 DEF ClearEntry
<1>3. u = "kernel" /\ u \in Owners /\ u # victim /\ b \in Addrs(u) /\ who[t] = u /\ mapping[u][b] = n
  BY <1>0, <1>1, WhoIsNotVictim DEF Shape, Walking
<1>4. /\ t \in In /\ j \in Indices /\ Depth(at[t]) = Levels - 1 /\ Levels \in Nat /\ Levels > 1
      /\ ~Visited(t, j) /\ ~Shared(who, at, t, j) /\ b \in Paths /\ Depth(b) = Levels
  BY <1>0, <1>1, HereFacts, LeafFacts, VmmAssumption, SMT
<1>5. /\ j = b[Levels] /\ Maps(who, at, u, b, t) /\ Down(at[t], j) = b /\ entry[t][j] = n
  BY <1>0, <1>1, <1>3, LeafFacts DEF Maps, Here
<1>6. n \in In /\ Child(who, at, t, j, n) /\ n # Fb /\ n # NULL /\ n \in Frames /\ t \in Frames
  <2>1. n # Fb /\ n # NULL /\ n \in Frames /\ t \in Frames
    BY <1>0, <1>1, <1>4, InFrames, VmmAssumption
  <2>2. Children(who, at) /\ Depth(at[t]) < Levels
    BY <1>4, SMT DEF Shape
  <2> QED BY <1>4, <1>5, <2>1, <2>2 DEF Children
<1>7. who[n] = u /\ at[n] = b /\ n # t
  BY <1>3, <1>4, <1>5, <1>6, SMT DEF Child
<1>8. In' = In \ {n}
  <2>1. Held = {} /\ Held' = {}
    BY <1>0 DEF Held, Off
  <2> QED BY <1>0, <1>1, <2>1 DEF In
<1>9. /\ entry' \in [Frames -> [Indices -> Frames \cup {NULL, Junk, Fb}]]
      /\ \A f \in Frames \ {n}, i \in Indices : entry'[f][i] = IF f = t /\ i = j THEN NULL ELSE entry[f][i]
  <2>1. entry \in [Frames -> [Indices -> Frames \cup {NULL, Junk, Fb}]]
    BY DEF Types
  <2>2. Garbage \in [Indices -> Frames \cup {NULL, Junk, Fb}]
    BY DEF Garbage
  <2>3. PICK e : e = [entry EXCEPT ![t][j] = NULL]
    OBVIOUS
  <2>4. /\ e \in [Frames -> [Indices -> Frames \cup {NULL, Junk, Fb}]]
        /\ \A f \in Frames, i \in Indices : e[f][i] = IF f = t /\ i = j THEN NULL ELSE entry[f][i]
    BY <1>4, <1>6, <2>1, <2>3
  <2>5. entry' = [e EXCEPT ![n] = Garbage]
    BY <1>2, <2>3
  <2> QED BY <1>6, <2>2, <2>4, <2>5
<1>10. /\ mapping' = [w \in Owners |-> mapping'[w]]
       /\ \A w \in Owners : mapping'[w] \in [Addrs(w) -> Frames \cup {NULL, Fb}]
       /\ \A w \in Owners : \A a \in Addrs(w) : mapping'[w][a] = IF w = u /\ a = b THEN NULL ELSE mapping[w][a]
  <2>1. /\ mapping = [w \in Owners |-> mapping[w]]
        /\ \A w \in Owners : mapping[w] \in [Addrs(w) -> Frames \cup {NULL, Fb}]
    BY DEF Types
  <2>2. mapping' = [w \in Owners |-> IF w = u THEN [mapping[u] EXCEPT ![b] = NULL] ELSE mapping[w]]
    BY <1>2, <1>3, <2>1
  <2> QED BY <1>3, <2>1, <2>2
<1>11. Types'
  <2>1. Off \in Ops /\ Off.do = "off"
    BY VmmAssumption, SMT DEF Off, Ops
  <2>2. available' \subseteq Frames
    BY <1>0 DEF Types
  <2> QED BY <1>0, <1>9, <1>10, <2>1, <2>2 DEF Types, Addrs
<1>12. \A f, i : Visited(f, i)' = Visited(f, i)
  BY <1>0 DEF Visited
<1>13. Removing(who, at, n, t, j)
  <2>1. \A g \in In, i \in Indices : ~Child(who, at, n, i, g)
    <3> SUFFICES ASSUME NEW g \in In, NEW i \in Indices, Child(who, at, n, i, g) PROVE FALSE
      OBVIOUS
    <3>1. at[g] = Down(b, i) /\ Depth(at[g]) <= Levels
      BY <1>7 DEF Child, Shape, Placed
    <3> QED BY <3>1, <1>4, PathFacts, SMT
  <2>2. \A g \in In \ {n}, i \in Indices : ~(g = t /\ i = j) => entry'[g][i] = entry[g][i]
    BY <1>9, InFrames
  <2>3. entry'[t][j] = NULL /\ at[t] # Root
    BY <1>4, <1>6, <1>7, <1>9, PathFacts, SMT
  <2> QED BY <1>0, <1>4, <1>6, <1>7, <1>8, <1>12, <2>1, <2>2, <2>3 DEF Removing
<1>14. Placed(who, at)' /\ Children(who, at)' /\ Parents(who, at)' /\ KernelShared'
  BY <1>13, RemoveFrame
<1>15. Live' = Live
  BY <1>0 DEF Live
<1>16. Mapped(who, at)'
  <2>1. Mapped(who, at)
    BY DEF Shape
  <2>2. ASSUME NEW w \in Live \cup {"kernel"}, NEW a \in Addrs(w)
        PROVE  MapsExactly(who, at, w, a)'
    <3>1. w \in Owners
      BY WhoIsNotVictim
    <3>2. a \in Paths /\ Depth(a) = Levels /\ a[Levels] \in Indices
      BY <3>1, AddrFacts, SMT
    <3>3. MapsExactly(who, at, w, a)
      BY <2>1 DEF Mapped
    <3>4. mapping'[w][a] = IF w = u /\ a = b THEN NULL ELSE mapping[w][a]
      BY <1>10, <3>1
    <3>5. ASSUME NEW g \in In \ {n}, Maps(who, at, w, a, g)
          PROVE  entry'[g][a[Levels]] = mapping'[w][a]
      <4>1. who[g] = w /\ Down(at[g], a[Levels]) = a /\ g \in Frames /\ at[g] \in Paths /\ at[t] \in Paths
        BY <1>4, <3>5, InFrames DEF Maps
      <4>2. CASE w = u /\ a = b
        <5>1. at[g] = at[t]
          BY <1>4, <1>5, <4>1, <4>2, DownInjective, SMT
        <5>2. g = t
          BY <5>1, <4>1, <4>2, <1>3, <1>4, SMT DEF Shape, Placed
        <5> QED BY <5>2, <4>2, <3>4, <1>4, <1>5, <1>6, <1>7, <1>9
      <4>3. CASE ~(w = u /\ a = b)
        <5>1. ~(g = t /\ a[Levels] = j)
          BY <4>1, <4>3, <1>3, <1>5
        <5>2. entry'[g][a[Levels]] = entry[g][a[Levels]]
          BY <5>1, <1>9, <3>2, <4>1
        <5> QED BY <5>2, <3>5, <4>3, <3>3, <3>4 DEF MapsExactly
      <4> QED BY <4>2, <4>3
    <3>6. ASSUME mapping'[w][a] # NULL PROVE \E g \in In \ {n} : Maps(who, at, w, a, g)
      <4>1. mapping[w][a] # NULL
        BY <3>4, <3>6
      <4>2. PICK g \in In : Maps(who, at, w, a, g)
        BY <3>3, <4>1 DEF MapsExactly
      <4>3. g # n
        <5> SUFFICES ASSUME g = n PROVE FALSE
          OBVIOUS
        <5>1. Down(b, a[Levels]) = a
          BY <1>7, <4>2 DEF Maps
        <5> QED BY <5>1, <3>2, <1>4, PathFacts, SMT
      <4> QED BY <4>2, <4>3
    <3> QED BY <1>8, <3>5, <3>6 DEF MapsExactly, Maps
  <2>3. \A p \in Procs \ Live' : \A a \in UserAddrs : mapping'[p][a] = NULL
    <3> SUFFICES ASSUME NEW p \in Procs \ Live, NEW a \in UserAddrs PROVE mapping'[p][a] = NULL
      BY <1>15
    <3>1. p \in Owners /\ a \in Addrs(p)
      BY VmmAssumption DEF Owners, Addrs, Live
    <3> QED BY <3>1, <1>10, <2>1 DEF Mapped
  <2>4. \A a \in KernelAddrs : mapping'["kernel"][a] # Fb
    <3> SUFFICES ASSUME NEW a \in KernelAddrs PROVE mapping'["kernel"][a] # Fb
      OBVIOUS
    <3>1. "kernel" \in Owners /\ a \in Addrs("kernel")
      BY DEF Owners, Addrs
    <3> QED BY <3>1, <1>3, <1>10, <2>1, VmmAssumption DEF Mapped
  <2>5. \A w \in Live' \cup {"kernel"} : \A a \in Addrs(w) : MapsExactly(who, at, w, a)'
    BY <1>15, <2>2
  <2> QED BY <2>3, <2>4, <2>5, MappedNext
<1>17. Walking(who, at)'
  BY <1>0 DEF Walking
<1>18. Deleting(who, at)'
  <2>1. Deleting(who, at)
    BY DEF Shape
  <2>2. ASSUME NEW k \in DOMAIN walk
        PROVE  walk[k].table # n /\ \A i \in Indices : entry'[walk[k].table][i] = entry[walk[k].table][i]
    BY <2>1, <1>3, <1>7, <1>9, InFrames, SMT DEF Deleting
  <2> QED BY <1>0, <1>8, <2>1, <2>2, SMT DEF Deleting
<1> QED BY <1>11, <1>14, <1>16, <1>17, <1>18 DEF Shape

\* NewPagemap keeps the invariant: the new top level has the kernel's half and an empty
\* lower half.
LEMMA NewPagemapStep ==
    ASSUME Types, NEW who \in [Frames -> Owners], NEW at \in [Frames -> Paths], Shape(who, at),
           NEW p \in Procs, NewPagemap(p)
    PROVE  Types' /\ \E who2 \in [Frames -> Owners], at2 \in [Frames -> Paths] : Shape(who2, at2)'
<1>0. op = Off /\ top[p] = NULL
  BY DEF NewPagemap
<1>1. CASE available = {}
  BY <1>1, OutOfMemoryStep DEF NewPagemap, OutOfMemory, PA!Fail
<1>2. CASE available # {}
  <2>0. PICK n : n = Pick
    OBVIOUS
  <2>1. /\ n \in available /\ available' = available \ {n} /\ UNCHANGED <<failed, op, walk, victim, mapping>>
        /\ top' = [top EXCEPT ![p] = n]
        /\ entry' = [entry EXCEPT ![n] = [i \in Indices |-> IF i \in KernelHalf THEN entry[KTop][i] ELSE NULL]]
    BY <1>2, <2>0 DEF NewPagemap, PA!Lend
  <2>2. In = Frames \ available /\ In' = In \cup {n} /\ n \notin In /\ n \in Frames
    BY <1>0, <2>1, IdleHolds DEF Types, In, Held, Off
  <2>3. /\ top' \in [Procs -> Frames \cup {NULL}] /\ top'[p] = n /\ \A q \in Procs \ {p} : top'[q] = top[q]
        /\ n # NULL
    BY <2>1, <2>2, VmmAssumption DEF Types
  <2>4. p # victim /\ p # "kernel" /\ p \in Owners
    BY <1>0, VmmAssumption DEF Shape, Deleting, Owners
  <2>5. KTop \in In /\ KTop \in Frames /\ KernelHalf \subseteq Indices
    <3>1. KTop \in In
      BY TopFacts
    <3> QED BY <3>1, InFrames, VmmAssumption, SMT DEF KernelHalf, Indices
  <2>6. /\ entry' \in [Frames -> [Indices -> Frames \cup {NULL, Junk, Fb}]]
        /\ \A i \in Indices : entry'[n][i] = IF i \in KernelHalf THEN entry[KTop][i] ELSE NULL
        /\ \A f \in Frames \ {n} : entry'[f] = entry[f]
    <3>1. entry \in [Frames -> [Indices -> Frames \cup {NULL, Junk, Fb}]]
      BY DEF Types
    <3>2. PICK e : e = [i \in Indices |-> IF i \in KernelHalf THEN entry[KTop][i] ELSE NULL]
      OBVIOUS
    <3>3. e \in [Indices -> Frames \cup {NULL, Junk, Fb}]
      BY <2>5, <3>1, <3>2, SMT
    <3>4. entry' = [entry EXCEPT ![n] = e]
      BY <2>1, <3>2
    <3> QED BY <2>2, <3>1, <3>2, <3>3, <3>4
  <2>7. Types'
    <3>1. available' \subseteq Frames
      BY <2>1 DEF Types
    <3> QED BY <2>1, <2>3, <2>6, <3>1 DEF Types
  <2>8. PICK who2, at2 : who2 = [who EXCEPT ![n] = p] /\ at2 = [at EXCEPT ![n] = Root]
    OBVIOUS
  <2>9. /\ who2 \in [Frames -> Owners] /\ at2 \in [Frames -> Paths] /\ who2[n] = p /\ at2[n] = Root
        /\ \A f \in In : f \in Frames /\ f # n /\ who2[f] = who[f] /\ at2[f] = at[f] /\ who[f] \in Owners
    BY <2>2, <2>4, <2>8, PathFacts
  <2>10. \A f \in In : who[f] # p
    BY <1>0, <2>4 DEF Shape, Placed, Present
  <2>11. \A w \in Owners \ {p} : Present(w)' = Present(w) /\ TopOf(w)' = TopOf(w)
    BY <2>3, <2>4, VmmAssumption DEF Present, TopOf, Owners
  <2>12. Present(p)' /\ TopOf(p)' = n
    BY <2>3, <2>4 DEF Present, TopOf
  <2>13. Placed(who2, at2)'
    <3>1. Placed(who, at)
      BY DEF Shape
    <3>2. \A f \in In' : Present(who2[f])' /\ Depth(at2[f]) <= Levels /\ Known(who2[f], at2[f])
      <4>1. Depth(Root) <= Levels /\ Known(p, Root)
        BY PathFacts, VmmAssumption, SMT DEF Known
      <4>2. \A f \in In : Present(who[f])'
        BY <2>9, <2>10, <2>11, <3>1 DEF Placed
      <4> QED BY <2>2, <2>9, <2>12, <3>1, <4>1, <4>2 DEF Placed
    <3>3. \A f, g \in In' : who2[f] = who2[g] /\ at2[f] = at2[g] => f = g
      BY <2>2, <2>9, <2>10, <3>1, SMT DEF Placed
    <3>4. ASSUME NEW w \in Owners, Present(w)'
          PROVE  TopOf(w)' \in In' /\ who2[TopOf(w)'] = w /\ at2[TopOf(w)'] = Root
      <4>1. CASE w = p
        BY <2>2, <2>9, <2>12, <4>1
      <4>2. CASE w # p
        BY <2>2, <2>9, <2>11, <3>1, <3>4, <4>2, SMT DEF Placed
      <4> QED BY <4>1, <4>2
    <3> QED BY <3>2, <3>3, <3>4 DEF Placed, Known, Addrs
  <2>14. \A f, i : Visited(f, i)' = Visited(f, i)
    BY <2>1 DEF Visited
  <2>15. Children(who2, at2)'
    <3> SUFFICES ASSUME NEW f \in In', NEW i \in Indices, Depth(at2[f]) < Levels,
                        ~Shared(who2, at2, f, i), ~Visited(f, i), entry'[f][i] # NULL
                 PROVE  \/ entry'[f][i] = Fb /\ Depth(at2[f]) = Levels - 1
                        \/ entry'[f][i] \in In' /\ Child(who2, at2, f, i, entry'[f][i])
      BY <2>14 DEF Children, Shared, Child
    <3>1. CASE f = n
      <4>1. ~(i >= Half)
        BY <2>4, <2>9, <3>1 DEF Shared
      <4>2. i \notin KernelHalf
        BY <4>1, SMT DEF KernelHalf
      <4> QED BY <2>6, <3>1, <4>2
    <3>2. CASE f \in In
      <4>1. ~Shared(who, at, f, i) /\ Depth(at[f]) < Levels /\ entry'[f][i] = entry[f][i]
        BY <2>6, <2>9, <3>2 DEF Shared
      <4>2. \/ entry[f][i] = Fb /\ Depth(at[f]) = Levels - 1
            \/ entry[f][i] \in In /\ Child(who, at, f, i, entry[f][i])
        BY <3>2, <4>1 DEF Shape, Children
      <4> QED BY <2>2, <2>9, <3>2, <4>1, <4>2 DEF Child
    <3> QED BY <2>2, <3>1, <3>2
  <2>16. Parents(who2, at2)'
    <3> SUFFICES ASSUME NEW f \in In', at2[f] # Root
                 PROVE  \E g \in In', i \in Indices : Child(who2, at2, g, i, f) /\ entry'[g][i] = f /\ ~Visited(g, i)
      BY <2>14 DEF Parents, Child
    <3>1. f \in In /\ at[f] # Root
      BY <2>2, <2>9
    <3>2. PICK g \in In, i \in Indices : Child(who, at, g, i, f) /\ entry[g][i] = f /\ ~Visited(g, i)
      BY <3>1 DEF Shape, Parents
    <3> QED BY <2>2, <2>6, <2>9, <3>1, <3>2 DEF Child
  <2>17. KernelShared'
    <3>1. KernelShared
      BY DEF Shape
    <3>2. \A i \in Indices : entry'[KTop][i] = entry[KTop][i]
      BY <2>2, <2>5, <2>6
    <3>3. \A q \in Procs \ {p} : top'[q] # NULL => \A i \in KernelHalf : entry'[top'[q]][i] = entry'[KTop][i]
      <4> SUFFICES ASSUME NEW q \in Procs \ {p}, top'[q] # NULL, NEW i \in KernelHalf
                   PROVE  entry'[top'[q]][i] = entry'[KTop][i]
        OBVIOUS
      <4>1. top[q] # NULL /\ top'[q] = top[q]
        BY <2>3
      <4>2. q \in Owners /\ Present(q) /\ TopOf(q) = top[q]
        BY <4>1, VmmAssumption DEF Present, TopOf, Owners
      <4>3. top[q] \in In
        BY <4>2 DEF Shape, Placed
      <4>4. entry'[top[q]] = entry[top[q]] /\ entry'[KTop] = entry[KTop]
        BY <2>2, <2>5, <2>6, <2>9, <4>3
      <4> QED BY <3>1, <4>1, <4>4, SMT DEF KernelShared
    <3>4. \A i \in KernelHalf : entry'[top'[p]][i] = entry'[KTop][i]
      BY <2>3, <2>5, <2>6, <3>2
    <3> QED BY <3>1, <3>2, <3>3, <3>4 DEF KernelShared
  <2>18. Live' = Live \cup {p}
    BY <2>1, <2>3, <2>4 DEF Live
  <2>19. Mapped(who2, at2)'
    <3>1. Mapped(who, at) /\ p \notin Live
      BY <1>0 DEF Shape, Live
    <3>2. ASSUME NEW w \in Live \cup {"kernel"}, NEW a \in Addrs(w) PROVE MapsExactly(who2, at2, w, a)'
      <4>1. MapsExactly(who, at, w, a) /\ w # p
        BY <2>4, <3>1 DEF Mapped
      <4>2. ASSUME NEW g \in In', Maps(who2, at2, w, a, g) PROVE entry'[g][a[Levels]] = mapping[w][a]
        <5>1. g \in In /\ Maps(who, at, w, a, g)
          BY <2>2, <2>9, <4>1, <4>2 DEF Maps
        <5> QED BY <2>6, <2>9, <4>1, <5>1, SMT DEF MapsExactly
      <4>3. mapping[w][a] # NULL => \E g \in In' : Maps(who2, at2, w, a, g)
        BY <2>2, <2>9, <4>1 DEF MapsExactly, Maps
      <4> QED BY <2>1, <4>2, <4>3 DEF MapsExactly, Maps
    <3>3. ASSUME NEW a \in Addrs(p) PROVE MapsExactly(who2, at2, p, a)'
      <4>1. a \in UserAddrs
        BY <2>4 DEF Addrs
      <4>2. mapping[p][a] = NULL
        BY <3>1, <4>1 DEF Mapped
      <4>3. ASSUME NEW g \in In', Maps(who2, at2, p, a, g) PROVE FALSE
        <5>1. g = n
          BY <2>2, <2>9, <2>10, <4>3 DEF Maps
        <5>2. Down(Root, a[Levels]) = a
          BY <2>9, <4>3, <5>1 DEF Maps
        <5>3. a[Levels] \in Indices /\ Depth(a) = Levels /\ Levels \in Nat /\ Levels > 1
          BY <2>4, AddrFacts, SMT
        <5> QED BY <5>2, <5>3, PathFacts, SMT
      <4> QED BY <2>1, <4>2, <4>3 DEF MapsExactly, Maps
    <3>4. \A w \in Live' \cup {"kernel"} : \A a \in Addrs(w) : MapsExactly(who2, at2, w, a)'
      BY <2>18, <3>2, <3>3
    <3>5. \A q \in Procs \ Live' : \A a \in UserAddrs : mapping'[q][a] = NULL
      BY <2>1, <2>18, <3>1 DEF Mapped
    <3>6. \A a \in KernelAddrs : mapping'["kernel"][a] # Fb
      BY <2>1, <3>1 DEF Mapped
    <3> QED BY <3>4, <3>5, <3>6, MappedNext
  <2>20. Walking(who2, at2)'
    BY <1>0, <2>1 DEF Walking
  <2>21. Deleting(who2, at2)'
    <3>1. Deleting(who, at)
      BY DEF Shape
    <3>2. walk # <<>> => top'[victim] = top[victim]
      BY <2>3, <2>4, <3>1 DEF Types, Deleting
    <3>3. ASSUME NEW k \in DOMAIN walk
          PROVE  /\ walk[k].table \in In' /\ who2[walk[k].table] = who[walk[k].table]
                 /\ at2[walk[k].table] = at[walk[k].table] /\ entry'[walk[k].table] = entry[walk[k].table]
      BY <2>2, <2>6, <2>9, <3>1 DEF Deleting
    <3> QED BY <2>1, <3>1, <3>2, <3>3, SMT DEF Deleting
  <2> QED BY <2>7, <2>9, <2>13, <2>15, <2>16, <2>17, <2>19, <2>20, <2>21 DEF Shape
<1> QED BY <1>1, <1>2

\* DeletePagemap keeps the invariant: no walk is in the victim's tables.
LEMMA DeletePagemapStep ==
    ASSUME Types, NEW who \in [Frames -> Owners], NEW at \in [Frames -> Paths], Shape(who, at),
           NEW p \in Procs, DeletePagemap(p)
    PROVE  Types' /\ Shape(who, at)'
<1>0. /\ victim = NULL /\ top[p] # NULL /\ op.who # p /\ victim' = p
      /\ walk' = <<[table |-> top[p], i |-> 0]>> /\ UNCHANGED <<available, failed, entry, top, op>>
      /\ mapping' = [mapping EXCEPT ![p] = [a \in DOMAIN mapping[p] |-> NULL]]
  BY DEF DeletePagemap
<1>1. walk = <<>> /\ p # "kernel" /\ p \in Owners /\ top[p] \in Frames /\ p # NULL
  BY <1>0, VmmAssumption DEF Shape, Deleting, Owners, Types
<1>2. In' = In
  BY <1>0 DEF In, Held
<1>3. /\ walk' \in Seq([table : Frames, i : 0..Entries]) /\ Len(walk') = 1 /\ DOMAIN walk' = {1}
      /\ walk'[1].table = top[p] /\ walk'[1].i = 0 /\ walk' # <<>>
  <2>1. 0 \in 0..Entries
    BY VmmAssumption, SMT
  <2>2. PICK r : r = [table |-> top[p], i |-> 0]
    OBVIOUS
  <2>3. r \in [table : Frames, i : 0..Entries] /\ r.table = top[p] /\ r.i = 0
    BY <1>1, <2>1, <2>2
  <2>4. walk' = <<r>>
    BY <1>0, <2>2
  <2> QED BY <2>3, <2>4, SMT
<1>4. \A f : \A i \in Indices : ~Visited(f, i)
  BY <1>1, SMT DEF Visited
<1>5. \A f : \A i \in Indices : ~Visited(f, i)'
  BY <1>3, SMT DEF Visited, Indices
<1>6. /\ mapping' = [w \in Owners |-> mapping'[w]]
      /\ \A w \in Owners : mapping'[w] \in [Addrs(w) -> Frames \cup {NULL, Fb}]
      /\ \A w \in Owners \ {p} : mapping'[w] = mapping[w]
      /\ \A a \in UserAddrs : mapping'[p][a] = NULL
  <2>1. /\ mapping = [w \in Owners |-> mapping[w]]
        /\ \A w \in Owners : mapping[w] \in [Addrs(w) -> Frames \cup {NULL, Fb}]
    BY DEF Types
  <2>2. DOMAIN mapping[p] = Addrs(p) /\ Addrs(p) = UserAddrs
    BY <1>1, <2>1 DEF Addrs
  <2>3. mapping' = [w \in Owners |-> IF w = p THEN [a \in Addrs(p) |-> NULL] ELSE mapping[w]]
    BY <1>0, <1>1, <2>1, <2>2
  <2> QED BY <1>1, <2>1, <2>2, <2>3
<1>7. Types'
  BY <1>0, <1>3, <1>6 DEF Types, Addrs
<1>8. Live' = Live \ {p}
  BY <1>0, VmmAssumption DEF Live
<1>9. \A w : Present(w)' = Present(w) /\ TopOf(w)' = TopOf(w)
  BY <1>0 DEF Present, TopOf
<1>10. Placed(who, at)'
  BY <1>2, <1>9 DEF Shape, Placed
<1>11. Children(who, at)'
  BY <1>0, <1>2, <1>4, <1>5 DEF Shape, Children
<1>12. Parents(who, at)'
  BY <1>0, <1>2, <1>4, <1>5 DEF Shape, Parents
<1>13. KernelShared'
  BY <1>0 DEF Shape, KernelShared
<1>14. Mapped(who, at)'
  <2>1. Mapped(who, at)
    BY DEF Shape
  <2>2. ASSUME NEW w \in (Live \ {p}) \cup {"kernel"}, NEW a \in Addrs(w) PROVE MapsExactly(who, at, w, a)'
    <3>1. MapsExactly(who, at, w, a) /\ mapping'[w] = mapping[w]
      BY <1>1, <1>6, <2>1 DEF Mapped, Owners, Live
    <3> QED BY <1>0, <1>2, <3>1 DEF MapsExactly
  <2>3. \A w \in Live' \cup {"kernel"} : \A a \in Addrs(w) : MapsExactly(who, at, w, a)'
    BY <1>8, <2>2
  <2>4. \A q \in Procs \ Live' : \A a \in UserAddrs : mapping'[q][a] = NULL
    BY <1>6, <1>8, <2>1 DEF Mapped, Owners
  <2>5. \A a \in KernelAddrs : mapping'["kernel"][a] # Fb
    BY <1>1, <1>6, <2>1 DEF Mapped, Owners
  <2> QED BY <2>3, <2>4, <2>5, MappedNext
<1>15. Walking(who, at)'
  <2>1. Walking(who, at)
    BY DEF Shape
  <2>2. op # Off => op.who \in Owners \ {p} /\ op.who \in Live' \cup {"kernel"} /\ mapping'[op.who] = mapping[op.who]
    BY <1>0, <1>6, <1>8, <2>1, WhoIsNotVictim DEF Walking
  <2> QED BY <1>0, <1>2, <2>1, <2>2 DEF Walking
<1>16. Deleting(who, at)'
  <2>1. top[p] \in In /\ who[top[p]] = p /\ at[top[p]] = Root
    BY <1>0, <1>1 DEF Shape, Placed, Present, TopOf
  <2>2. Depth(Root) = 0
    BY PathFacts
  <2>3. Levels >= 1 /\ Half >= 0 /\ Levels \in Nat /\ Half \in Nat
    BY VmmAssumption, SMT DEF Indices
  <2> QED BY <1>0, <1>1, <1>2, <1>3, <2>1, <2>2, <2>3, SMT DEF Deleting
<1> QED BY <1>7, <1>10, <1>11, <1>12, <1>13, <1>14, <1>15, <1>16 DEF Shape

\* Where the deletion stands.
LEMMA WalkFacts ==
    ASSUME Types, NEW who \in [Frames -> Owners], NEW at \in [Frames -> Paths], Shape(who, at), walk # <<>>
    PROVE  /\ Len(walk) \in 1..Levels /\ DOMAIN walk = 1..Len(walk) /\ Levels \in Nat /\ Levels > 1
           /\ W.table \in In /\ W.table \in Frames /\ W.i \in 0..Entries
           /\ who[W.table] = victim /\ Depth(at[W.table]) = Len(walk) - 1
           /\ victim \in Procs /\ victim # "kernel" /\ victim # NULL
           /\ \A k \in DOMAIN walk : walk[k].table \in Frames /\ walk[k].i \in 0..Entries
           /\ \A k, l \in DOMAIN walk : walk[k].table = walk[l].table => k = l
           /\ \A i : Visited(W.table, i) <=> i < W.i
<1>1. Deleting(who, at)
  BY DEF Shape
<1>2. /\ Len(walk) \in Nat /\ DOMAIN walk = 1..Len(walk)
      /\ \A k \in DOMAIN walk : walk[k] \in [table : Frames, i : 0..Entries]
  <2>1. PICK S : S = [table : Frames, i : 0..Entries]
    OBVIOUS
  <2>2. walk \in Seq(S)
    BY <2>1 DEF Types
  <2>3. Len(walk) \in Nat /\ DOMAIN walk = 1..Len(walk) /\ \A k \in DOMAIN walk : walk[k] \in S
    BY <2>2, SMT
  <2> QED BY <2>1, <2>3
<1>3. Len(walk) # 0
  BY SMT DEF Types
<1>4. Len(walk) \in 1..Levels /\ Levels \in Nat /\ Levels > 1 /\ Len(walk) \in DOMAIN walk
  BY <1>1, <1>2, <1>3, VmmAssumption, SMT DEF Deleting
<1>5. \A k \in DOMAIN walk : walk[k].table \in Frames /\ walk[k].i \in 0..Entries
  BY <1>2
<1>6. \A k \in DOMAIN walk : walk[k].table \in In /\ who[walk[k].table] = victim /\ Depth(at[walk[k].table]) = k - 1
  BY <1>1 DEF Deleting
<1>7. \A k, l \in DOMAIN walk : walk[k].table = walk[l].table => k = l
  BY <1>2, <1>6, SMT
<1>8. victim \in Procs /\ victim # "kernel" /\ victim # NULL
  BY <1>1, VmmAssumption DEF Deleting, Types
<1>9. \A i : Visited(W.table, i) <=> i < W.i
  BY <1>4, <1>7 DEF Visited, W
<1> QED BY <1>2, <1>4, <1>5, <1>6, <1>7, <1>8, <1>9 DEF W

\* What the deletion does to the trees: it frees frames of the victim.
Frees(who) ==
    /\ In' \subseteq In /\ \A g \in In \ In' : who[g] = victim
    /\ \A g \in In', i \in Indices : entry'[g][i] = entry[g][i]
    /\ available' \cap Held = available \cap Held
    /\ UNCHANGED <<top, op, victim, mapping>>

\* A step that frees frames of the victim disturbs neither what the others have mapped nor
\* the walk under vmm_spinlock.
LEMMA FreesOnlyVictim ==
    ASSUME Types, NEW who \in [Frames -> Owners], NEW at \in [Frames -> Paths], Shape(who, at), Frees(who)
    PROVE  Mapped(who, at)' /\ Walking(who, at)'
<1>0. /\ In' \subseteq In /\ \A g \in In \ In' : who[g] = victim
      /\ \A g \in In', i \in Indices : entry'[g][i] = entry[g][i]
      /\ available' \cap Held = available \cap Held
      /\ UNCHANGED <<top, op, victim, mapping>>
  BY DEF Frees
<1>1. Mapped(who, at) /\ Walking(who, at)
  BY DEF Shape
<1>2. Live' = Live
  BY <1>0 DEF Live
<1>3. ASSUME NEW w \in Live \cup {"kernel"}, NEW a \in Addrs(w) PROVE MapsExactly(who, at, w, a)'
  <2>1. MapsExactly(who, at, w, a)
    BY <1>1 DEF Mapped
  <2>2. w # victim /\ w \in Owners
    BY WhoIsNotVictim
  <2>3. a[Levels] \in Indices
    BY <2>2, AddrFacts, SMT
  <2>4. \A g \in In' : Maps(who, at, w, a, g) => entry'[g][a[Levels]] = mapping[w][a]
    BY <1>0, <2>1, <2>3 DEF MapsExactly
  <2>5. mapping[w][a] # NULL => \E g \in In' : Maps(who, at, w, a, g)
    BY <1>0, <2>1, <2>2 DEF MapsExactly, Maps
  <2> QED BY <1>0, <2>4, <2>5 DEF MapsExactly
<1>4. Mapped(who, at)'
  <2>1. \A w \in Live' \cup {"kernel"} : \A a \in Addrs(w) : MapsExactly(who, at, w, a)'
    BY <1>2, <1>3
  <2>2. \A q \in Procs \ Live' : \A a \in UserAddrs : mapping'[q][a] = NULL
    BY <1>0, <1>1, <1>2 DEF Mapped
  <2>3. \A a \in KernelAddrs : mapping'["kernel"][a] # Fb
    BY <1>0, <1>1 DEF Mapped
  <2> QED BY <2>1, <2>2, <2>3, MappedNext
<1>5. Walking(who, at)'
  <2>1. op # Off => op.table \in In'
    BY <1>0, <1>1, WhoIsNotVictim DEF Walking
  <2>2. op.do = "map" /\ op.phys \in Frames \ available => op.phys \in Frames \ available'
    BY <1>0 DEF Held
  <2> QED BY <1>0, <1>1, <1>2, <2>1, <2>2 DEF Walking
<1> QED BY <1>4, <1>5

\* What the deletion finds in an entry: nothing, the framebuffer's page, or the frame of
\* that place; never an entry of the kernel's half.
LEMMA VisitFacts ==
    ASSUME Types, NEW who \in [Frames -> Owners], NEW at \in [Frames -> Paths], Shape(who, at), Visit
    PROVE  /\ W.i \in Indices /\ (Len(walk) = 1 => W.i < Half) /\ ~Visited(W.table, W.i)
           /\ E # NULL => \/ E = Fb /\ Len(walk) = Levels
                          \/ E \in In /\ Child(who, at, W.table, W.i, E)
<1>1. walk # <<>> /\ ~Ended
  BY DEF Visit
<1>2. /\ Len(walk) \in 1..Levels /\ Levels \in Nat /\ W.i \in 0..Entries /\ W.table \in In
      /\ Depth(at[W.table]) = Len(walk) - 1
  BY <1>1, WalkFacts
<1>3. Len(walk) = 1 => W.i <= Half
  BY <1>1 DEF W, Shape, Deleting
<1>4. Half \in Nat /\ Entries \in Nat /\ Half < Entries
  BY VmmAssumption, SMT DEF Indices
<1>5. W.i \in Indices /\ (Len(walk) = 1 => W.i < Half)
  BY <1>1, <1>2, <1>3, <1>4, SMT DEF Ended, KernelHalf, Indices
<1>6. ~Visited(W.table, W.i)
  <2>1. Visited(W.table, W.i) <=> W.i < W.i
    BY <1>1, WalkFacts
  <2> QED BY <1>2, <2>1, SMT
<1>7. ~Shared(who, at, W.table, W.i)
  <2> SUFFICES ASSUME at[W.table] = Root, W.i >= Half PROVE FALSE
    BY DEF Shared
  <2>0. Depth(Root) = 0
    BY PathFacts
  <2>1. Len(walk) \in 1..Levels /\ Levels \in Nat /\ Len(walk) - 1 = 0
    BY <1>2, <2>0
  <2>2. Len(walk) = 1
    BY ONLY <2>1, SMT
  <2>3. W.i \in 0..Entries /\ W.i < Half
    BY <1>2, <1>5, <2>2
  <2> QED BY ONLY <1>4, <2>3, W.i >= Half, SMT
<1>8. Children(who, at) /\ Depth(at[W.table]) < Levels
  BY <1>2, SMT DEF Shape
<1> QED BY <1>2, <1>5, <1>6, <1>7, <1>8, SMT DEF Children, E

\* FreeLevelsTable keeps the invariant: the nested call begins at a table of the victim.
LEMMA FreeLevelsTableStep ==
    ASSUME Types, NEW who \in [Frames -> Owners], NEW at \in [Frames -> Paths], Shape(who, at), FreeLevelsTable
    PROVE  Types' /\ Shape(who, at)'
<1>0. /\ Visit /\ E # NULL /\ Len(walk) < Levels /\ walk # <<>>
      /\ UNCHANGED <<available, failed, entry, top, op, victim, mapping>>
  BY DEF FreeLevelsTable, Visit
<1>1. PICK L, e, t, j : L = Len(walk) /\ e = E /\ t = W.table /\ j = W.i
  OBVIOUS
<1>2. /\ L \in 1..Levels /\ DOMAIN walk = 1..L /\ Levels \in Nat /\ t \in In /\ who[t] = victim
      /\ Depth(at[t]) = L - 1 /\ victim # NULL /\ L < Levels /\ walk[L].table = t /\ walk[L].i = j
      /\ entry[t][j] = e /\ j \in Indices /\ (L = 1 => j < Half) /\ e \in In /\ Child(who, at, t, j, e)
  <2>1. /\ L \in 1..Levels /\ DOMAIN walk = 1..L /\ Levels \in Nat /\ t \in In /\ who[t] = victim
        /\ Depth(at[t]) = L - 1 /\ victim # NULL
    BY <1>0, <1>1, WalkFacts
  <2>2. /\ j \in Indices /\ (L = 1 => j < Half)
        /\ e # NULL => \/ e = Fb /\ L = Levels
                       \/ e \in In /\ Child(who, at, t, j, e)
    BY <1>0, <1>1, VisitFacts
  <2>3. L < Levels /\ e # NULL
    BY <1>0, <1>1
  <2>4. L # Levels
    BY ONLY <2>1, <2>3, SMT
  <2>5. walk[L].table = t /\ walk[L].i = j /\ entry[t][j] = e
    BY <1>1 DEF W, E
  <2> QED BY <2>1, <2>2, <2>3, <2>4, <2>5
<1>3. e \in Frames /\ who[e] = victim /\ Depth(at[e]) = L
  <2>1. e \in Frames /\ at[t] \in Paths
    BY <1>2, InFrames
  <2>2. Depth(Down(at[t], j)) = Depth(at[t]) + 1
    BY <1>2, <2>1, PathFacts
  <2>3. L - 1 + 1 = L
    BY <1>2, SMT
  <2> QED BY <1>2, <2>1, <2>2, <2>3 DEF Child
<1>4. /\ walk' \in Seq([table : Frames, i : 0..Entries]) /\ Len(walk') = L + 1 /\ DOMAIN walk' = 1..L + 1
      /\ \A k \in 1..L : walk'[k] = walk[k]
      /\ walk'[L + 1].table = e /\ walk'[L + 1].i = 0 /\ walk' # <<>>
  <2>1. 0 \in 0..Entries
    BY VmmAssumption, SMT
  <2>2. PICK r, S : r = [table |-> e, i |-> 0] /\ S = [table : Frames, i : 0..Entries]
    OBVIOUS
  <2>3. r \in S /\ r.table = e /\ r.i = 0
    BY <1>3, <2>1, <2>2
  <2>4. walk' = Append(walk, r) /\ walk \in Seq(S)
    BY <1>1, <2>2 DEF FreeLevelsTable, Types
  <2>5. walk' \in Seq(S) /\ Len(walk') = L + 1 /\ DOMAIN walk' = 1..L + 1
        /\ (\A k \in 1..L : walk'[k] = walk[k]) /\ walk'[L + 1] = r
    BY <1>1, <1>2, <2>3, <2>4, SMT
  <2>6. walk' # <<>>
    BY <1>2, <2>5, SMT
  <2> QED BY <2>2, <2>3, <2>5, <2>6
<1>5. \A f : \A i \in Indices : Visited(f, i)' = Visited(f, i)
  <2> SUFFICES ASSUME NEW f, NEW i \in Indices PROVE Visited(f, i)' <=> Visited(f, i)
    BY DEF Visited
  <2>1. ~(i < 0)
    BY SMT DEF Indices
  <2>2. \A k \in 1..L + 1 : k \in 1..L \/ k = L + 1
    BY <1>2, SMT
  <2>3. \A k \in 1..L : k \in 1..L + 1
    BY <1>2, SMT
  <2> QED BY <1>2, <1>4, <2>1, <2>2, <2>3 DEF Visited
<1>6. Types'
  BY <1>0, <1>4 DEF Types
<1>7. In' = In
  BY <1>0 DEF In, Held
<1>8. \A w : Present(w)' = Present(w) /\ TopOf(w)' = TopOf(w)
  BY <1>0 DEF Present, TopOf
<1>9. Placed(who, at)'
  BY <1>7, <1>8 DEF Shape, Placed
<1>10. Children(who, at)'
  BY <1>0, <1>7, <1>5 DEF Shape, Children
<1>11. Parents(who, at)'
  BY <1>0, <1>7, <1>5 DEF Shape, Parents
<1>12. KernelShared'
  BY <1>0 DEF Shape, KernelShared
<1>13. Mapped(who, at)' /\ Walking(who, at)'
  <2>1. Frees(who)
    BY <1>0, <1>7 DEF Frees
  <2> QED BY <2>1, FreesOnlyVictim
<1>14. Deleting(who, at)'
  <2>1. Deleting(who, at)
    BY DEF Shape
  <2>2. ASSUME NEW k \in 1..L + 1
        PROVE  /\ walk'[k].table \in In /\ who[walk'[k].table] = victim /\ Depth(at[walk'[k].table]) = k - 1
               /\ k < L + 1 => /\ walk'[k].i \in Indices /\ (k = 1 => walk'[k].i < Half)
                               /\ entry[walk'[k].table][walk'[k].i] = walk'[k + 1].table
    <3>1. CASE k = L + 1
      <4>1. walk'[k].table = e
        BY <1>4, <3>1
      <4>2. k - 1 = L /\ ~(k < L + 1)
        BY ONLY <1>2, <3>1, SMT
      <4> QED BY <1>2, <1>3, <4>1, <4>2
    <3>2. CASE k = L
      <4>1. k \in 1..L
        BY ONLY <1>2, <3>2, SMT
      <4>2. walk'[k] = walk[L] /\ walk'[k + 1].table = e
        BY <1>4, <3>2, <4>1
      <4> QED BY <1>2, <3>2, <4>2
    <3>3. CASE k \in 1..L - 1
      <4>1. k + 1 \in 1..L /\ k \in 1..L /\ k < L
        BY <1>2, <3>3, SMT
      <4>2. walk'[k] = walk[k] /\ walk'[k + 1] = walk[k + 1]
        BY <1>4, <4>1
      <4> QED BY <1>1, <1>2, <2>1, <4>1, <4>2 DEF Deleting
    <3>4. k = L + 1 \/ k = L \/ k \in 1..L - 1
      BY ONLY <1>2, k \in 1..L + 1, SMT
    <3> QED BY <3>1, <3>2, <3>3, <3>4
  <2>3. walk'[1].table = top[victim] /\ walk'[1].i <= Half /\ top[victim] # NULL /\ L + 1 <= Levels
    BY <1>0, <1>2, <1>4, <2>1, SMT DEF Deleting
  <2> QED BY <1>0, <1>2, <1>4, <1>7, <2>2, <2>3 DEF Deleting
<1> QED BY <1>6, <1>9, <1>10, <1>11, <1>12, <1>13, <1>14 DEF Shape

\* The deletion goes on to the next entry of its M-th table, which is its last one from now on.
Advances(M) ==
    /\ M \in DOMAIN walk /\ walk' \in Seq([table : Frames, i : 0..Entries]) /\ Len(walk') = M
    /\ \A k \in 1..M - 1 : walk'[k] = walk[k]
    /\ walk'[M].table = walk[M].table /\ walk'[M].i = walk[M].i + 1
    /\ walk[M].i \in Indices /\ (M = 1 => walk[M].i < Half)

\* Going on to the next entry marks one entry as visited and no other.
LEMMA AdvanceFacts ==
    ASSUME Types, NEW who \in [Frames -> Owners], NEW at \in [Frames -> Paths], Shape(who, at),
           NEW M, Advances(M), Frees(who), \A k \in 1..M : walk[k].table \in In'
    PROVE  /\ Deleting(who, at)'
           /\ \A g : \A i \in Indices :
                (\A k \in DOMAIN walk : walk[k].table = g => k <= M) =>
                  (Visited(g, i)' <=> Visited(g, i) \/ (g = walk[M].table /\ i = walk[M].i))
<1>0. /\ UNCHANGED <<top, victim>> /\ \A g \in In', i \in Indices : entry'[g][i] = entry[g][i]
  BY DEF Frees
<1>1. /\ M \in DOMAIN walk /\ Len(walk') = M
      /\ \A k \in 1..M - 1 : walk'[k] = walk[k]
      /\ walk'[M].table = walk[M].table /\ walk'[M].i = walk[M].i + 1
      /\ walk[M].i \in Indices /\ (M = 1 => walk[M].i < Half)
  BY DEF Advances
<1>2. walk # <<>>
  <2>1. DOMAIN <<>> = {}
    BY SMT
  <2> QED BY <1>1, <2>1
<1>3. Len(walk) \in 1..Levels /\ DOMAIN walk = 1..Len(walk) /\ Levels \in Nat /\ M \in 1..Len(walk)
      /\ victim # NULL /\ \A k \in DOMAIN walk : walk[k].i \in 0..Entries
  BY <1>1, <1>2, WalkFacts
<1>4. DOMAIN walk' = 1..M /\ walk' # <<>>
  <2>1. PICK S : S = [table : Frames, i : 0..Entries]
    OBVIOUS
  <2>2. walk' \in Seq(S)
    BY <2>1 DEF Advances
  <2>3. DOMAIN walk' = 1..M
    BY <1>1, <2>2, SMT
  <2>4. walk' # <<>>
    BY <1>1, <1>3, SMT
  <2> QED BY <2>3, <2>4
<1>5. \A k \in 1..M : walk'[k].table = walk[k].table
  <2>1. \A k \in 1..M : k = M \/ k \in 1..M - 1
    BY <1>3, SMT
  <2> QED BY <1>1, <2>1
<1>6. Deleting(who, at)'
  <2>1. Deleting(who, at)
    BY DEF Shape
  <2>2. ASSUME NEW k \in 1..M
        PROVE  /\ walk'[k].table \in In' /\ who[walk'[k].table] = victim /\ Depth(at[walk'[k].table]) = k - 1
               /\ k < M => /\ walk'[k].i \in Indices /\ (k = 1 => walk'[k].i < Half)
                           /\ entry'[walk'[k].table][walk'[k].i] = walk'[k + 1].table
    <3>1. k \in DOMAIN walk /\ walk[k].table \in In'
      BY <1>3, SMT
    <3>2. who[walk[k].table] = victim /\ Depth(at[walk[k].table]) = k - 1
      BY <2>1, <3>1 DEF Deleting
    <3>3. ASSUME k < M
          PROVE  /\ walk'[k].i \in Indices /\ (k = 1 => walk'[k].i < Half)
                 /\ entry'[walk'[k].table][walk'[k].i] = walk'[k + 1].table
      <4>1. k \in 1..M - 1 /\ k + 1 \in 1..M /\ k < Len(walk)
        BY <1>3, <3>3, SMT
      <4>2. /\ walk[k].i \in Indices /\ (k = 1 => walk[k].i < Half)
            /\ entry[walk[k].table][walk[k].i] = walk[k + 1].table
        BY <2>1, <3>1, <4>1 DEF Deleting
      <4> QED BY <1>0, <1>1, <1>5, <3>1, <4>1, <4>2, SMT
    <3> QED BY <1>5, <3>1, <3>2, <3>3
  <2>3. top[victim] # NULL /\ walk[1].table = top[victim] /\ walk[1].i <= Half /\ 1 \in 1..M
    BY <1>2, <1>3, <2>1, SMT DEF Deleting
  <2>4. walk'[1].i <= Half
    <3>1. CASE M = 1
      <4>1. walk[1].i \in Nat /\ walk[1].i < Half /\ walk'[1].i = walk[1].i + 1 /\ Half \in Nat
        BY <1>1, <3>1, VmmAssumption, SMT DEF Indices
      <4> QED BY <4>1, SMT
    <3>2. CASE M # 1
      <4>1. 1 \in 1..M - 1
        BY <1>3, <3>2, SMT
      <4> QED BY <1>1, <2>3, <4>1
    <3> QED BY <3>1, <3>2
  <2>5. M <= Levels
    BY <1>3, SMT
  <2>6. walk'[1].table = top[victim]
    BY <1>5, <2>3
  <2> QED BY <1>0, <1>1, <1>3, <1>4, <2>2, <2>3, <2>4, <2>5, <2>6 DEF Deleting
<1>7. ASSUME NEW g, NEW i \in Indices, \A k \in DOMAIN walk : walk[k].table = g => k <= M
      PROVE  Visited(g, i)' <=> Visited(g, i) \/ (g = walk[M].table /\ i = walk[M].i)
  <2>1. \A k \in DOMAIN walk : walk[k].table = g => k = M \/ k \in 1..M - 1
    BY <1>3, <1>7, SMT
  <2>2. \A k \in 1..M : k = M \/ k \in 1..M - 1
    BY <1>3, SMT
  <2>3. \A k \in 1..M - 1 : k \in DOMAIN walk /\ k \in 1..M
    BY <1>3, SMT
  <2>4. i < walk[M].i + 1 <=> i < walk[M].i \/ i = walk[M].i
    BY <1>1, SMT DEF Indices
  <2>5. M \in 1..M
    BY <1>3, SMT
  <2>6. ASSUME Visited(g, i)' PROVE Visited(g, i) \/ (g = walk[M].table /\ i = walk[M].i)
    <3>1. PICK k \in 1..M : walk'[k].table = g /\ i < walk'[k].i
      BY <1>4, <2>6 DEF Visited
    <3> QED BY <1>1, <2>2, <2>3, <2>4, <3>1 DEF Visited
  <2>7. ASSUME Visited(g, i) PROVE Visited(g, i)'
    <3>1. PICK k \in DOMAIN walk : walk[k].table = g /\ i < walk[k].i
      BY <2>7 DEF Visited
    <3>2. k \in 1..M /\ walk'[k].table = g /\ i < walk'[k].i
      BY <1>1, <2>1, <2>3, <2>4, <2>5, <3>1
    <3> QED BY <1>4, <3>2 DEF Visited
  <2>8. ASSUME g = walk[M].table, i = walk[M].i PROVE Visited(g, i)'
    BY <1>1, <1>4, <2>4, <2>5, <2>8 DEF Visited
  <2> QED BY <2>6, <2>7, <2>8
<1> QED BY <1>6, <1>7

\* The loop of free_levels goes on in its own table.
LEMMA NextEntryAdvances ==
    ASSUME Types, NEW who \in [Frames -> Owners], NEW at \in [Frames -> Paths], Shape(who, at), Visit,
           walk' = NextEntry
    PROVE  Advances(Len(walk))
<1>1. PICK L : L = Len(walk)
  OBVIOUS
<1>2. walk # <<>> /\ L \in 1..Levels /\ Levels \in Nat /\ DOMAIN walk = 1..L /\ walk[L].table \in Frames
  BY <1>1, WalkFacts DEF Visit, W
<1>3. walk[L].i \in Indices /\ (L = 1 => walk[L].i < Half)
  BY <1>1, VisitFacts DEF W
<1>4. PICK S, r : S = [table : Frames, i : 0..Entries] /\ r = [walk[L] EXCEPT !.i = walk[L].i + 1]
  OBVIOUS
<1>5. walk \in Seq(S)
  BY <1>4 DEF Types
<1>6. r \in S /\ r.table = walk[L].table /\ r.i = walk[L].i + 1
  <2>1. walk[L] \in S
    BY <1>2, <1>5, SMT
  <2>2. walk[L].i + 1 \in 0..Entries
    BY <1>3, VmmAssumption, SMT DEF Indices
  <2> QED BY <1>4, <2>1, <2>2
<1>7. walk' = [walk EXCEPT ![L] = r]
  BY <1>1, <1>4 DEF NextEntry
<1>8. walk' \in Seq(S) /\ Len(walk') = L /\ walk'[L] = r /\ \A k \in 1..L - 1 : walk'[k] = walk[k]
  BY <1>1, <1>2, <1>5, <1>6, <1>7, SMT
<1>9. L \in DOMAIN walk
  BY <1>2, SMT
<1>10. walk' \in Seq([table : Frames, i : 0..Entries])
  BY <1>4, <1>8
<1> QED BY <1>1, <1>3, <1>6, <1>8, <1>9, <1>10 DEF Advances

\* An entry without a frame is passed: nothing changes but the place of the deletion.
LEMMA SkipStep ==
    ASSUME Types, NEW who \in [Frames -> Owners], NEW at \in [Frames -> Paths], Shape(who, at), Visit,
           E \in {NULL, Fb}, walk' = NextEntry,
           UNCHANGED <<available, failed, entry, top, op, victim, mapping>>
    PROVE  Types' /\ Shape(who, at)'
<1>1. PICK M, t, j : M = Len(walk) /\ t = walk[M].table /\ j = walk[M].i
  OBVIOUS
<1>2. Advances(M)
  BY <1>1, NextEntryAdvances
<1>3. In' = In
  BY DEF In, Held
<1>4. Frees(who)
  BY <1>3 DEF Frees
<1>5. /\ M \in 1..Levels /\ DOMAIN walk = 1..M /\ Levels \in Nat
      /\ \A k \in 1..M : walk[k].table \in In
  <2>1. walk # <<>>
    BY DEF Visit
  <2>2. M \in 1..Levels /\ DOMAIN walk = 1..M /\ Levels \in Nat
    BY <1>1, <2>1, WalkFacts
  <2> QED BY <2>2 DEF Shape, Deleting
<1>6. \A k \in 1..M : walk[k].table \in In'
  BY <1>3, <1>5
<1>7. Deleting(who, at)'
  BY <1>2, <1>4, <1>6, AdvanceFacts
<1>8. \A g : \A i \in Indices : Visited(g, i)' <=> Visited(g, i) \/ (g = t /\ i = j)
  <2>1. \A k \in DOMAIN walk : k <= M
    BY <1>5, SMT
  <2> QED BY <1>1, <1>2, <1>4, <1>6, <2>1, AdvanceFacts
<1>9. Types'
  <2>1. walk' \in Seq([table : Frames, i : 0..Entries])
    BY <1>2 DEF Advances
  <2> QED BY <2>1 DEF Types
<1>10. \A w : Present(w)' = Present(w) /\ TopOf(w)' = TopOf(w)
  BY DEF Present, TopOf
<1>11. Placed(who, at)'
  BY <1>3, <1>10 DEF Shape, Placed
<1>12. Children(who, at)'
  BY <1>3, <1>8 DEF Shape, Children
<1>13. Parents(who, at)'
  <2> SUFFICES ASSUME NEW f \in In, at[f] # Root
               PROVE  \E g \in In, i \in Indices : Child(who, at, g, i, f) /\ entry[g][i] = f /\ ~Visited(g, i)'
    BY <1>3 DEF Parents, Child
  <2>1. PICK g \in In, i \in Indices : Child(who, at, g, i, f) /\ entry[g][i] = f /\ ~Visited(g, i)
    BY DEF Shape, Parents
  <2>2. f \in Frames
    BY InFrames
  <2>3. ~(g = t /\ i = j)
    BY <1>1, <2>1, <2>2, VmmAssumption DEF E, W
  <2> QED BY <1>8, <2>1, <2>3
<1>14. KernelShared'
  BY DEF Shape, KernelShared
<1>15. Mapped(who, at)' /\ Walking(who, at)'
  BY <1>4, FreesOnlyVictim
<1> QED BY <1>7, <1>9, <1>11, <1>12, <1>13, <1>14, <1>15 DEF Shape

\* The deletion frees the frame f, the entry j of its M-th table, which it has visited now.
LEMMA FreeFrameStep ==
    ASSUME Types, NEW who \in [Frames -> Owners], NEW at \in [Frames -> Paths], Shape(who, at),
           NEW M, Advances(M), NEW f, f \in In, Child(who, at, walk[M].table, walk[M].i, f),
           \A k \in DOMAIN walk : k <= M <=> walk[k].table # f,
           \A g \in In, i \in Indices : ~Child(who, at, f, i, g),
           FreePage(f), UNCHANGED <<top, op, victim, mapping>>
    PROVE  Types' /\ Shape(who, at)'
<1>1. PICK t, j : t = walk[M].table /\ j = walk[M].i
  OBVIOUS
<1>2. f \in Frames /\ at[f] \in Paths
  BY InFrames
<1>3. /\ available' = available \cup {f} /\ f \notin available /\ failed' = failed
      /\ entry' = [entry EXCEPT ![f] = Garbage]
  BY <1>2 DEF FreePage, PA!Return
<1>4. In' = In \ {f} /\ f \notin Held
  <2>1. f \notin Held /\ Held' = Held
    BY DEF In, Held
  <2> QED BY <1>3, <2>1 DEF In
<1>5. /\ entry' \in [Frames -> [Indices -> Frames \cup {NULL, Junk, Fb}]]
      /\ \A g \in Frames \ {f} : entry'[g] = entry[g]
  <2>1. entry \in [Frames -> [Indices -> Frames \cup {NULL, Junk, Fb}]]
    BY DEF Types
  <2>2. Garbage \in [Indices -> Frames \cup {NULL, Junk, Fb}]
    BY DEF Garbage
  <2> QED BY <1>2, <1>3, <2>1, <2>2
<1>6. M \in DOMAIN walk /\ walk # <<>>
  <2>1. M \in DOMAIN walk
    BY DEF Advances
  <2>2. DOMAIN <<>> = {}
    BY SMT
  <2> QED BY <2>1, <2>2
<1>7. /\ M \in 1..Len(walk) /\ DOMAIN walk = 1..Len(walk) /\ Len(walk) \in Nat
      /\ \A k \in DOMAIN walk : walk[k].table \in In /\ who[walk[k].table] = victim
  <2>1. Deleting(who, at)
    BY DEF Shape
  <2> QED BY <1>6, <2>1, WalkFacts, SMT DEF Deleting
<1>8. t \in In /\ who[t] = victim /\ who[f] = victim /\ j \in Indices /\ t # f
  <2>1. j \in Indices /\ M <= M
    BY <1>1, <1>7 DEF Advances
  <2> QED BY <1>1, <1>6, <1>7, <2>1 DEF Child
<1>9. Frees(who)
  <2>1. In' \subseteq In /\ \A g \in In \ In' : who[g] = victim
    BY <1>4, <1>8
  <2>2. \A g \in In', i \in Indices : entry'[g][i] = entry[g][i]
    BY <1>4, <1>5, InFrames
  <2>3. available' \cap Held = available \cap Held
    BY <1>3, <1>4
  <2> QED BY <2>1, <2>2, <2>3 DEF Frees
<1>10. \A k \in 1..M : walk[k].table \in In'
  <2> SUFFICES ASSUME NEW k \in 1..M PROVE walk[k].table \in In'
    OBVIOUS
  <2>1. k \in DOMAIN walk /\ k <= M
    BY <1>7, SMT
  <2> QED BY <1>4, <1>7, <2>1
<1>11. Deleting(who, at)'
  BY <1>9, <1>10, AdvanceFacts
<1>12. ASSUME NEW g \in In \ {f}, NEW i \in Indices
       PROVE  Visited(g, i)' <=> Visited(g, i) \/ (g = t /\ i = j)
  <2>1. \A k \in DOMAIN walk : walk[k].table = g => k <= M
    OBVIOUS
  <2> QED BY <1>1, <1>9, <1>10, <2>1, AdvanceFacts
<1>13. Removing(who, at, f, t, j)
  <2>1. \A g \in In \ {f}, i \in Indices : ~(g = t /\ i = j) =>
          entry'[g][i] = entry[g][i] /\ (Visited(g, i)' <=> Visited(g, i))
    BY <1>5, <1>12, InFrames
  <2>2. entry'[t][j] = entry[t][j] /\ Visited(t, j)'
    BY <1>5, <1>8, <1>12, InFrames
  <2>3. entry[t][j] # NULL
    <3>1. entry[t][j] = f
      BY <1>1, <1>8, OnlyChild, SMT
    <3> QED BY <1>2, <3>1, VmmAssumption
  <2> QED BY <1>1, <1>4, <1>8, <2>1, <2>2, <2>3 DEF Removing
<1>14. Placed(who, at)' /\ Children(who, at)' /\ Parents(who, at)' /\ KernelShared'
  BY <1>13, RemoveFrame
<1>15. Mapped(who, at)' /\ Walking(who, at)'
  BY <1>9, FreesOnlyVictim
<1>16. Types'
  <2>1. walk' \in Seq([table : Frames, i : 0..Entries])
    BY DEF Advances
  <2>2. available' \subseteq Frames
    BY <1>2, <1>3 DEF Types
  <2> QED BY <1>3, <1>5, <2>1, <2>2 DEF Types
<1> QED BY <1>11, <1>14, <1>15, <1>16 DEF Shape

\* FreeLevelsPage keeps the invariant: the page of a last-level entry is freed, which has
\* nothing below it.
LEMMA FreeLevelsPageStep ==
    ASSUME Types, NEW who \in [Frames -> Owners], NEW at \in [Frames -> Paths], Shape(who, at), FreeLevelsPage
    PROVE  Types' /\ Shape(who, at)'
<1>0. /\ Visit /\ (E = NULL \/ Len(walk) = Levels) /\ walk' = NextEntry /\ walk # <<>>
      /\ UNCHANGED <<top, op, victim, mapping>>
      /\ IF E = NULL THEN UNCHANGED <<available, failed, entry>> ELSE FreePage(E)
  BY DEF FreeLevelsPage, Visit
<1>1. CASE E = NULL
  BY <1>0, <1>1, SkipStep
<1>2. CASE E = Fb
  <2>1. UNCHANGED <<available, failed, entry>>
    BY <1>0, <1>2, VmmAssumption DEF FreePage
  <2> QED BY <1>0, <1>2, <2>1, SkipStep
<1>3. CASE E # NULL /\ E # Fb
  <2>1. PICK f : f = E
    OBVIOUS
  <2>2. /\ f \in In /\ Child(who, at, W.table, W.i, f) /\ Len(walk) = Levels /\ FreePage(f)
        /\ f \in Frames /\ at[f] \in Paths
    BY <1>0, <1>3, <2>1, VisitFacts, InFrames
  <2>3. /\ DOMAIN walk = 1..Levels /\ Levels \in Nat /\ Depth(at[W.table]) = Levels - 1
        /\ W.table \in Frames
    BY <1>0, <2>2, WalkFacts
  <2>4. W.i \in Indices
    BY <1>0, VisitFacts
  <2>5. Depth(at[f]) = Levels
    <3>1. at[W.table] \in Paths /\ at[f] = Down(at[W.table], W.i)
      BY <2>2, <2>3 DEF Child
    <3>2. Depth(at[f]) = Depth(at[W.table]) + 1
      BY <2>4, <3>1, PathFacts
    <3> QED BY <2>3, <3>2, SMT
  <2>6. \A k \in DOMAIN walk : k <= Levels <=> walk[k].table # f
    <3>1. \A k \in DOMAIN walk : Depth(at[walk[k].table]) = k - 1
      BY DEF Shape, Deleting
    <3> QED BY <2>3, <2>5, <3>1, SMT
  <2>7. \A g \in In, i \in Indices : ~Child(who, at, f, i, g)
    <3> SUFFICES ASSUME NEW g \in In, NEW i \in Indices, Child(who, at, f, i, g) PROVE FALSE
      OBVIOUS
    <3>1. at[g] = Down(at[f], i) /\ Depth(at[g]) <= Levels
      BY DEF Child, Shape, Placed
    <3> QED BY <2>2, <2>3, <2>5, <3>1, PathFacts, SMT
  <2>8. Advances(Levels)
    BY <1>0, <2>2, NextEntryAdvances
  <2>9. Child(who, at, walk[Levels].table, walk[Levels].i, f)
    BY <2>2 DEF W
  <2> QED BY <1>0, <2>2, <2>6, <2>7, <2>8, <2>9, FreeFrameStep
<1> QED BY <1>1, <1>2, <1>3

\* FreeLevelsReturn keeps the invariant: every entry of the table has been visited, so
\* that nothing is left below it.
LEMMA FreeLevelsReturnStep ==
    ASSUME Types, NEW who \in [Frames -> Owners], NEW at \in [Frames -> Paths], Shape(who, at), FreeLevelsReturn
    PROVE  Types' /\ Shape(who, at)'
<1>1. PICK L, M, f : L = Len(walk) /\ M = Len(walk) - 1 /\ f = W.table
  OBVIOUS
<1>2. /\ L > 1 /\ W.i \notin Indices /\ FreePage(f) /\ UNCHANGED <<top, op, victim, mapping>>
      /\ walk' = [SubSeq(walk, 1, M) EXCEPT ![M].i = @ + 1]
  BY <1>1, SMT DEF FreeLevelsReturn, Ended
<1>3. walk # <<>>
  <2>1. Len(<<>>) = 0
    OBVIOUS
  <2> QED BY <1>1, <1>2, <2>1, SMT
<1>4. /\ L \in 1..Levels /\ DOMAIN walk = 1..L /\ Levels \in Nat /\ M \in 1..L /\ M + 1 = L /\ M < L
      /\ f \in In /\ f \in Frames /\ W.i \in 0..Entries
  BY <1>1, <1>2, <1>3, WalkFacts, SMT
<1>5. \A k, l \in DOMAIN walk : walk[k].table = walk[l].table => k = l
  BY <1>3, WalkFacts
<1>6. /\ walk[M].i \in Indices /\ (M = 1 => walk[M].i < Half) /\ entry[walk[M].table][walk[M].i] = f
      /\ walk[M].table \in In /\ Depth(at[walk[M].table]) = M - 1
  <2>1. M \in DOMAIN walk /\ walk[M + 1].table = f
    BY <1>1, <1>4 DEF W
  <2> QED BY <1>1, <1>4, <2>1 DEF Shape, Deleting
<1>7. PICK t, j : t = walk[M].table /\ j = walk[M].i
  OBVIOUS
<1>8. ~Visited(t, j)
  <2>1. M \in DOMAIN walk /\ ~(j < j)
    BY <1>4, <1>6, <1>7, SMT DEF Indices
  <2> QED BY <1>5, <1>7, <2>1 DEF Visited
<1>9. ~Shared(who, at, t, j)
  <2> SUFFICES ASSUME at[t] = Root, j >= Half PROVE FALSE
    BY DEF Shared
  <2>1. Depth(Root) = 0
    BY PathFacts
  <2>2. M = 1
    BY <1>4, <1>6, <1>7, <2>1, SMT
  <2>3. j < Half /\ j \in Nat /\ Half \in Nat
    BY <1>6, <1>7, <2>2, VmmAssumption, SMT DEF Indices
  <2> QED BY <2>3, SMT
<1>10. Child(who, at, t, j, f)
  <2>1. Children(who, at) /\ Depth(at[t]) < Levels
    BY <1>4, <1>6, <1>7, SMT DEF Shape
  <2> QED BY <1>4, <1>6, <1>7, <1>8, <1>9, <2>1, VmmAssumption DEF Children
<1>11. \A k \in DOMAIN walk : k <= M <=> walk[k].table # f
  <2>1. L \in DOMAIN walk /\ walk[L].table = f
    BY <1>1, <1>4, SMT DEF W
  <2>2. \A k \in DOMAIN walk : k <= M <=> k # L
    BY <1>4, SMT
  <2> QED BY <1>5, <2>1, <2>2
<1>12. \A g \in In, i \in Indices : ~Child(who, at, f, i, g)
  <2> SUFFICES ASSUME NEW g \in In, NEW i \in Indices, Child(who, at, f, i, g) PROVE FALSE
    OBVIOUS
  <2>1. ~Visited(f, i)
    BY <1>4, OnlyChild
  <2>2. i < W.i
    BY <1>2, <1>4, VmmAssumption, SMT DEF Indices
  <2>3. Visited(f, i) <=> i < W.i
    BY <1>1, <1>3, WalkFacts
  <2> QED BY <2>1, <2>2, <2>3
<1>13. Advances(M)
  <2>1. PICK S, r, s : /\ S = [table : Frames, i : 0..Entries] /\ r = [walk[M] EXCEPT !.i = walk[M].i + 1]
                       /\ s = SubSeq(walk, 1, M)
    OBVIOUS
  <2>2. walk \in Seq(S)
    BY <2>1 DEF Types
  <2>3. walk[M] \in S
    BY <1>4, <2>2, SMT
  <2>4. r \in S /\ r.table = walk[M].table /\ r.i = walk[M].i + 1
    <3>1. walk[M].i + 1 \in 0..Entries
      BY <1>6, VmmAssumption, SMT DEF Indices
    <3> QED BY <2>1, <2>3, <3>1
  <2>5. s \in Seq(S) /\ Len(s) = M /\ \A k \in 1..M : s[k] = walk[k]
    <3>1. M \in Nat /\ Len(walk) \in Nat /\ M <= Len(walk) /\ 1 <= M
      BY <1>1, <1>4, SMT
    <3>2. \A k \in 1..M : k \in 1..Len(walk)
      BY <3>1, SMT
    <3>3. Len(s) = M
      BY <2>1, <2>2, <3>1, SMT
    <3>4. \A k \in 1..M : s[k] = walk[k]
      BY <2>1, <2>2, <3>1, <3>2, SMT
    <3>5. s \in Seq(S)
      <4>1. s = [k \in 1..M |-> walk[k]]
        BY <2>1, <2>2, <3>1, <3>2, <3>3, <3>4, SMT
      <4>2. \A k \in 1..M : walk[k] \in S
        BY <2>2, <3>1, <3>2, SMT
      <4>3. s \in [1..M -> S]
        BY <4>1, <4>2
      <4> QED BY <3>1, <4>3, SMT
    <3> QED BY <3>3, <3>4, <3>5
  <2>6. walk' = [s EXCEPT ![M] = r]
    <3>1. walk' = [s EXCEPT ![M] = [s[M] EXCEPT !.i = s[M].i + 1]]
      BY <1>2, <2>1
    <3>2. s[M] = walk[M]
      BY <1>4, <2>5, SMT
    <3> QED BY <2>1, <3>1, <3>2
  <2>7. walk' \in Seq(S) /\ Len(walk') = M /\ walk'[M] = r /\ \A k \in 1..M - 1 : walk'[k] = walk[k]
    BY <1>4, <2>4, <2>5, <2>6, SMT
  <2>8. M \in DOMAIN walk /\ walk' \in Seq([table : Frames, i : 0..Entries])
    BY <1>4, <2>1, <2>7
  <2> QED BY <1>6, <2>4, <2>7, <2>8 DEF Advances
<1>14. Child(who, at, walk[M].table, walk[M].i, f)
  BY <1>7, <1>10
<1> QED BY <1>2, <1>4, <1>11, <1>12, <1>13, <1>14, FreeFrameStep

\* When the outermost call ends, no frame is left right below the victim's top level.
LEMMA NothingBelowTop ==
    ASSUME Types, NEW who \in [Frames -> Owners], NEW at \in [Frames -> Paths], Shape(who, at),
           Len(walk) = 1, Ended
    PROVE  /\ \A g \in In : who[g] = victim /\ at[g] = Root => g = W.table
           /\ \A h \in In, i \in Indices : ~Child(who, at, W.table, i, h)
<1>1. walk # <<>>
  <2>1. Len(<<>>) = 0
    OBVIOUS
  <2>2. walk = <<>> => Len(walk) = 0
    BY <2>1
  <2> QED BY <2>2, SMT
<1>2. PICK t : t = W.table
  OBVIOUS
<1>3. /\ t \in In /\ who[t] = victim /\ Depth(at[t]) = Len(walk) - 1 /\ W.i \in 0..Entries
      /\ victim \in Procs /\ victim # "kernel" /\ t \in Frames /\ at[t] \in Paths
  BY <1>1, <1>2, WalkFacts, InFacts
<1>4. at[t] = Root
  <2>1. Depth(at[t]) = 0
    BY <1>3, SMT
  <2> QED BY <1>3, <2>1, PathFacts
<1>5. t = TopOf(victim) /\ t = top[victim] /\ top[victim] # NULL
  BY <1>3, <1>4, TopFacts DEF Present, TopOf
<1>6. W.i >= Half /\ Half \in Nat
  <2>1. W.i \in KernelHalf /\ Half \in Nat
    BY VmmAssumption, SMT DEF Ended, Indices
  <2> QED BY <2>1, SMT DEF KernelHalf
<1>7. ASSUME NEW h \in In, NEW i \in Indices, Child(who, at, t, i, h) PROVE FALSE
  <2>1. entry[t][i] = h /\ ~Visited(t, i)
    BY <1>3, <1>7, OnlyChild
  <2>2. Visited(t, i) <=> i < W.i
    BY <1>1, <1>2, WalkFacts
  <2>3. i \in KernelHalf /\ ~(i < Half)
    BY <1>3, <1>6, <2>1, <2>2, VmmAssumption, SMT DEF Indices, KernelHalf
  <2>4. KernelShared /\ Children(who, at)
    BY DEF Shape
  <2>5. entry[KTop][i] = h /\ entry[KTop][i] # NULL
    BY <1>3, <1>5, <2>1, <2>3, <2>4 DEF KernelShared
  <2>6. KTop \in In /\ who[KTop] = "kernel" /\ at[KTop] = Root
    BY TopFacts
  <2>7. ~Shared(who, at, KTop, i) /\ ~Visited(KTop, i)
    BY <1>3, <2>6, VisitedIsVictim DEF Shared
  <2>8. Depth(Root) < Levels /\ Depth(Root) # Levels - 1
    BY PathFacts, VmmAssumption, SMT
  <2>9. Child(who, at, KTop, i, h)
    BY <2>4, <2>5, <2>6, <2>7, <2>8 DEF Children
  <2> QED BY <1>3, <1>7, <2>6, <2>9 DEF Child
<1>8. \A g \in In : at[g] = Root => g = TopOf(who[g])
  BY TopFacts
<1> QED BY <1>2, <1>5, <1>7, <1>8

\* DeleteTop keeps the invariant if the top level is the last frame of the victim.
LEMMA DeleteTopStep ==
    ASSUME Types, NEW who \in [Frames -> Owners], NEW at \in [Frames -> Paths], Shape(who, at), DeleteTop,
           \A g \in In : who[g] = victim => g = W.table
    PROVE  Types' /\ Shape(who, at)'
<1>1. PICK f, v : f = W.table /\ v = victim
  OBVIOUS
<1>2. /\ Len(walk) = 1 /\ Ended /\ FreePage(f) /\ walk' = <<>> /\ victim' = NULL
      /\ top' = [top EXCEPT ![v] = NULL] /\ UNCHANGED <<op, mapping>>
  BY <1>1 DEF DeleteTop
<1>3. walk # <<>>
  <2>1. Len(<<>>) = 0
    OBVIOUS
  <2>2. walk = <<>> => Len(walk) = 0
    BY <2>1
  <2> QED BY <1>2, <2>2, SMT
<1>4. f \in In /\ f \in Frames /\ who[f] = v /\ v \in Procs /\ v # "kernel" /\ v # NULL
  BY <1>1, <1>3, WalkFacts
<1>5. \A g \in In : who[g] = v => g = f
  BY <1>1
<1>6. /\ available' = available \cup {f} /\ f \notin available /\ failed' = failed
      /\ entry' = [entry EXCEPT ![f] = Garbage]
  BY <1>2, <1>4 DEF FreePage, PA!Return
<1>7. In' = In \ {f} /\ f \notin Held
  <2>1. f \notin Held /\ Held' = Held
    BY <1>2, <1>4 DEF In, Held
  <2> QED BY <1>6, <2>1 DEF In
<1>8. /\ entry' \in [Frames -> [Indices -> Frames \cup {NULL, Junk, Fb}]]
      /\ \A g \in In \ {f} : entry'[g] = entry[g]
  <2>1. entry \in [Frames -> [Indices -> Frames \cup {NULL, Junk, Fb}]]
    BY DEF Types
  <2>2. Garbage \in [Indices -> Frames \cup {NULL, Junk, Fb}]
    BY DEF Garbage
  <2> QED BY <1>4, <1>6, <2>1, <2>2, InFrames
<1>9. /\ top' \in [Procs -> Frames \cup {NULL}] /\ top'[v] = NULL /\ \A q \in Procs \ {v} : top'[q] = top[q]
  BY <1>2, <1>4 DEF Types
<1>10. Types'
  <2>1. available' \subseteq Frames
    BY <1>4, <1>6 DEF Types
  <2>2. <<>> \in Seq([table : Frames, i : 0..Entries])
    BY SMT
  <2> QED BY <1>2, <1>6, <1>8, <1>9, <2>1, <2>2 DEF Types
<1>11. \A w \in Owners \ {v} : Present(w)' = Present(w) /\ TopOf(w)' = TopOf(w)
  BY <1>9, VmmAssumption DEF Present, TopOf, Owners
<1>12. ~Present(v)'
  BY <1>4, <1>9 DEF Present
<1>13. \A g \in In \ {f} : who[g] \in Owners \ {v}
  BY <1>5, InFrames
<1>14. Placed(who, at)'
  <2>1. Placed(who, at)
    BY DEF Shape
  <2>2. ASSUME NEW w \in Owners, Present(w)'
        PROVE  TopOf(w)' \in In' /\ who[TopOf(w)'] = w /\ at[TopOf(w)'] = Root
    <3>1. w # v
      BY <1>12, <2>2
    <3>2. TopOf(w) \in In /\ who[TopOf(w)] = w /\ at[TopOf(w)] = Root /\ TopOf(w)' = TopOf(w)
      BY <1>11, <2>1, <2>2, <3>1 DEF Placed
    <3> QED BY <1>4, <1>7, <3>1, <3>2
  <2>3. \A g \in In' : Present(who[g])'
    BY <1>7, <1>11, <1>13, <2>1 DEF Placed
  <2> QED BY <1>7, <2>1, <2>2, <2>3 DEF Placed
<1>15. \A g \in In \ {f}, i \in Indices : ~Visited(g, i)
  BY <1>1, <1>5, VisitedIsVictim
<1>16. \A g, i : ~Visited(g, i)'
  <2>1. DOMAIN <<>> = {}
    BY SMT
  <2> QED BY <1>2, <2>1 DEF Visited
<1>17. Children(who, at)'
  <2> SUFFICES ASSUME NEW g \in In \ {f}, NEW i \in Indices, Depth(at[g]) < Levels,
                      ~Shared(who, at, g, i), entry'[g][i] # NULL
               PROVE  \/ entry'[g][i] = Fb /\ Depth(at[g]) = Levels - 1
                      \/ entry'[g][i] \in In \ {f} /\ Child(who, at, g, i, entry'[g][i])
    BY <1>7 DEF Children, Shared, Child
  <2>1. \/ entry[g][i] = Fb /\ Depth(at[g]) = Levels - 1
        \/ entry[g][i] \in In /\ Child(who, at, g, i, entry[g][i])
    BY <1>8, <1>15 DEF Shape, Children
  <2>2. Child(who, at, g, i, entry[g][i]) => entry[g][i] # f
    BY <1>4, <1>5 DEF Child
  <2> QED BY <1>8, <2>1, <2>2
<1>18. Parents(who, at)'
  <2> SUFFICES ASSUME NEW h \in In \ {f}, at[h] # Root
               PROVE  \E g \in In \ {f}, i \in Indices :
                        Child(who, at, g, i, h) /\ entry'[g][i] = h /\ ~Visited(g, i)'
    BY <1>7 DEF Parents, Child
  <2>1. PICK g \in In, i \in Indices : Child(who, at, g, i, h) /\ entry[g][i] = h /\ ~Visited(g, i)
    BY DEF Shape, Parents
  <2>2. g # f
    BY <1>4, <1>5, <2>1 DEF Child
  <2> QED BY <1>8, <1>16, <2>1, <2>2
<1>19. KernelShared'
  <2>1. KTop \in In \ {f}
    BY <1>4, TopFacts
  <2>2. \A q \in Procs \ {v} : top[q] # NULL => top[q] \in In \ {f}
    <3> SUFFICES ASSUME NEW q \in Procs \ {v}, top[q] # NULL PROVE top[q] \in In \ {f}
      OBVIOUS
    <3>1. Present(q) /\ q \in Owners /\ TopOf(q) = top[q]
      BY VmmAssumption DEF Present, Owners, TopOf
    <3>2. top[q] \in In /\ who[top[q]] = q
      <4>1. TopOf(q) \in In /\ who[TopOf(q)] = q
        BY <3>1, TopFacts
      <4> QED BY <3>1, <4>1
    <3> QED BY <1>4, <3>2
  <2>3. KernelShared
    BY DEF Shape
  <2>4. \A i \in Indices : entry'[KTop][i] = entry[KTop][i]
    BY <1>8, <2>1
  <2>5. ASSUME NEW q \in Procs, top'[q] # NULL, NEW i \in KernelHalf
        PROVE  entry'[top'[q]][i] = entry'[KTop][i]
    <3>1. q # v /\ top'[q] = top[q] /\ top[q] # NULL
      BY <1>9, <2>5
    <3> QED BY <1>8, <2>1, <2>2, <2>3, <2>5, <3>1, SMT DEF KernelShared
  <2> QED BY <2>3, <2>4, <2>5 DEF KernelShared
<1>20. Live' = Live
  <2>1. \A q \in Procs : q # NULL
    BY VmmAssumption
  <2> QED BY <1>1, <1>2, <1>9, <2>1 DEF Live
<1>21. Mapped(who, at)'
  <2>1. Mapped(who, at)
    BY DEF Shape
  <2>2. ASSUME NEW w \in Live \cup {"kernel"}, NEW a \in Addrs(w) PROVE MapsExactly(who, at, w, a)'
    <3>1. MapsExactly(who, at, w, a)
      BY <2>1 DEF Mapped
    <3>2. w # v /\ w \in Owners
      BY <1>1, WhoIsNotVictim
    <3>3. \A g \in In \ {f} : Maps(who, at, w, a, g) => entry'[g][a[Levels]] = mapping[w][a]
      BY <1>8, <3>1 DEF MapsExactly
    <3>4. mapping[w][a] # NULL => \E g \in In \ {f} : Maps(who, at, w, a, g)
      BY <1>4, <3>1, <3>2 DEF MapsExactly, Maps
    <3> QED BY <1>2, <1>7, <3>3, <3>4 DEF MapsExactly
  <2>3. \A w \in Live' \cup {"kernel"} : \A a \in Addrs(w) : MapsExactly(who, at, w, a)'
    BY <1>20, <2>2
  <2>4. \A q \in Procs \ Live' : \A a \in UserAddrs : mapping'[q][a] = NULL
    BY <1>2, <1>20, <2>1 DEF Mapped
  <2>5. \A a \in KernelAddrs : mapping'["kernel"][a] # Fb
    BY <1>2, <2>1 DEF Mapped
  <2> QED BY <2>3, <2>4, <2>5, MappedNext
<1>22. Walking(who, at)'
  <2>1. Walking(who, at)
    BY DEF Shape
  <2>2. op # Off => op.table \in In'
    BY <1>1, <1>4, <1>7, <2>1, WhoIsNotVictim DEF Walking
  <2>3. op.do = "map" /\ op.phys \in Frames \ available => op.phys \in Frames \ available'
    BY <1>6, <1>7 DEF Held
  <2> QED BY <1>2, <1>20, <2>1, <2>2, <2>3 DEF Walking
<1>23. Deleting(who, at)'
  <2>1. DOMAIN <<>> = {} /\ Len(<<>>) = 0 /\ 0 <= Levels
    BY VmmAssumption, SMT
  <2> QED BY <1>2, <2>1 DEF Deleting
<1> QED BY <1>10, <1>14, <1>17, <1>18, <1>19, <1>21, <1>22, <1>23 DEF Shape

\* setup_vmm establishes the invariant: the kernel's top level and its tables are in place.
LEMMA InitEstablishes ==
    Init => IInv
<1> SUFFICES ASSUME Init PROVE IInv
  OBVIOUS
<1>1. PICK half : half = CHOOSE h \in Halves : TRUE
  OBVIOUS
<1>2. /\ half \in [KernelHalf -> Frames \ {KTop}]
      /\ \A i, j \in KernelHalf : half[i] = half[j] => i = j
  <2>1. half \in Halves
    BY <1>1, VmmAssumption
  <2> QED BY <2>1 DEF Halves
<1>3. PICK tables : tables = {half[i] : i \in KernelHalf}
  OBVIOUS
<1>4. /\ available = Frames \ (tables \cup {KTop})
      /\ entry = [f \in Frames |->
                    IF f = KTop THEN [i \in Indices |-> IF i \in KernelHalf THEN half[i] ELSE NULL]
                    ELSE IF f \in tables THEN Empty ELSE Garbage]
  BY <1>1, <1>3, SMT DEF Init, SetupVmm
<1>5. /\ failed = FALSE /\ top = [p \in Procs |-> NULL] /\ op = Off /\ walk = <<>> /\ victim = NULL
      /\ mapping = [w \in Owners |-> [a \in Addrs(w) |-> NULL]]
  BY DEF Init, Owners, Addrs
<1>6. KTop \in Frames /\ tables \subseteq Frames /\ KTop \notin tables
  <2>1. KTop \in Frames
    BY VmmAssumption DEF KTop
  <2> QED BY <1>2, <1>3, <2>1
<1>7. In = tables \cup {KTop}
  BY <1>4, <1>5, <1>6, IdleHolds
<1>8. KernelHalf \subseteq Indices /\ \A i \in Indices : i \in KernelHalf <=> ~(i < Half)
  BY VmmAssumption, SMT DEF KernelHalf, Indices
<1>9. /\ \A i \in KernelHalf : entry[KTop][i] = half[i] /\ half[i] \in tables
      /\ \A i \in Indices \ KernelHalf : entry[KTop][i] = NULL
      /\ \A f \in tables, i \in Indices : entry[f][i] = NULL
  BY <1>2, <1>3, <1>4, <1>6, <1>8 DEF Empty
<1>10. Types
  <2>1. entry \in [Frames -> [Indices -> Frames \cup {NULL, Junk, Fb}]]
    <3>1. [i \in Indices |-> IF i \in KernelHalf THEN half[i] ELSE NULL]
            \in [Indices -> Frames \cup {NULL, Junk, Fb}]
      BY <1>2
    <3>2. Empty \in [Indices -> Frames \cup {NULL, Junk, Fb}]
      BY DEF Empty
    <3>3. Garbage \in [Indices -> Frames \cup {NULL, Junk, Fb}]
      BY DEF Garbage
    <3> QED BY <1>4, <3>1, <3>2, <3>3
  <2>2. Off \in Ops /\ Off.do = "off"
    BY VmmAssumption, SMT DEF Off, Ops
  <2>3. <<>> \in Seq([table : Frames, i : 0..Entries])
    BY SMT
  <2> QED BY <1>4, <1>5, <2>1, <2>2, <2>3 DEF Types
<1>11. PICK where : where = [f \in tables |-> CHOOSE i \in KernelHalf : half[i] = f]
  OBVIOUS
<1>12. \A f \in tables : where[f] \in KernelHalf /\ half[where[f]] = f
  BY <1>3, <1>11
<1>13. \A i \in KernelHalf : where[half[i]] = i
  BY <1>2, <1>3, <1>12
<1>14. PICK who, at : /\ who = [f \in Frames |-> "kernel"]
                      /\ at = [f \in Frames |-> IF f \in tables THEN Down(Root, where[f]) ELSE Root]
  OBVIOUS
<1>15. /\ who \in [Frames -> Owners] /\ at \in [Frames -> Paths]
       /\ \A f \in In : who[f] = "kernel" /\ f \in Frames
       /\ at[KTop] = Root /\ \A f \in tables : at[f] = Down(Root, where[f]) /\ at[f] # Root /\ Depth(at[f]) = 1
  <2>1. \A f \in tables : where[f] \in Indices
    BY <1>8, <1>12
  <2>2. Root \in Paths /\ Depth(Root) = 0
    BY PathFacts
  <2>3. \A f \in tables : /\ Down(Root, where[f]) \in Paths /\ Down(Root, where[f]) # Root
                          /\ Depth(Down(Root, where[f])) = 1
    BY <2>1, <2>2, PathFacts, SMT
  <2> QED BY <1>6, <1>7, <1>14, <2>2, <2>3 DEF Owners
<1>16. \A f, i : ~Visited(f, i)
  <2>1. DOMAIN <<>> = {}
    BY SMT
  <2> QED BY <1>5, <2>1 DEF Visited
<1>17. \A w \in Owners : Present(w) <=> w = "kernel"
  BY <1>5 DEF Present, Owners
<1>18. Placed(who, at)
  <2>1. \A f \in In : Present(who[f]) /\ Depth(at[f]) <= Levels /\ Known(who[f], at[f])
    <3>1. Depth(Root) = 0
      BY PathFacts
    <3> QED BY <1>7, <1>15, <3>1, VmmAssumption, SMT DEF Known, Present
  <2>2. \A f, g \in In : at[f] = at[g] => f = g
    <3>1. ASSUME NEW f \in tables, NEW g \in tables, at[f] = at[g] PROVE f = g
      <4>1. where[f] \in Indices /\ where[g] \in Indices /\ Root \in Paths
        BY <1>8, <1>12, PathFacts
      <4>2. where[f] = where[g]
        BY <1>15, <3>1, <4>1, DownInjective, SMT
      <4> QED BY <1>12, <4>2
    <3> QED BY <1>7, <1>15, <3>1
  <2>3. TopOf("kernel") = KTop /\ KTop \in In
    BY <1>7 DEF TopOf
  <2> QED BY <1>15, <1>17, <2>1, <2>2, <2>3 DEF Placed
<1>19. Children(who, at)
  <2> SUFFICES ASSUME NEW f \in In, NEW i \in Indices, entry[f][i] # NULL
               PROVE  entry[f][i] \in In /\ Child(who, at, f, i, entry[f][i])
    BY DEF Children
  <2>1. f = KTop /\ i \in KernelHalf
    BY <1>7, <1>9
  <2>2. half[i] \in tables /\ entry[f][i] = half[i] /\ at[half[i]] = Down(Root, i)
    BY <1>9, <1>13, <1>15, <2>1, SMT
  <2> QED BY <1>7, <1>15, <2>1, <2>2 DEF Child
<1>20. Parents(who, at)
  <2> SUFFICES ASSUME NEW f \in tables
               PROVE  \E g \in In, i \in Indices : Child(who, at, g, i, f) /\ entry[g][i] = f /\ ~Visited(g, i)
    BY <1>7, <1>15 DEF Parents
  <2>1. where[f] \in Indices /\ Child(who, at, KTop, where[f], f) /\ entry[KTop][where[f]] = f /\ KTop \in In
    BY <1>7, <1>8, <1>9, <1>12, <1>15 DEF Child
  <2> QED BY <1>16, <2>1
<1>21. KernelShared
  <2>1. \A i \in KernelHalf : half[i] # NULL
    BY <1>2, VmmAssumption
  <2> QED BY <1>5, <1>8, <1>9, <2>1 DEF KernelShared
<1>22. Mapped(who, at)
  <2>1. Live = {} /\ "kernel" \in Owners
    BY <1>5 DEF Live, Owners
  <2>2. \A a \in Addrs("kernel") : mapping["kernel"][a] = NULL
    BY <1>5, <2>1
  <2>3. \A p \in Procs : \A a \in UserAddrs : mapping[p][a] = NULL
    <3> SUFFICES ASSUME NEW p \in Procs, NEW a \in UserAddrs PROVE mapping[p][a] = NULL
      OBVIOUS
    <3>1. p \in Owners /\ a \in Addrs(p)
      BY VmmAssumption DEF Owners, Addrs
    <3> QED BY <1>5, <3>1
  <2>4. ASSUME NEW a \in Addrs("kernel") PROVE MapsExactly(who, at, "kernel", a)
    <3>1. ASSUME NEW g \in In, Maps(who, at, "kernel", a, g) PROVE entry[g][a[Levels]] = NULL
      <4>1. /\ a[Levels] \in Indices /\ Depth(a) = Levels /\ Levels > 1 /\ Down(at[g], a[Levels]) = a
            /\ Root \in Paths
        BY <2>1, <3>1, AddrFacts, PathFacts, SMT DEF Maps
      <4>2. g # KTop
        <5> SUFFICES ASSUME g = KTop PROVE FALSE
          OBVIOUS
        <5>1. Down(Root, a[Levels]) = a
          BY <1>15, <4>1
        <5>2. Depth(a) = 1
          BY <4>1, <5>1, PathFacts, SMT
        <5> QED BY <4>1, <5>2, SMT
      <4> QED BY <1>7, <1>9, <4>1, <4>2
    <3> QED BY <2>2, <3>1 DEF MapsExactly
  <2>5. \A a \in KernelAddrs : mapping["kernel"][a] # Fb
    BY <2>2, VmmAssumption DEF Addrs
  <2> QED BY <2>1, <2>3, <2>4, <2>5 DEF Mapped
<1>23. Walking(who, at)
  BY <1>5 DEF Walking
<1>24. Deleting(who, at)
  <2>1. DOMAIN <<>> = {} /\ Len(<<>>) = 0 /\ 0 <= Levels
    BY VmmAssumption, SMT
  <2> QED BY <1>5, <2>1 DEF Deleting
<1>25. Shape(who, at)
  BY <1>15, <1>18, <1>19, <1>20, <1>21, <1>22, <1>23, <1>24 DEF Shape
<1> QED BY <1>10, <1>15, <1>25 DEF IInv

\* SubSeq, of which Tree is made, takes an address up to a level.
LEMMA PrefixIsUpto ==
    ASSUME NEW a \in Paths, NEW n \in 1..Depth(a)
    PROVE  SubSeq(a, 1, n) = Upto(a, n)
<1>1. n \in Nat /\ Len(a) \in Nat /\ n <= Len(a) /\ 1 <= n /\ a \in Seq(Indices)
  BY SMT DEF Paths, Depth
<1>2. \A k \in 1..n : k \in 1..Len(a)
  BY <1>1, SMT
<1>3. PICK s : s = SubSeq(a, 1, n)
  OBVIOUS
<1>4. Len(s) = n
  BY <1>1, <1>3, SMT
<1>5. \A k \in 1..n : s[k] = a[k]
  BY <1>1, <1>2, <1>3, SMT
<1>6. s = [k \in 1..n |-> a[k]]
  BY <1>1, <1>2, <1>3, <1>4, <1>5, SMT
<1> QED BY <1>3, <1>6 DEF Upto

\* Every address is a path of full depth.
LEMMA AllAddrs ==
    ASSUME NEW a \in UserAddrs \cup KernelAddrs
    PROVE  a \in Paths /\ Depth(a) = Levels /\ Levels \in Nat /\ Levels > 1
BY VmmAssumption, SMT DEF Paths, Depth

\* What the walk along a has read, at level n of the tables of w: the table there, or
\* nothing.
Found(who, at, w, a, n, e) ==
    /\ \A g \in In : who[g] = w /\ at[g] = Upto(a, n) => e = g
    /\ n < Levels => e = NULL \/ (e \in In /\ who[e] = w /\ at[e] = Upto(a, n))

\* At the top level the walk along an address has read the top level.
LEMMA FoundAtTop ==
    ASSUME Types, NEW who, NEW at, Shape(who, at), NEW w \in Live \cup {"kernel"}, NEW a \in Addrs(w)
    PROVE  Found(who, at, w, a, 0, TopOf(w))
<1>1. w \in Owners /\ Present(w) /\ a \in Paths /\ Depth(a) = Levels /\ Levels \in Nat
  BY WhoIsNotVictim, AddrFacts
<1>2. 0 \in 0..Depth(a)
  BY <1>1, SMT
<1>3. Upto(a, 0) = Root
  BY <1>1, <1>2, UptoPath
<1>4. TopOf(w) \in In /\ who[TopOf(w)] = w /\ at[TopOf(w)] = Root
  BY <1>1, TopFacts
<1>5. \A g \in In : at[g] = Root => g = TopOf(who[g])
  BY TopFacts
<1> QED BY <1>3, <1>4, <1>5 DEF Found

\* If it has read what is right so far, it reads what is right on the next level.
LEMMA FoundNext ==
    ASSUME Types, NEW who, NEW at, Shape(who, at), NEW w \in Live \cup {"kernel"}, NEW a \in Addrs(w),
           NEW n \in 1..Levels, NEW m, m = n - 1, NEW e, Found(who, at, w, a, m, e)
    PROVE  Found(who, at, w, a, n, Follow(e, a[n]))
<1>1. /\ w \in Owners /\ w # victim /\ Present(w) /\ a \in Paths /\ Depth(a) = Levels /\ Levels \in Nat
      /\ w = "kernel" <=> a[1] >= Half
  BY WhoIsNotVictim, AddrFacts
<1>2. m \in 0..Depth(a) /\ n \in 0..Depth(a) /\ n > 0 /\ m < Levels /\ (n < Levels => m # Levels - 1)
  BY <1>1, SMT
<1>3. PICK j, x, y : j = a[n] /\ x = Upto(a, m) /\ y = Upto(a, n)
  OBVIOUS
<1>4. j \in Indices /\ x \in Paths /\ y = Down(x, j) /\ Depth(x) = m
  BY <1>1, <1>2, <1>3, UptoPath
<1>5. y # Root /\ Depth(Root) = 0
  BY <1>4, PathFacts
<1>6. /\ \A g \in In : who[g] = w /\ at[g] = x => e = g
      /\ e = NULL \/ (e \in In /\ who[e] = w /\ at[e] = x)
  BY <1>2, <1>3 DEF Found
<1>7. CASE e = NULL
  <2>1. Follow(e, j) = NULL
    BY <1>7, VmmAssumption DEF Follow
  <2>2. ASSUME NEW g \in In, who[g] = w, at[g] = y PROVE FALSE
    <3>1. PICK h \in In, i \in Indices : Child(who, at, h, i, g)
      BY <1>5, <2>2 DEF Shape, Parents
    <3>2. who[h] = w /\ Down(at[h], i) = Down(x, j) /\ at[h] \in Paths /\ h \in Frames
      BY <1>4, <2>2, <3>1, InFacts DEF Child
    <3>3. at[h] = x
      BY <1>4, <3>1, <3>2, DownInjective
    <3> QED BY <1>6, <1>7, <3>2, <3>3, VmmAssumption
  <2> QED BY <1>3, <2>1, <2>2 DEF Found
<1>8. CASE e # NULL
  <2>1. e \in In /\ who[e] = w /\ at[e] = x /\ e \in Frames
    BY <1>6, <1>8, InFrames
  <2>2. Follow(e, j) = entry[e][j]
    BY <2>1 DEF Follow
  <2>3. ASSUME NEW g \in In, who[g] = w, at[g] = y PROVE entry[e][j] = g
    <3>1. Child(who, at, e, j, g)
      BY <1>4, <2>1, <2>3 DEF Child
    <3> QED BY <1>4, <2>1, <3>1, OnlyChild, SMT
  <2>4. ~Visited(e, j)
    BY <1>1, <2>1, VisitedIsVictim
  <2>5. ~Shared(who, at, e, j)
    <3> SUFFICES ASSUME x = Root, w # "kernel", j >= Half PROVE FALSE
      BY <2>1 DEF Shared
    <3>1. n = 1
      BY <1>4, <1>5, SMT
    <3> QED BY <1>1, <1>3, <3>1
  <2>6. ASSUME n < Levels, entry[e][j] # NULL
        PROVE  entry[e][j] \in In /\ who[entry[e][j]] = w /\ at[entry[e][j]] = y
    <3>1. Depth(at[e]) < Levels /\ Depth(at[e]) # Levels - 1
      BY <1>2, <1>4, <2>1, <2>6
    <3>2. Children(who, at)
      BY DEF Shape
    <3>3. entry[e][j] \in In /\ Child(who, at, e, j, entry[e][j])
      BY <1>4, <2>1, <2>4, <2>5, <2>6, <3>1, <3>2 DEF Children
    <3> QED BY <1>4, <2>1, <3>3 DEF Child
  <2> QED BY <1>3, <2>2, <2>3, <2>6 DEF Found
<1> QED BY <1>7, <1>8

\* What the walk has read, if it is a frame, is a table in use of that level.
Right(at, n, e) == e \in Frames => e \in In /\ Depth(at[e]) = n

\* From a table in use, an entry leads to a frame in use, or to none.
LEMMA RightNext ==
    ASSUME Types, NEW who, NEW at, Shape(who, at), victim = NULL,
           NEW n \in 1..Levels, NEW m, m = n - 1, NEW i \in Indices, NEW f, Right(at, m, f)
    PROVE  Right(at, n, Follow(f, i))
<1> SUFFICES ASSUME Follow(f, i) \in Frames PROVE Follow(f, i) \in In /\ Depth(at[Follow(f, i)]) = n
  BY DEF Right
<1>1. Levels \in Nat /\ Levels > 1 /\ m < Levels /\ m \in Nat /\ m + 1 = n
  BY VmmAssumption, SMT
<1>2. f \in Frames /\ Follow(f, i) = entry[f][i] /\ entry[f][i] \in Frames
  BY VmmAssumption DEF Follow
<1>3. f \in In /\ Depth(at[f]) = m
  BY <1>2 DEF Right
<1>4. ASSUME NEW g \in In, Depth(at[g]) = m, entry[g][i] \in Frames, ~Shared(who, at, g, i)
      PROVE  entry[g][i] \in In /\ Depth(at[entry[g][i]]) = n
  <2>1. ~Visited(g, i)
    BY VisitedIsVictim
  <2>2. entry[g][i] # NULL /\ entry[g][i] # Fb
    BY <1>4, VmmAssumption
  <2>3. Children(who, at)
    BY DEF Shape
  <2>4. entry[g][i] \in In /\ at[entry[g][i]] = Down(at[g], i)
    BY <1>1, <1>4, <2>1, <2>2, <2>3 DEF Children, Child
  <2>5. at[g] \in Paths
    BY InFacts
  <2>6. Depth(Down(at[g], i)) = Depth(at[g]) + 1
    BY <2>5, PathFacts
  <2> QED BY <1>1, <1>4, <2>4, <2>6
<1>5. CASE ~Shared(who, at, f, i)
  BY <1>2, <1>3, <1>4, <1>5
<1>6. CASE Shared(who, at, f, i)
  <2>1. at[f] = Root /\ who[f] # "kernel" /\ i >= Half /\ Depth(Root) = 0 /\ who[f] \in Owners
    BY <1>3, <1>6, PathFacts, InFacts DEF Shared
  <2>2. Present(who[f]) /\ f = TopOf(who[f])
    BY <1>3, <2>1, TopFacts
  <2>3. who[f] \in Procs /\ top[who[f]] # NULL /\ f = top[who[f]]
    BY <2>1, <2>2 DEF Owners, Present, TopOf
  <2>4. i \in KernelHalf
    BY <2>1, VmmAssumption, SMT DEF KernelHalf, Indices
  <2>5. KernelShared
    BY DEF Shape
  <2>6. entry[f][i] = entry[KTop][i]
    BY <2>3, <2>4, <2>5 DEF KernelShared
  <2>7. KTop \in In /\ who[KTop] = "kernel" /\ at[KTop] = Root
    BY TopFacts
  <2>8. ~Shared(who, at, KTop, i) /\ Depth(at[KTop]) = m
    BY <1>3, <2>1, <2>7 DEF Shared
  <2> QED BY <1>2, <1>4, <2>6, <2>7, <2>8
<1> QED BY <1>5, <1>6

\* A tree holds what is read at every level of every address.
LEMMA TreeHas ==
    ASSUME NEW t, NEW a \in UserAddrs \cup KernelAddrs, NEW n \in 1..Levels
    PROVE  Translate(t, SubSeq(a, 1, n)) \in Tree(t)
<1>1. SubSeq(a, 1, n) \in {SubSeq(a, 1, m) : m \in 1..Levels}
  OBVIOUS
<1>2. PICK S : S = {Translate(t, z) : z \in {SubSeq(a, 1, m) : m \in 1..Levels}}
  OBVIOUS
<1>3. Translate(t, SubSeq(a, 1, n)) \in S
  BY <1>1, <1>2
<1>4. S \in {{Translate(t, z) : z \in {SubSeq(b, 1, m) : m \in 1..Levels}} : b \in UserAddrs \cup KernelAddrs}
  BY <1>2
<1> QED BY <1>3, <1>4 DEF Tree

\* The kernel's second-level tables are what its top level holds.
LEMMA KernelTables ==
    ASSUME NEW who, NEW at, Shape(who, at), NEW f \in In, at[f] # Root, who[f] = "kernel", Depth(at[f]) = 1
    PROVE  \E i \in KernelHalf : f = entry[KTop][i]
<1>1. PICK g \in In, i \in Indices : Child(who, at, g, i, f) /\ entry[g][i] = f
  BY DEF Shape, Parents
<1>2. at[g] \in Paths /\ at[f] = Down(at[g], i) /\ who[g] = "kernel" /\ f \in Frames
  BY <1>1, InFacts DEF Child
<1>3. at[g] = Root
  BY <1>2, PathFacts, SMT
<1>4. g = KTop
  BY <1>2, <1>3, TopFacts DEF TopOf
<1>5. entry[KTop][i] # NULL
  BY <1>1, <1>2, <1>4, VmmAssumption
<1>6. ~(i < Half)
  BY <1>5 DEF Shape, KernelShared
<1>7. i \in KernelHalf
  BY <1>6, VmmAssumption, SMT DEF KernelHalf, Indices
<1> QED BY <1>1, <1>4, <1>7

\* The least element of a set of naturals is the one place where induction is needed.
LOCAL INSTANCE WellFoundedInduction

\* The least element of a set of naturals is the one place where induction is needed.
LEMMA LeastNatural ==
    ASSUME NEW T, T \subseteq Nat, T # {}
    PROVE  \E x \in T : \A y \in T : x <= y
<1>1. PICK x \in T : \A y \in T : ~(<<y, x>> \in OpToRel(<, Nat))
  BY WFMin, NatLessThanWellFounded
<1>2. \A y \in T : ~(y < x)
  BY <1>1 DEF OpToRel
<1>3. QED
  BY <1>2, SMT

\* Induction over the levels, for a set instead of a predicate.
LEMMA LevelInduction ==
    ASSUME NEW m \in Nat, NEW S, 0 \in S, \A n \in 1..m : n - 1 \in S => n \in S
    PROVE  \A n \in 0..m : n \in S
<1> SUFFICES ASSUME (0..m) \ S # {} PROVE FALSE
  OBVIOUS
<1>1. (0..m) \ S \subseteq Nat
  BY SMT
<1>2. PICK n \in (0..m) \ S : \A k \in (0..m) \ S : n <= k
  BY <1>1, LeastNatural
<1>3. n \in 1..m /\ n - 1 \in 0..m /\ ~(n <= n - 1)
  BY <1>2, SMT
<1> QED BY <1>2, <1>3

\* When the outermost call ends, the top level is the last frame of the victim: of the
\* frames left, one with the shortest path would be held by an entry not yet visited.
LEMMA OnlyTopIsLeft ==
    ASSUME Types, NEW who \in [Frames -> Owners], NEW at \in [Frames -> Paths], Shape(who, at),
           Len(walk) = 1, Ended
    PROVE  \A f \in In : who[f] = victim => f = W.table
<1> DEFINE Left == {g \in In : who[g] = victim /\ at[g] # Root}
           T    == {Depth(at[g]) : g \in Left}
<1>1. /\ \A g \in In : who[g] = victim /\ at[g] = Root => g = W.table
      /\ \A h \in In, i \in Indices : ~Child(who, at, W.table, i, h)
  BY NothingBelowTop
<1>2. \A g \in Left : Depth(at[g]) \in Nat
  BY InFacts, PathFacts
<1> SUFFICES ASSUME Left # {} PROVE FALSE
  BY <1>1
<1>3. T \subseteq Nat /\ T # {}
  BY <1>2
<1> HIDE DEF T
<1>4. PICK d \in T : \A e \in T : d <= e
  BY <1>3, LeastNatural
<1>5. PICK g \in Left : d = Depth(at[g])
  BY <1>4 DEF T
<1>6. PICK h \in In, i \in Indices : Child(who, at, h, i, g)
  BY <1>5 DEF Shape, Parents
<1>7. who[h] = victim /\ at[g] = Down(at[h], i) /\ at[h] \in Paths
  BY <1>5, <1>6, InFacts DEF Child
<1>8. CASE at[h] = Root
  BY <1>1, <1>5, <1>6, <1>7, <1>8
<1>9. CASE at[h] # Root
  <2>1. Depth(at[h]) \in T
    BY <1>7, <1>9 DEF T
  <2>2. Depth(at[g]) = Depth(at[h]) + 1 /\ Depth(at[h]) \in Nat
    BY <1>7, PathFacts
  <2>3. Depth(at[h]) + 1 <= Depth(at[h])
    BY <1>4, <1>5, <2>1, <2>2
  <2> QED BY <2>2, <2>3, SMT
<1> QED BY <1>8, <1>9

\* Every step keeps the invariant.
LEMMA StepPreserves ==
    IInv /\ [Next]_vars => IInv'
<1> SUFFICES ASSUME IInv, [Next]_vars PROVE IInv'
  OBVIOUS
<1>1. Types
  BY DEF IInv
<1>2. PICK who \in [Frames -> Owners], at \in [Frames -> Paths] : Shape(who, at)
  BY DEF IInv
<1>3. ASSUME Types' /\ Shape(who, at)' PROVE IInv'
  BY <1>3 DEF IInv, Owners, Paths, Indices
<1>4. ASSUME Types' /\ \E who2 \in [Frames -> Owners], at2 \in [Frames -> Paths] : Shape(who2, at2)' PROVE IInv'
  BY <1>4 DEF IInv, Owners, Paths, Indices
<1>5. CASE \E p \in Procs : NewPagemap(p)
  BY <1>1, <1>2, <1>4, <1>5, NewPagemapStep
<1>6. CASE \E p \in Procs : DeletePagemap(p)
  BY <1>1, <1>2, <1>3, <1>6, DeletePagemapStep
<1>7. CASE \E p \in Live, a \in UserAddrs : MapPage(p, a)
  <2>1. PICK p \in Live, a \in UserAddrs : MapPage(p, a)
    BY <1>7
  <2>2. p \in Live \cup {"kernel"} /\ a \in Addrs(p)
    BY VmmAssumption DEF Addrs, Live
  <2> QED BY <1>1, <1>2, <1>3, <2>1, <2>2, MapPageStep
<1>8. CASE \E a \in KernelAddrs : MapPage("kernel", a)
  <2>1. \A a \in KernelAddrs : a \in Addrs("kernel") /\ "kernel" \in Live \cup {"kernel"}
    BY DEF Addrs
  <2> QED BY <1>1, <1>2, <1>3, <1>8, <2>1, MapPageStep
<1>9. CASE \E a \in KernelAddrs : UnmapPage(a)
  BY <1>1, <1>2, <1>3, <1>9, UnmapPageStep
<1>10. CASE Descend
  BY <1>1, <1>2, <1>3, <1>10, DescendStep
<1>11. CASE AddTable
  BY <1>1, <1>2, <1>4, <1>11, AddTableStep
<1>12. CASE SetEntry
  BY <1>1, <1>2, <1>4, <1>12, SetEntryStep
<1>13. CASE GetEntry
  BY <1>1, <1>2, <1>3, <1>13, GetEntryStep
<1>14. CASE ClearEntry
  BY <1>1, <1>2, <1>3, <1>14, ClearEntryStep
<1>15. CASE FreeLevelsTable
  BY <1>1, <1>2, <1>3, <1>15, FreeLevelsTableStep
<1>16. CASE FreeLevelsPage
  BY <1>1, <1>2, <1>3, <1>16, FreeLevelsPageStep
<1>17. CASE FreeLevelsReturn
  BY <1>1, <1>2, <1>3, <1>17, FreeLevelsReturnStep
<1>18. CASE DeleteTop
  <2>1. Len(walk) = 1 /\ Ended
    BY <1>18 DEF DeleteTop
  <2>2. \A f \in In : who[f] = victim => f = W.table
    BY <1>1, <1>2, <2>1, OnlyTopIsLeft
  <2> QED BY <1>1, <1>2, <1>3, <1>18, <2>2, DeleteTopStep
<1>19. CASE UNCHANGED vars
  <2>1. UNCHANGED <<available, failed, entry, top, op, walk, victim, mapping>>
    BY <1>19 DEF vars
  <2>2. Types'
    BY <1>1, <2>1 DEF Types
  <2>3. In' = In
    BY <2>1 DEF In, Held
  <2>4. Walking(who, at)'
    <3>1. Walking(who, at)
      BY <1>2 DEF Shape
    <3>2. Live' = Live
      BY <2>1 DEF Live
    <3> QED BY <2>1, <2>3, <3>1, <3>2 DEF Walking
  <2>5. Shape(who, at)'
    BY <1>2, <2>1, <2>3, <2>4, SameTrees
  <2> QED BY <1>3, <2>2, <2>5
<1> QED BY <1>5, <1>6, <1>7, <1>8, <1>9, <1>10, <1>11, <1>12, <1>13, <1>14, <1>15, <1>16, <1>17, <1>18, <1>19
        DEF Next, Halted

\* The invariant holds in every reachable state.
LEMMA InductiveInvariant ==
    Spec => []IInv
BY InitEstablishes, StepPreserves, PTL DEF Spec

\* Neither vmm_map_page, vmm_get_phys and vmm_unmap_page nor delete_pagemap
\* reads a table that has been freed, although the deletion holds no lock.
THEOREM TablesAreLive ==
    Spec => []WalksLiveTables
<1>1. IInv => WalksLiveTables
  <2> SUFFICES ASSUME IInv PROVE WalksLiveTables
    OBVIOUS
  <2>1. Types
    BY DEF IInv
  <2>2. PICK who \in [Frames -> Owners], at \in [Frames -> Paths] : Shape(who, at)
    BY DEF IInv
  <2>3. \A k \in DOMAIN walk : walk[k].table \in Frames \ available
    BY <2>2 DEF Shape, Deleting, In
  <2>4. ASSUME op # Off PROVE op.table \in Frames \ available /\ Here # Junk
    <3>1. /\ op.table \in In /\ Index \in Indices /\ op.depth \in 1..Levels /\ Depth(at[op.table]) = op.depth - 1
          /\ ~Shared(who, at, op.table, Index) /\ ~Visited(op.table, Index)
      BY <2>1, <2>2, <2>4, HereFacts
    <3>2. Depth(at[op.table]) < Levels
      BY <3>1, VmmAssumption, SMT
    <3>3. Here \in {NULL, Fb} \cup In
      BY <2>2, <3>1, <3>2 DEF Shape, Children, Here
    <3> QED BY <3>1, <3>3, VmmAssumption DEF In
  <2> QED BY <2>3, <2>4 DEF WalksLiveTables
<1> QED BY <1>1, InductiveInvariant, PTL

\* What is read on the way along x.
Reading(F, t, x) == F[0] = t /\ \A n \in 1..Depth(x) : F[n] = Follow(F[n - 1], x[n])

\* Translate is the last of the values read on the way.
LEMMA TranslateReads ==
    ASSUME NEW t, NEW x \in Paths
    PROVE  \E F : Reading(F, t, x) /\ Translate(t, x) = F[Depth(x)]
<1> DEFINE Reads(F, m) == F = [n \in 0..m |-> IF n = 0 THEN t ELSE Follow(F[n - 1], x[n])]
           L == Depth(x)
           S == {m \in 0..L : \E F : Reads(F, m)}
<1>1. L \in Nat
  BY PathFacts
<1>2. 0 \in S
  <2>1. PICK G : G = [n \in 0..0 |-> t]
    OBVIOUS
  <2>2. Reads(G, 0)
    BY <2>1, SMT
  <2>3. 0 \in 0..L
    BY <1>1, SMT
  <2> QED BY <2>2, <2>3
<1>3. ASSUME NEW m \in 1..L, m - 1 \in S PROVE m \in S
  <2>1. m \in Nat /\ m > 0 /\ m \in 0..L
    BY <1>1, SMT
  <2>2. PICK F : Reads(F, m - 1)
    BY <1>3
  <2>3. PICK G : G = [n \in 0..m |-> IF n = m THEN Follow(F[m - 1], x[m]) ELSE F[n]]
    OBVIOUS
  <2>4. ASSUME NEW n \in 0..m PROVE G[n] = IF n = 0 THEN t ELSE Follow(G[n - 1], x[n])
    <3>1. n = m => n - 1 \in 0..m /\ n - 1 # m /\ n # 0
      BY <2>1, SMT
    <3>2. n # m => n \in 0..m - 1 /\ (n # 0 => n - 1 \in 0..m - 1 /\ n - 1 \in 0..m /\ n - 1 # m)
      BY <2>1, SMT
    <3>3. n # m => F[n] = IF n = 0 THEN t ELSE Follow(F[n - 1], x[n])
      BY <2>2, <3>2
    <3> QED BY <2>3, <3>1, <3>2, <3>3
  <2>5. G = [n \in 0..m |-> G[n]]
    BY <2>3
  <2>6. Reads(G, m)
    BY <2>4, <2>5
  <2> QED BY <2>1, <2>6
<1> HIDE DEF S
<1>4. \A n \in 0..L : n \in S
  BY <1>1, <1>2, <1>3, LevelInduction
<1> USE DEF S
<1>5. \E F : Reads(F, L)
  <2>1. L \in 0..L
    BY <1>1, SMT
  <2> QED BY <1>4, <2>1
<1>6. PICK F : F = CHOOSE G : Reads(G, L)
  OBVIOUS
<1>7. Reads(F, L)
  BY <1>5, <1>6
<1>8. Translate(t, x) = F[L]
  BY <1>6 DEF Translate, Depth
<1>9. Reading(F, t, x)
  <2>1. F[0] = t
    BY <1>1, <1>7, SMT
  <2>2. \A n \in 1..L : n \in 0..L /\ n # 0
    BY <1>1, SMT
  <2>3. \A n \in 1..L : F[n] = Follow(F[n - 1], x[n])
    BY <1>7, <2>2
  <2> QED BY <2>1, <2>3 DEF Reading
<1> QED BY <1>8, <1>9

\* A prefix of an address of w, read from the top level of w, gives what is right at each
\* level.
LEMMA OwnReading ==
    ASSUME Types, NEW who, NEW at, Shape(who, at), NEW w \in Live \cup {"kernel"}, NEW a \in Addrs(w),
           NEW m \in 0..Levels, NEW F, Reading(F, TopOf(w), Upto(a, m)), NEW l \in 0..m
    PROVE  Found(who, at, w, a, l, F[l])
<1> DEFINE S == {n \in 0..m : Found(who, at, w, a, n, F[n])}
<1>1. a \in Paths /\ Depth(a) = Levels /\ Levels \in Nat /\ w \in Owners
  BY WhoIsNotVictim, AddrFacts
<1>2. m \in Nat /\ m \in 0..Depth(a) /\ 0 \in 0..m /\ \A n \in 1..m : n \in 1..Levels /\ n \in 0..m
  BY <1>1, SMT
<1>3. F[0] = TopOf(w) /\ \A n \in 1..m : F[n] = Follow(F[n - 1], a[n])
  <2>1. Depth(Upto(a, m)) = m
    BY <1>1, <1>2, UptoPath
  <2>2. \A n \in 1..m : Upto(a, m)[n] = a[n]
    BY DEF Upto
  <2> QED BY <2>1, <2>2 DEF Reading
<1>4. 0 \in S
  BY <1>2, <1>3, FoundAtTop
<1>5. ASSUME NEW n \in 1..m, n - 1 \in S PROVE n \in S
  <2>1. n \in 1..Levels /\ n \in 0..m /\ F[n] = Follow(F[n - 1], a[n])
    BY <1>2, <1>3
  <2>2. Found(who, at, w, a, n - 1, F[n - 1])
    BY <1>5
  <2> HIDE DEF S
  <2>3. Found(who, at, w, a, n, Follow(F[n - 1], a[n]))
    BY <2>1, <2>2, FoundNext
  <2> QED BY <2>1, <2>3 DEF S
<1> HIDE DEF S
<1>6. l \in S
  BY <1>2, <1>4, <1>5, LevelInduction
<1> QED BY <1>6 DEF S

\* An address of w leads to the page mapped there last.
LEMMA OwnTranslation ==
    ASSUME Types, NEW who, NEW at, Shape(who, at), NEW w \in Live \cup {"kernel"}, NEW a \in Addrs(w)
    PROVE  Translate(TopOf(w), a) = mapping[w][a]
<1>1. w \in Owners /\ a \in Paths /\ Depth(a) = Levels /\ Levels \in Nat /\ Levels > 1
  BY WhoIsNotVictim, AddrFacts
<1>2. PICK F : Reading(F, TopOf(w), a) /\ Translate(TopOf(w), a) = F[Levels]
  BY <1>1, TranslateReads
<1>3. PICK l, x, j : l = Levels - 1 /\ x = Upto(a, l) /\ j = a[Levels]
  OBVIOUS
<1>4. l \in 0..Levels /\ l \in 0..Depth(a) /\ Levels \in 0..Depth(a) /\ Levels \in 1..Levels /\ Levels > 0 /\ l < Levels
      /\ Levels \in 0..Levels
  BY <1>1, <1>3, SMT
<1>5. Upto(a, Levels) = a /\ a = Down(x, j) /\ j \in Indices /\ x \in Paths
  BY <1>1, <1>3, <1>4, UptoPath
<1>6. Found(who, at, w, a, l, F[l])
  BY <1>2, <1>4, <1>5, OwnReading
<1>7. PICK e : e = F[l]
  OBVIOUS
<1>8. /\ \A g \in In : who[g] = w /\ at[g] = x => e = g
      /\ e = NULL \/ (e \in In /\ who[e] = w /\ at[e] = x)
  BY <1>3, <1>4, <1>6, <1>7 DEF Found
<1>9. Translate(TopOf(w), a) = Follow(e, j)
  BY <1>1, <1>2, <1>3, <1>4, <1>7 DEF Reading
<1>10. MapsExactly(who, at, w, a)
  BY DEF Shape, Mapped
<1>11. CASE e = NULL
  <2>1. Follow(e, j) = NULL
    BY <1>11, VmmAssumption DEF Follow
  <2>2. ASSUME NEW g \in In, Maps(who, at, w, a, g) PROVE FALSE
    <3>1. who[g] = w /\ Down(at[g], j) = Down(x, j) /\ at[g] \in Paths /\ g \in Frames
      BY <1>3, <1>5, <2>2, InFacts DEF Maps
    <3>2. at[g] = x
      BY <1>5, <3>1, DownInjective
    <3> QED BY <1>8, <1>11, <3>1, <3>2, VmmAssumption
  <2> QED BY <1>9, <1>10, <2>1, <2>2 DEF MapsExactly
<1>12. CASE e # NULL
  <2>1. e \in In /\ e \in Frames /\ Maps(who, at, w, a, e)
    BY <1>3, <1>5, <1>8, <1>12, InFrames DEF Maps
  <2>2. Follow(e, j) = entry[e][j]
    BY <2>1 DEF Follow
  <2> QED BY <1>3, <1>9, <1>10, <2>1, <2>2 DEF MapsExactly
<1> QED BY <1>11, <1>12

\* An address of the kernel leads to the same page in every process.
LEMMA SharedTranslation ==
    ASSUME Types, NEW who, NEW at, Shape(who, at), NEW p \in Live, NEW a \in KernelAddrs
    PROVE  Translate(top[p], a) = Translate(KTop, a)
<1>1. a \in Paths /\ Depth(a) = Levels /\ Levels \in Nat /\ Levels > 1
  BY AllAddrs
<1>2. PICK F : Reading(F, top[p], a) /\ Translate(top[p], a) = F[Levels]
  BY <1>1, TranslateReads
<1>3. PICK G : Reading(G, KTop, a) /\ Translate(KTop, a) = G[Levels]
  BY <1>1, TranslateReads
<1>4. \A n \in 1..Levels : F[n] = Follow(F[n - 1], a[n]) /\ G[n] = Follow(G[n - 1], a[n])
  BY <1>1, <1>2, <1>3 DEF Reading
<1>5. Follow(F[0], a[1]) = Follow(G[0], a[1])
  <2>1. F[0] = top[p] /\ G[0] = KTop
    BY <1>2, <1>3 DEF Reading
  <2>2. top[p] \in Frames /\ p \in Procs /\ top[p] # NULL /\ a[1] \in KernelHalf
    BY VmmAssumption DEF Live, Types
  <2>3. KTop \in Frames
    BY VmmAssumption DEF KTop
  <2>4. entry[top[p]][a[1]] = entry[KTop][a[1]]
    BY <2>2 DEF Shape, KernelShared
  <2> QED BY <2>1, <2>2, <2>3, <2>4 DEF Follow
<1> DEFINE S == {n \in Nat : n = 0 \/ F[n] = G[n]}
<1>6. ASSUME NEW n \in 1..Levels, n - 1 \in S PROVE n \in S
  <2>1. n \in Nat /\ (n - 1 = 0 => n = 1)
    BY <1>1, SMT
  <2> QED BY <1>4, <1>5, <1>6, <2>1
<1>7. 0 \in S
  OBVIOUS
<1> HIDE DEF S
<1>8. \A n \in 0..Levels : n \in S
  BY <1>1, <1>6, <1>7, LevelInduction
<1>9. Levels \in 0..Levels /\ Levels # 0
  BY <1>1, SMT
<1> QED BY <1>2, <1>3, <1>8, <1>9 DEF S

\* Every address of every process, and of the kernel, leads to the page that was
\* mapped there last, at every moment of every walk and of a deletion; and what the
\* kernel maps is mapped in every process.
THEOREM TablesTranslate ==
    Spec => []TranslationIsExact
<1>1. IInv => TranslationIsExact
  <2> SUFFICES ASSUME IInv PROVE TranslationIsExact
    OBVIOUS
  <2>1. Types
    BY DEF IInv
  <2>2. PICK who \in [Frames -> Owners], at \in [Frames -> Paths] : Shape(who, at)
    BY DEF IInv
  <2>3. ASSUME NEW w \in Live \cup {"kernel"}, NEW a \in DOMAIN mapping[w]
        PROVE  Translate(TopOf(w), a) = mapping[w][a]
    <3>1. w \in Owners
      BY <2>1, WhoIsNotVictim
    <3>2. a \in Addrs(w)
      BY <2>1, <3>1 DEF Types
    <3> QED BY <2>1, <2>2, <3>2, OwnTranslation
  <2>4. \A p \in Live, a \in KernelAddrs : Translate(top[p], a) = Translate(KTop, a)
    BY <2>1, <2>2, SharedTranslation
  <2> QED BY <2>3, <2>4 DEF TranslationIsExact
<1> QED BY <1>1, InductiveInvariant, PTL

\* Whatever is read on the way is in use.
LEMMA ReadsFrames ==
    ASSUME Types, NEW who, NEW at, Shape(who, at), victim = NULL, NEW w \in Live \cup {"kernel"},
           NEW x \in Paths, Depth(x) <= Levels, NEW F, Reading(F, TopOf(w), x)
    PROVE  \A l \in 0..Depth(x) : F[l] \in Frames => F[l] \in In
<1> DEFINE S == {n \in 0..Depth(x) : Right(at, n, F[n])}
<1>1. w \in Owners /\ Present(w) /\ Depth(x) \in Nat /\ Levels \in Nat
  <2>1. Levels \in Nat
    BY VmmAssumption, SMT
  <2> QED BY <2>1, WhoIsNotVictim, PathFacts
<1>2. 0 \in 0..Depth(x) /\ \A n \in 1..Depth(x) : x[n] \in Indices /\ n \in 1..Levels /\ n \in 0..Depth(x)
  <2>1. \A n \in 1..Depth(x) : x[n] \in Indices
    BY SMT DEF Paths, Depth
  <2>2. 0 \in 0..Depth(x) /\ \A n \in 1..Depth(x) : n \in 1..Levels /\ n \in 0..Depth(x)
    BY <1>1, SMT
  <2> QED BY <2>1, <2>2
<1>3. 0 \in S
  <2>1. F[0] \in In /\ at[F[0]] = Root
    <3>1. F[0] = TopOf(w)
      BY DEF Reading
    <3>2. TopOf(w) \in In /\ at[TopOf(w)] = Root
      BY <1>1, TopFacts
    <3> QED BY <3>1, <3>2
  <2>2. Depth(Root) = 0
    BY PathFacts
  <2> QED BY <1>2, <2>1, <2>2 DEF Right
<1>4. ASSUME NEW n \in 1..Depth(x), n - 1 \in S PROVE n \in S
  <2>1. F[n] = Follow(F[n - 1], x[n])
    BY DEF Reading
  <2> QED BY <1>2, <1>4, <2>1, RightNext
<1> HIDE DEF S
<1>5. \A n \in 0..Depth(x) : n \in S
  BY <1>1, <1>3, <1>4, LevelInduction
<1> QED BY <1>5 DEF S, Right

\* A frame in use is in the tree of some top level, or one of the kernel's own tables.
LEMMA UsedIsFound ==
    ASSUME Types, NEW who, NEW at, Shape(who, at), victim = NULL, NEW f \in In
    PROVE  \/ \E i \in KernelHalf : f = entry[KTop][i]
           \/ \E w \in Live \cup {"kernel"} : f \in Tree(TopOf(w))
<1>1. PICK w, y, n : w = who[f] /\ y = at[f] /\ n = Depth(y)
  OBVIOUS
<1>2. Present(w) /\ Known(w, y) /\ n <= Levels /\ f \in Frames /\ y \in Paths /\ w \in Owners
  BY <1>1, InFacts DEF Shape, Placed
<1>3. w \in Live \cup {"kernel"}
  BY <1>2, VmmAssumption DEF Live, Present, Owners
<1>4. CASE y = Root
  <2>1. f = TopOf(w)
    <3>1. \A g \in In : at[g] = Root => g = TopOf(who[g])
      BY TopFacts
    <3> QED BY <1>1, <1>4, <3>1
  <2> QED BY <1>3, <2>1 DEF Tree
<1>5. CASE y # Root /\ w = "kernel" /\ n = 1
  <2>1. at[f] # Root /\ who[f] = "kernel" /\ Depth(at[f]) = 1
    BY <1>1, <1>5
  <2> QED BY <2>1, KernelTables
<1>6. ASSUME y # Root, NEW a \in Addrs(w), y = Upto(a, n) PROVE f \in Tree(TopOf(w))
  <2>1. a \in Paths /\ Depth(a) = Levels /\ Levels \in Nat /\ a \in UserAddrs \cup KernelAddrs
    BY <1>2, AddrFacts DEF Addrs
  <2>2. n \in Nat /\ n # 0
    BY <1>1, <1>2, <1>6, PathFacts
  <2>3. n \in 1..Levels /\ n \in 0..Levels /\ n \in 0..n
    BY <1>2, <2>1, <2>2, SMT
  <2>4. y = SubSeq(a, 1, n)
    BY <1>6, <2>1, <2>3, PrefixIsUpto
  <2>5. PICK F : Reading(F, TopOf(w), y) /\ Translate(TopOf(w), y) = F[n]
    BY <1>1, <1>2, TranslateReads
  <2>6. Found(who, at, w, a, n, F[n])
    BY <1>3, <1>6, <2>3, <2>5, OwnReading
  <2>7. Translate(TopOf(w), SubSeq(a, 1, n)) = f
    BY <1>1, <1>6, <2>4, <2>5, <2>6 DEF Found
  <2> QED BY <2>1, <2>3, <2>7, TreeHas
<1> QED BY <1>1, <1>2, <1>3, <1>4, <1>5, <1>6 DEF Known

\* A frame in the tree of a top level is in use.
LEMMA FoundIsUsed ==
    ASSUME Types, NEW who, NEW at, Shape(who, at), victim = NULL,
           NEW w \in Live \cup {"kernel"}, NEW f \in Tree(TopOf(w)), f \in Frames
    PROVE  f \in In
<1>1. CASE f = TopOf(w)
  BY <1>1, WhoIsNotVictim, TopFacts
<1>2. CASE f # TopOf(w)
  <2>1. PICK a \in UserAddrs \cup KernelAddrs, n \in 1..Levels : f = Translate(TopOf(w), SubSeq(a, 1, n))
    BY <1>2 DEF Tree
  <2>2. a \in Paths /\ Depth(a) = Levels /\ Levels \in Nat
    BY AllAddrs
  <2>3. PICK x : x = Upto(a, n)
    OBVIOUS
  <2>4. n \in 0..Depth(a) /\ n \in 1..Depth(a) /\ n <= Levels /\ n \in 0..n
    BY <2>2, SMT
  <2>5. x \in Paths /\ Depth(x) = n /\ f = Translate(TopOf(w), x)
    BY <2>1, <2>2, <2>3, <2>4, UptoPath, PrefixIsUpto
  <2>6. PICK F : Reading(F, TopOf(w), x) /\ Translate(TopOf(w), x) = F[n]
    BY <2>5, TranslateReads
  <2> QED BY <2>4, <2>5, <2>6, ReadsFrames
<1> QED BY <1>1, <1>2

\* Between two operations a frame is in use exactly if it is in the tables of
\* the kernel or of a process: nothing is lost and nothing in use is freed.
THEOREM FramesAreKept ==
    Spec => []NoFrameIsLost
<1>1. IInv => NoFrameIsLost
  <2> SUFFICES ASSUME IInv, op = Off, victim = NULL
               PROVE  LET used == UNION {Tree(t) : t \in {KTop} \cup {top[p] : p \in Live}}
                          kernel == {entry[KTop][i] : i \in KernelHalf}
                      IN  Frames \ available = (used \cup kernel) \cap Frames
    BY DEF NoFrameIsLost
  <2>1. Types
    BY DEF IInv
  <2>2. PICK who \in [Frames -> Owners], at \in [Frames -> Paths] : Shape(who, at)
    BY DEF IInv
  <2>3. In = Frames \ available
    BY IdleHolds
  <2>4. /\ \A p \in Live : TopOf(p) = top[p] /\ p \in Live \cup {"kernel"}
        /\ TopOf("kernel") = KTop /\ "kernel" \in Live \cup {"kernel"}
    BY VmmAssumption DEF TopOf, Live
  <2>5. ASSUME NEW i \in KernelHalf PROVE entry[KTop][i] \in In
    <3>1. KTop \in In /\ who[KTop] = "kernel" /\ at[KTop] = Root
      BY <2>2, TopFacts
    <3>2. i \in Indices /\ ~(i < Half)
      BY VmmAssumption, SMT DEF KernelHalf, Indices
    <3>3. entry[KTop][i] # NULL
      BY <2>2, <3>2 DEF Shape, KernelShared
    <3>4. Depth(Root) = 0 /\ Levels \in Nat /\ Levels > 1
      BY PathFacts, VmmAssumption, SMT
    <3>5. ~Shared(who, at, KTop, i) /\ ~Visited(KTop, i)
      BY <2>2, <3>1, VisitedIsVictim DEF Shared
    <3>6. Depth(at[KTop]) < Levels /\ Depth(at[KTop]) # Levels - 1
      <4>1. Depth(at[KTop]) = 0
        BY <3>1, <3>4
      <4> QED BY ONLY <3>4, <4>1, SMT
    <3>7. Children(who, at)
      BY <2>2 DEF Shape
    <3>8. \/ entry[KTop][i] = Fb /\ Depth(at[KTop]) = Levels - 1
          \/ entry[KTop][i] \in In /\ Child(who, at, KTop, i, entry[KTop][i])
      BY ONLY <3>1, <3>2, <3>3, <3>5, <3>6, <3>7, Zenon DEF Children
    <3> QED BY <3>6, <3>8
  <2> DEFINE tops   == {KTop} \cup {top[p] : p \in Live}
             used   == UNION {Tree(t) : t \in tops}
             kernel == {entry[KTop][i] : i \in KernelHalf}
  <2>6. \A t : t \in tops <=> \E w \in Live \cup {"kernel"} : t = TopOf(w)
    BY <2>4
  <2>7. ASSUME NEW f \in In PROVE f \in used \cup kernel
    <3>1. \/ \E i \in KernelHalf : f = entry[KTop][i]
          \/ \E w \in Live \cup {"kernel"} : f \in Tree(TopOf(w))
      BY <2>1, <2>2, UsedIsFound
    <3> HIDE DEF tops
    <3> QED BY <2>6, <3>1
  <2>8. ASSUME NEW f \in used, f \in Frames PROVE f \in In
    <3> HIDE DEF tops
    <3>1. PICK t \in tops : f \in Tree(t)
      OBVIOUS
    <3>2. PICK w \in Live \cup {"kernel"} : t = TopOf(w)
      BY <2>6
    <3> QED BY <2>1, <2>2, <2>8, <3>1, <3>2, FoundIsUsed
  <2>9. In = (used \cup kernel) \cap Frames
    <3> HIDE DEF used
    <3> QED BY <2>5, <2>7, <2>8, InFrames
  <2> QED BY <2>3, <2>9
<1> QED BY <1>1, InductiveInvariant, PTL

=============================================================================
