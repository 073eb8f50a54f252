-------------------------- MODULE LargeBlocksProofs --------------------------
(***************************************************************************)
(* The address space and the large blocks of malloc, for any size of the   *)
(* space and of the blocks and any number of threads and frames.           *)
(*                                                                         *)
(* The trees: every call moves one run of pages from a range of one tree   *)
(* to the other tree; lemma Carve says once what that does.                *)
(*                                                                         *)
(* The blocks: every used range belongs to one caller or to one thread     *)
(* that is in the middle of malloc or free, and how far that thread has    *)
(* got says which of its pages are mapped.                                 *)
(***************************************************************************)
EXTENDS Malloc, WellFoundedInduction, TLAPS

-----------------------------------------------------------------------------
(* The trees of ranges *)

Tile(F, U) ==
    /\ F \cup U \subseteq Ranges
    /\ F \cap U = {}
    /\ \A r \in F \cup U : r.size > 0 /\ Pages(r) \subseteq Space
    /\ \A r, s \in F \cup U : r # s => Pages(r) \cap Pages(s) = {}
    /\ \A p \in Space : \E r \in F \cup U : p \in Pages(r)

Covered(T) == UNION {Pages(r) : r \in T}
Run(v, n)  == v..(v + n - 1)

\* most leaves are first-order; those with arithmetic or EXCEPT cite SMT
USE Zenon

\* The two trees are alike.
LEMMA TileSym == \A F, U : Tile(F, U) => Tile(U, F)
BY DEF Tile

\* The pages of a range
LEMMA RunPages == \A v \in Int, n \in Int :
                     /\ PageRange(v, n) \in Ranges
                     /\ Pages(PageRange(v, n)) = Run(v, n)
                     /\ PageRange(v, n).size = n /\ PageRange(v, n).vaddr = v
BY DEF Ranges, PageRange, Pages, Run

\* The remainder of r and the run cut out of it tile r.
LEMMA RemainderTiles ==
    ASSUME NEW r \in Ranges, NEW v \in Int, NEW n \in Int, n > 0,
           r.vaddr <= v, v + n <= r.vaddr + r.size
    PROVE  /\ \A s \in Remainder(r, v, n) :
                /\ s \in Ranges /\ s.size > 0
                /\ Pages(s) \subseteq Pages(r)
                /\ Pages(s) \cap Run(v, n) = {}
                /\ s.vaddr \in Pages(s)
           /\ \A s, t \in Remainder(r, v, n) : s # t => Pages(s) \cap Pages(t) = {}
           /\ Run(v, n) \subseteq Pages(r)
           /\ \A p \in Pages(r) :
                p \in Run(v, n) \/ \E s \in Remainder(r, v, n) : p \in Pages(s)
<1> DEFINE pre  == v - r.vaddr
           post == r.size - pre - n
           a == PageRange(r.vaddr, pre)
           b == PageRange(v + n, post)
<1>1. /\ r.vaddr \in Int /\ r.size \in Int /\ pre \in Int /\ post \in Int
      /\ pre >= 0 /\ post >= 0
      /\ v + n + post = r.vaddr + r.size /\ r.vaddr + pre = v
  BY SMT DEF Ranges
<1>2. Remainder(r, v, n) = {s \in {a, b} : s.size # 0}
  BY DEF Remainder
<1>3. /\ a \in Ranges /\ b \in Ranges /\ a.size = pre /\ b.size = post
      /\ a.vaddr = r.vaddr /\ b.vaddr = v + n
  BY <1>1, SMT DEF PageRange, Ranges
<1>4. \A p : /\ p \in Pages(a) <=> p \in Int /\ r.vaddr <= p /\ p < v
             /\ p \in Pages(b) <=> p \in Int /\ v + n <= p /\ p < r.vaddr + r.size
             /\ p \in Run(v, n) <=> p \in Int /\ v <= p /\ p < v + n
             /\ p \in Pages(r) <=> p \in Int /\ r.vaddr <= p /\ p < r.vaddr + r.size
  <2> HIDE DEF a, b, pre, post
  <2>1. \A p : /\ p \in Pages(a) <=> p \in Int /\ r.vaddr <= p /\ p < r.vaddr + pre
               /\ p \in Pages(b) <=> p \in Int /\ v + n <= p /\ p < v + n + post
               /\ p \in Run(v, n) <=> p \in Int /\ v <= p /\ p < v + n
               /\ p \in Pages(r) <=> p \in Int /\ r.vaddr <= p /\ p < r.vaddr + r.size
    BY <1>1, <1>3, SMT DEF Pages, Run
  <2>2. QED
    BY <1>1, <2>1
<1> HIDE DEF a, b, pre, post
<1>5. ASSUME NEW s \in Remainder(r, v, n)
      PROVE  /\ s \in Ranges /\ s.size > 0
             /\ Pages(s) \subseteq Pages(r)
             /\ Pages(s) \cap Run(v, n) = {}
             /\ s.vaddr \in Pages(s)
  <2>1. CASE s = a
    BY <1>1, <1>2, <1>3, <1>4, <2>1, SMT
  <2>2. CASE s = b
    BY <1>1, <1>2, <1>3, <1>4, <2>2, SMT
  <2>3. QED
    BY <1>2, <2>1, <2>2
<1>6. \A s, t \in Remainder(r, v, n) : s # t => Pages(s) \cap Pages(t) = {}
  <2>1. Pages(a) \cap Pages(b) = {}
    BY <1>1, <1>4, SMT
  <2>2. QED
    BY <1>2, <2>1, SMT
<1>7. Run(v, n) \subseteq Pages(r)
  BY <1>1, <1>4, SMT
<1>8. ASSUME NEW p \in Pages(r), p \notin Run(v, n)
      PROVE  \E s \in Remainder(r, v, n) : p \in Pages(s)
  <2>1. CASE p < v
    <3>1. p \in Pages(a) /\ pre # 0
      BY <1>1, <1>4, <2>1, SMT
    <3>2. QED
      BY <1>2, <1>3, <3>1
  <2>2. CASE p >= v
    <3>1. p \in Pages(b) /\ post # 0
      BY <1>1, <1>4, <1>8, <2>2, SMT
    <3>2. QED
      BY <1>2, <1>3, <3>1
  <2>3. QED
    BY <1>1, <1>4, <2>1, <2>2, SMT
<1>9. QED
  BY <1>5, <1>6, <1>7, <1>8

\* The run v, ..., v+n-1 lies in range r of tree F.
CanCarve(F, U, r, v, n) ==
    /\ Tile(F, U) /\ r \in F
    /\ v \in Int /\ n \in Int /\ n > 0
    /\ r.vaddr <= v /\ v + n <= r.vaddr + r.size

\* Exactly the run v, ..., v+n-1 has moved from F to U.
Carved(F, U, F1, U1, v, n) ==
    /\ Tile(F1, U1)
    /\ U1 = U \cup {PageRange(v, n)}
    /\ Covered(U1) = Covered(U) \cup Run(v, n)
    /\ Covered(F1) = Covered(F) \ Run(v, n)
    /\ Run(v, n) \subseteq Covered(F)
    /\ Run(v, n) \cap Covered(U) = {}
    /\ Run(v, n) \subseteq Space

\* Moving a run from a range r of tree F to tree U: nothing is dropped by
\* RB_INSERT, the trees tile the space again, and exactly the run has moved.
LEMMA Carve ==
    ASSUME NEW F, NEW U, NEW r, NEW v, NEW n, CanCarve(F, U, r, v, n)
    PROVE  Carved(F, U, InsertAll(F \ {r}, Remainder(r, v, n)),
                  Insert(U, PageRange(v, n)), v, n)
<1> USE DEF CanCarve
<1> DEFINE R == Remainder(r, v, n)
           m == PageRange(v, n)
           F2 == (F \ {r}) \cup R
           U2 == U \cup {m}
<1>1. r \in Ranges /\ r \notin U /\ r.size > 0 /\ Pages(r) \subseteq Space
  BY DEF Tile
<1>2. /\ \A s \in R : /\ s \in Ranges /\ s.size > 0
                      /\ Pages(s) \subseteq Pages(r)
                      /\ Pages(s) \cap Run(v, n) = {}
                      /\ s.vaddr \in Pages(s)
      /\ \A s, t \in R : s # t => Pages(s) \cap Pages(t) = {}
      /\ Run(v, n) \subseteq Pages(r)
      /\ \A p \in Pages(r) : p \in Run(v, n) \/ \E s \in R : p \in Pages(s)
  BY <1>1, RemainderTiles, SMT
<1>3. /\ m \in Ranges /\ Pages(m) = Run(v, n) /\ m.size > 0
      /\ m.vaddr = v /\ v \in Run(v, n)
  <2>1. v \in Run(v, n)
    BY SMT DEF Run
  <2>2. QED
    BY <2>1, RunPages
<1> HIDE DEF R, m
<1>4. \A s \in (F \cup U) \ {r} : Pages(s) \cap Pages(r) = {}
  BY DEF Tile
<1>5. InsertAll(F \ {r}, R) = F2
  <2>1. ASSUME NEW s \in R PROVE ~InTree(F \ {r}, s.vaddr)
    BY <1>2, <1>4, SMT DEF InTree
  <2>2. QED
    BY <2>1 DEF InsertAll
<1>6. Insert(U, m) = U2
  <2>1. ~InTree(U, m.vaddr)
    BY <1>1, <1>2, <1>3, <1>4 DEF InTree
  <2>2. QED
    BY <2>1 DEF Insert
<1>7. \A s \in F2 \cup U2 : s \in Ranges /\ s.size > 0 /\ Pages(s) \subseteq Space
  BY <1>1, <1>2, <1>3, SMT DEF Tile
<1>8. \A s, t \in F2 \cup U2 : s # t => Pages(s) \cap Pages(t) = {}
  <2>1. \A s \in R \cup {m} : Pages(s) \subseteq Pages(r)
    BY <1>2, <1>3, SMT
  <2>2. \A s, t \in R \cup {m} : s # t => Pages(s) \cap Pages(t) = {}
    BY <1>2, <1>3, SMT
  <2>3. \A s \in R \cup {m}, t \in (F \cup U) \ {r} : Pages(s) \cap Pages(t) = {}
    BY <1>4, <2>1
  <2>4. \A s, t \in (F \cup U) \ {r} : s # t => Pages(s) \cap Pages(t) = {}
    BY DEF Tile
  <2>5. F2 \cup U2 = ((F \cup U) \ {r}) \cup (R \cup {m})
    BY <1>1
  <2>6. QED
    BY <2>2, <2>3, <2>4, <2>5, Zenon
<1>9. \A s \in F2 \cup U2 : Pages(s) # {}
  <2>1. \A s \in Ranges : s.size > 0 => s.vaddr \in Pages(s)
    BY SMT DEF Ranges, Pages
  <2>2. QED
    BY <1>7, <2>1
<1>10. F2 \cap U2 = {}
  <2>1. \A s \in R : s \notin U
    BY <1>2, <1>4, <1>1, SMT
  <2>2. m \notin R
    BY <1>2, <1>3
  <2>3. m \notin F \ {r}
    BY <1>2, <1>3, <1>4, SMT
  <2>4. QED
    BY <2>1, <2>2, <2>3 DEF Tile
<1>11. \A p \in Space : \E s \in F2 \cup U2 : p \in Pages(s)
  <2> SUFFICES ASSUME NEW p \in Space PROVE \E s \in F2 \cup U2 : p \in Pages(s)
    OBVIOUS
  <2>1. PICK s \in F \cup U : p \in Pages(s)
    BY DEF Tile
  <2>2. CASE s = r
    BY <1>2, <1>3, <2>1, <2>2, SMT
  <2>3. CASE s # r
    BY <2>1, <2>3
  <2>4. QED
    BY <2>2, <2>3
<1>12. Tile(F2, U2)
  BY <1>7, <1>8, <1>10, <1>11 DEF Tile
<1>13. Covered(U2) = Covered(U) \cup Run(v, n)
  BY <1>3 DEF Covered
<1>14. Run(v, n) \subseteq Covered(F) /\ Run(v, n) \cap Covered(U) = {}
       /\ Run(v, n) \subseteq Space
  BY <1>1, <1>2, <1>4, SMT DEF Covered
<1>15. Covered(F2) = Covered(F) \ Run(v, n)
  <2>1. ASSUME NEW p \in Covered(F2) PROVE p \in Covered(F) \ Run(v, n)
    BY <1>2, <1>4, SMT DEF Covered
  <2>2. ASSUME NEW p \in Covered(F), p \notin Run(v, n) PROVE p \in Covered(F2)
    BY <1>2, <2>2, SMT DEF Covered
  <2>3. QED
    BY <2>1, <2>2
<1>16. QED
  BY <1>5, <1>6, <1>12, <1>13, <1>14, <1>15 DEF R, m, Carved

IInv == Tile(free_ranges, used_ranges) /\ result \in Int

\* A set of naturals has a least one.
LEMMA LeastNat ==
    ASSUME NEW T, T \subseteq Nat, T # {}
    PROVE  \E x \in T : \A y \in T : x <= y
<1>1. PICK x \in T : \A y \in T : ~(<<y, x>> \in OpToRel(<, Nat))
  BY WFMin, NatLessThanWellFounded, Zenon
<1>2. \A y \in T : ~(y < x)
  BY <1>1 DEF OpToRel
<1>3. QED
  BY <1>2, SMT

\* First fit finds a range when one is long enough.
LEMMA FirstFit ==
    ASSUME NEW fits, fits # {}, \A r \in fits : r \in Ranges /\ r.vaddr >= 0
    PROVE  LET range == CHOOSE r \in fits : \A s \in fits : r.vaddr <= s.vaddr
           IN  range \in fits
<1> DEFINE T == {r.vaddr : r \in fits}
<1>1. T \subseteq Nat /\ T # {}
  BY SMT DEF Ranges
<1>2. PICK x \in T : \A y \in T : x <= y
  BY <1>1, LeastNat
<1>3. PICK r \in fits : r.vaddr = x
  BY <1>2
<1>4. \A s \in fits : r.vaddr <= s.vaddr
  BY <1>2, <1>3
<1>5. QED
  BY <1>4

\* What the walk for an address finds
LEMMA FoundRange ==
    ASSUME NEW T, T \subseteq Ranges, NEW v \in Int, InTree(T, v)
    PROVE  /\ Find(T, v) \in T /\ v \in Pages(Find(T, v))
           /\ Find(T, v).vaddr <= v
<1>1. Find(T, v) \in T /\ v \in Pages(Find(T, v))
  BY DEF InTree, Find
<1>2. QED
  BY <1>1, SMT DEF Pages, Ranges

\* What each call does, in the terms of AddressSpace.
Effect(before, after) ==
    \/ after = before /\ result' = 0
    \/ \E n \in 1..MaxSize :
         /\ Run(result', n) \subseteq Space \ before
         /\ after = before \cup Run(result', n)
    \/ \E v \in Space, n \in 1..MaxSize :
         \/ /\ Run(v, n) \subseteq Space
            /\ after = before \cup Run(v, n)
            /\ result' \in Run(v, n)
         \/ /\ Run(v, n) \subseteq before
            /\ after = before \ Run(v, n)
            /\ result' # 0

\* A refused call changes neither tree.
LEMMA RefusedStep ==
    ASSUME IInv, result' = 0, UNCHANGED <<free_ranges, used_ranges>>
    PROVE  IInv' /\ Effect(Covered(used_ranges), Covered(used_ranges)')
BY SMT DEF IInv, Effect, Covered, Tile

\* What valloc does when it finds room: one more used range, of free pages.
Gives(n) ==
    /\ used_ranges' = used_ranges \cup {PageRange(result', n)}
    /\ Run(result', n) \cap Covered(used_ranges) = {}
    /\ Run(result', n) \subseteq Space

\* valloc of n pages, first fit.
LEMMA VallocStep ==
    ASSUME IInv, NEW n \in 1..MaxSize, Valloc(n)
    PROVE  /\ IInv' /\ Effect(Covered(used_ranges), Covered(used_ranges)')
           /\ result' # 0 => Gives(n)
<1> DEFINE fits  == {r \in free_ranges : r.size >= n}
           range == CHOOSE r \in fits : \A s \in fits : r.vaddr <= s.vaddr
           v == range.vaddr
<1>0. n \in Int /\ n > 0
  BY VmaAssumption, SMT
<1>1. CASE fits = {}
  <2>1. result' = 0 /\ UNCHANGED <<free_ranges, used_ranges>>
    BY <1>1 DEF Valloc
  <2>2. QED
    BY <2>1, RefusedStep
<1>2. CASE fits # {}
  <2>1. \A r \in fits : r \in Ranges /\ r.vaddr >= 0
    <3>1. ASSUME NEW r \in fits PROVE r \in Ranges /\ r.vaddr >= 0
      <4>1. r \in Ranges /\ r.size > 0 /\ Pages(r) \subseteq Space
        BY DEF IInv, Tile
      <4>2. r.vaddr \in Pages(r)
        BY <4>1, SMT DEF Pages, Ranges
      <4>3. QED
        BY <4>1, <4>2, VmaAssumption, SMT DEF Space
    <3>2. QED
      BY <3>1
  <2>2. range \in fits
    BY <1>2, <2>1, FirstFit
  <2>3. /\ range \in free_ranges /\ range.size >= n /\ range \in Ranges
        /\ v \in Int /\ range.size \in Int
    BY <2>1, <2>2 DEF Ranges
  <2>4. /\ free_ranges' = (IF range.size = n THEN free_ranges \ {range}
                           ELSE Insert(free_ranges \ {range},
                                       PageRange(v + n, range.size - n)))
        /\ used_ranges' = Insert(used_ranges, PageRange(v, n))
        /\ result' = v
    BY <1>2 DEF Valloc
  <2> HIDE DEF range, fits
  <2>5. Remainder(range, v, n) =
            IF range.size = n THEN {} ELSE {PageRange(v + n, range.size - n)}
    BY <1>0, <2>3, SMT DEF Remainder, PageRange
  <2>6. free_ranges' = InsertAll(free_ranges \ {range}, Remainder(range, v, n))
    BY <2>4, <2>5 DEF Insert, InsertAll
  <2>7. range.vaddr <= v /\ v + n <= range.vaddr + range.size
    BY <1>0, <2>3, SMT
  <2>a. Tile(free_ranges, used_ranges)
    BY DEF IInv
  <2>8. /\ Tile(free_ranges', used_ranges')
        /\ used_ranges' = used_ranges \cup {PageRange(v, n)}
        /\ Covered(used_ranges') = Covered(used_ranges) \cup Run(v, n)
        /\ Run(v, n) \cap Covered(used_ranges) = {} /\ Run(v, n) \subseteq Space
    <3>1. CanCarve(free_ranges, used_ranges, range, v, n)
      BY <1>0, <2>3, <2>7, <2>a DEF CanCarve
    <3>2. Carved(free_ranges, used_ranges, free_ranges', used_ranges', v, n)
      BY <2>4, <2>6, <3>1, Carve, SMT
    <3>3. QED
      BY <3>2 DEF Carved
  <2>9. IInv'
    BY <2>3, <2>4, <2>8 DEF IInv
  <2>10. Effect(Covered(used_ranges), Covered(used_ranges)')
    BY <2>4, <2>8 DEF Effect, Covered
  <2>11. Gives(n)
    BY <2>4, <2>8 DEF Gives
  <2>12. QED
    BY <2>9, <2>10, <2>11
<1>3. QED
  BY <1>1, <1>2

\* valloc at a fixed address, as load_elf asks for it.
LEMMA VallocFixedStep ==
    ASSUME IInv, NEW n \in 1..MaxSize, NEW v \in Space, NEW noreplace,
           Placeable(v, n), VallocFixed(v, n, noreplace)
    PROVE  IInv' /\ Effect(Covered(used_ranges), Covered(used_ranges)')
<1> DEFINE inUsed == InTree(used_ranges, v)
           u == Find(used_ranges, v)
           fixed_addr == IF inUsed THEN v + u.size ELSE v
           size == IF inUsed THEN n - u.size ELSE n
           f == Find(free_ranges, fixed_addr)
<1>0. n \in Int /\ n > 0 /\ v \in Int /\ v # 0
      /\ used_ranges \subseteq Ranges /\ free_ranges \subseteq Ranges
  BY VmaAssumption, SMT DEF Space, IInv, Tile
<1>a. inUsed => /\ u \in used_ranges /\ v \in Pages(u) /\ u.vaddr <= v
                /\ u.size \in Int /\ u.vaddr \in Int
  BY <1>0, FoundRange, SMT DEF Ranges
<1>b. CASE result' = 0 /\ UNCHANGED <<free_ranges, used_ranges>>
  BY <1>b, RefusedStep
<1>c. CASE inUsed /\ u.size >= n
           /\ result' = v /\ UNCHANGED <<free_ranges, used_ranges>>
  <2>1. Run(v, n) \subseteq Pages(u)
    <3>1. CASE \E r \in free_ranges \cup used_ranges :
                 v \in Pages(r) /\ v + n <= r.vaddr + r.size
      <4>1. PICK r \in free_ranges \cup used_ranges :
                 v \in Pages(r) /\ v + n <= r.vaddr + r.size
        BY <3>1
      <4>2. r = u
        BY <1>a, <1>c, <4>1 DEF IInv, Tile
      <4>3. QED
        BY <1>0, <1>a, <1>c, <4>1, <4>2, SMT DEF Pages, Run
    <3>2. CASE \E w \in used_ranges : v = w.vaddr
      <4>1. PICK w \in used_ranges : v = w.vaddr
        BY <3>2
      <4>2. v \in Pages(w)
        BY <1>0, <4>1, SMT DEF IInv, Tile, Pages, Ranges
      <4>3. w = u
        BY <1>a, <1>c, <4>1, <4>2 DEF IInv, Tile
      <4>4. QED
        BY <1>0, <1>a, <1>c, <4>1, <4>3, SMT DEF Pages, Run
    <3>3. QED
      BY <3>1, <3>2 DEF Placeable
  <2>2. Run(v, n) \subseteq Covered(used_ranges) /\ Run(v, n) \subseteq Space
    BY <1>a, <1>c, <2>1 DEF Covered, IInv, Tile
  <2>3. Effect(Covered(used_ranges), Covered(used_ranges)')
    <3>1. result' \in Run(v, n)
      BY <1>0, <1>c, SMT DEF Run
    <3>2. QED
      BY <1>0, <1>c, <2>2, <3>1 DEF Effect, Covered
  <2>4. QED
    BY <1>0, <1>c, <2>3 DEF IInv
<1>d. CASE /\ ~(inUsed /\ u.size >= n)
           /\ InTree(free_ranges, fixed_addr)
           /\ free_ranges' = InsertAll(free_ranges \ {f},
                                       Remainder(f, fixed_addr, size))
           /\ used_ranges' = Insert(used_ranges, PageRange(fixed_addr, size))
           /\ result' = fixed_addr
  <2>1. fixed_addr \in Int /\ size \in Int /\ size > 0
    BY <1>0, <1>a, <1>d, SMT
  <2>2. f \in free_ranges /\ fixed_addr \in Pages(f) /\ f.vaddr <= fixed_addr
    <3> HIDE DEF fixed_addr
    <3>1. QED
      BY <1>0, <1>d, <2>1, FoundRange
  <2>3. /\ fixed_addr + size = v + n
        /\ v + n <= f.vaddr + f.size
        /\ inUsed => v = u.vaddr
    <3>1. fixed_addr + size = v + n
      BY <1>0, <1>a, SMT
    <3>2. CASE \E r \in free_ranges \cup used_ranges :
                 v \in Pages(r) /\ v + n <= r.vaddr + r.size
      <4>1. PICK r \in free_ranges \cup used_ranges :
                 v \in Pages(r) /\ v + n <= r.vaddr + r.size
        BY <3>2
      <4>2. ~inUsed
        <5>1. SUFFICES ASSUME inUsed PROVE FALSE
          OBVIOUS
        <5>2. r = u
          BY <1>a, <4>1, <5>1 DEF IInv, Tile
        <5>3. QED
          BY <1>0, <1>a, <1>d, <4>1, <5>1, <5>2, SMT
      <4>3. r = f
        BY <2>2, <4>1, <4>2 DEF IInv, Tile
      <4>4. QED
        BY <3>1, <4>1, <4>2, <4>3
    <3>3. ASSUME NEW w \in used_ranges, NEW g \in free_ranges,
                 v = w.vaddr, v + w.size = g.vaddr, v + n <= g.vaddr + g.size
          PROVE  v + n <= f.vaddr + f.size /\ inUsed /\ v = u.vaddr
      <4>1. v \in Pages(w) /\ g.vaddr \in Pages(g)
        BY <1>0, <3>3, SMT DEF IInv, Tile, Pages, Ranges
      <4>2. inUsed
        BY <4>1 DEF InTree
      <4>3. w = u
        BY <1>a, <4>1, <4>2 DEF IInv, Tile
      <4>4. g = f
        BY <2>2, <3>3, <4>1, <4>2, <4>3, SMT DEF IInv, Tile
      <4>5. QED
        BY <3>3, <4>2, <4>3, <4>4
    <3>4. QED
      BY <3>1, <3>2, <3>3 DEF Placeable
  <2>4. inUsed => Run(v, n) = Pages(u) \cup Run(fixed_addr, size)
    BY <1>0, <1>a, <1>d, <2>1, <2>3, SMT DEF Pages, Run
  <2>5. ~inUsed => Run(v, n) = Run(fixed_addr, size)
    OBVIOUS
  <2> HIDE DEF f, fixed_addr, size, u, inUsed
  <2>6. /\ Tile(free_ranges', used_ranges')
        /\ Covered(used_ranges') = Covered(used_ranges) \cup Run(fixed_addr, size)
        /\ Run(fixed_addr, size) \subseteq Space
    <3>1. /\ Tile(free_ranges, used_ranges) /\ f \in free_ranges
          /\ f.vaddr <= fixed_addr /\ fixed_addr + size <= f.vaddr + f.size
      BY <2>2, <2>3 DEF IInv
    <3>2. CanCarve(free_ranges, used_ranges, f, fixed_addr, size)
      BY <2>1, <3>1 DEF CanCarve
    <3>3. Carved(free_ranges, used_ranges, free_ranges', used_ranges',
                 fixed_addr, size)
      BY <1>d, <3>2, Carve
    <3>4. QED
      BY <3>3 DEF Carved
  <2>7. inUsed => Pages(u) \subseteq Covered(used_ranges) /\ Pages(u) \subseteq Space
    BY <1>a DEF Covered, IInv, Tile
  <2>8. /\ Covered(used_ranges') = Covered(used_ranges) \cup Run(v, n)
        /\ Run(v, n) \subseteq Space
    BY <2>4, <2>5, <2>6, <2>7
  <2>9. result' \in Run(v, n)
    <3>1. fixed_addr \in Run(fixed_addr, size)
      BY <2>1, SMT DEF Run
    <3>2. QED
      BY <1>d, <2>4, <2>5, <3>1
  <2>10. Effect(Covered(used_ranges), Covered(used_ranges)')
    BY <2>8, <2>9 DEF Effect, Covered
  <2>11. QED
    BY <1>d, <2>1, <2>6, <2>10 DEF IInv
<1>e. QED
  BY <1>b, <1>c, <1>d DEF VallocFixed

\* vfree of any run of pages.
LEMMA VfreeStep ==
    ASSUME IInv, NEW n \in 1..MaxSize, NEW v \in Space, Vfree(v, n)
    PROVE  IInv' /\ Effect(Covered(used_ranges), Covered(used_ranges)')
<1> DEFINE u == Find(used_ranges, v)
<1>0. n \in Int /\ n > 0 /\ v \in Int /\ used_ranges \subseteq Ranges
  BY VmaAssumption, SMT DEF Space, IInv, Tile
<1>1. CASE ~InTree(used_ranges, v) \/ u.vaddr + u.size < v + n
  <2>1. result' = 0 /\ UNCHANGED <<free_ranges, used_ranges>>
    BY <1>1 DEF Vfree
  <2>2. QED
    BY <2>1, RefusedStep
<1>2. CASE InTree(used_ranges, v) /\ ~(u.vaddr + u.size < v + n)
  <2>1. /\ used_ranges' = InsertAll(used_ranges \ {u}, Remainder(u, v, n))
        /\ free_ranges' = Insert(free_ranges, PageRange(v, n))
        /\ result' \in {1, 2, 3}
    BY <1>2 DEF Vfree
  <2>2. u \in used_ranges /\ u.vaddr <= v
    BY <1>0, <1>2, FoundRange
  <2>3. v + n <= u.vaddr + u.size
    <3>1. u.vaddr \in Int /\ u.size \in Int
      BY <1>0, <2>2 DEF Ranges
    <3>2. QED
      BY <1>0, <1>2, <3>1, SMT
  <2> HIDE DEF u
  <2>4. CanCarve(used_ranges, free_ranges, u, v, n)
    <3>1. Tile(used_ranges, free_ranges)
      BY TileSym DEF IInv
    <3>2. QED
      BY <1>0, <2>2, <2>3, <3>1 DEF CanCarve
  <2>5. Carved(used_ranges, free_ranges, used_ranges', free_ranges', v, n)
    BY <2>1, <2>4, Carve
  <2>6. /\ Tile(free_ranges', used_ranges')
        /\ Covered(used_ranges') = Covered(used_ranges) \ Run(v, n)
        /\ Run(v, n) \subseteq Covered(used_ranges)
    BY <2>5, TileSym DEF Carved
  <2>7. Effect(Covered(used_ranges), Covered(used_ranges)')
    <3>1. result' # 0 /\ Covered(used_ranges)' = Covered(used_ranges')
      BY <2>1, SMT DEF Covered
    <3>2. Run(v, n) \subseteq Covered(used_ranges)
          /\ Covered(used_ranges)' = Covered(used_ranges) \ Run(v, n)
      BY <2>6, <3>1
    <3>3. QED
      BY <3>1, <3>2, Zenon DEF Effect
  <2>8. QED
    BY <2>1, <2>6, <2>7, SMT DEF IInv
<1>3. QED
  BY <1>1, <1>2

\* vfree of a range as valloc gave it: the range is gone and nothing else is.
LEMMA VfreeExact ==
    ASSUME IInv, NEW n \in 1..MaxSize, NEW v \in Space, Vfree(v, n),
           PageRange(v, n) \in used_ranges
    PROVE  /\ used_ranges' = used_ranges \ {PageRange(v, n)}
           /\ Covered(used_ranges') = Covered(used_ranges) \ Run(v, n)
<1> DEFINE u == Find(used_ranges, v)
           m == PageRange(v, n)
<1>0. /\ n \in Int /\ n > 0 /\ v \in Int /\ used_ranges \subseteq Ranges
      /\ Tile(used_ranges, free_ranges)
  BY VmaAssumption, TileSym, SMT DEF Space, IInv, Tile
<1>1. m.vaddr = v /\ m.size = n /\ v \in Pages(m)
  BY <1>0, SMT DEF PageRange, Pages
<1>2. InTree(used_ranges, v)
  BY <1>1 DEF InTree
<1>3. u = m
  <2>1. u \in used_ranges /\ v \in Pages(u)
    BY <1>0, <1>2, FoundRange
  <2>2. QED
    BY <1>0, <1>1, <2>1 DEF Tile
<1>4. Remainder(m, v, n) = {}
  BY <1>0, <1>1, SMT DEF Remainder, PageRange
<1> HIDE DEF u, m
<1>5. /\ used_ranges' = InsertAll(used_ranges \ {m}, Remainder(m, v, n))
      /\ free_ranges' = Insert(free_ranges, m)
  BY <1>0, <1>1, <1>2, <1>3, SMT DEF Vfree, u, m
<1>6. CanCarve(used_ranges, free_ranges, m, v, n)
  BY <1>0, <1>1, SMT DEF CanCarve, m
<1>7. Carved(used_ranges, free_ranges, used_ranges', free_ranges', v, n)
  BY <1>5, <1>6, Carve DEF m
<1>8. used_ranges' = used_ranges \ {m}
  BY <1>4, <1>5 DEF InsertAll
<1>9. QED
  BY <1>7, <1>8 DEF Carved, m

\* Every call of the allocator.
LEMMA NextStep == IInv /\ Next => IInv' /\ Effect(Covered(used_ranges), Covered(used_ranges)')
<1> SUFFICES ASSUME IInv, Next
             PROVE  IInv' /\ Effect(Covered(used_ranges), Covered(used_ranges)')
  OBVIOUS
<1>1. PICK n \in 1..MaxSize :
        \/ Valloc(n)
        \/ \E v \in Space, noreplace \in BOOLEAN :
             Placeable(v, n) /\ VallocFixed(v, n, noreplace)
        \/ \E v \in Space : Vfree(v, n)
  BY DEF Next
<1>2. CASE Valloc(n)
  BY <1>2, VallocStep
<1>3. CASE \E v \in Space, noreplace \in BOOLEAN :
             Placeable(v, n) /\ VallocFixed(v, n, noreplace)
  BY <1>3, VallocFixedStep
<1>4. CASE \E v \in Space : Vfree(v, n)
  BY <1>4, VfreeStep
<1>5. QED
  BY <1>1, <1>2, <1>3, <1>4

\* The first range is the whole space.
LEMMA InitTiles == Init => IInv
<1> SUFFICES ASSUME Init PROVE IInv
  OBVIOUS
<1> DEFINE r == PageRange(Lo, Hi - Lo)
<1>1. r \in Ranges /\ r.size > 0 /\ Pages(r) = Space
  BY VmaAssumption, SMT DEF PageRange, Ranges, Pages, Space
<1>2. free_ranges = {r} /\ used_ranges = {} /\ result = 0
  BY DEF Init
<1> HIDE DEF r
<1>3. QED
  BY <1>1, <1>2, SMT DEF IInv, Tile

\* The inductive invariant: the trees tile the address space at every step.
THEOREM VmaInvariant == Spec => []IInv
<1>1. Init => IInv
  BY InitTiles
<1>2. IInv /\ [Next]_vars => IInv'
  <2>1. IInv /\ UNCHANGED vars => IInv'
    BY DEF IInv, vars
  <2>2. QED
    BY <2>1, NextStep
<1>3. QED
  BY <1>1, <1>2, PTL DEF Spec

\* However the address space is cut up, its ranges tile it.
THEOREM TilingCorrect == Spec => []RangesTile
<1>1. IInv => RangesTile
  BY Zenon DEF IInv, Tile, RangesTile, AllRanges
<1>2. QED
  BY <1>1, VmaInvariant, PTL

\* valloc and vfree implement AddressSpace.
THEOREM VmaRefinement == Spec => ImplementsAddressSpace
<1> DEFINE res == UNION {Pages(r) : r \in used_ranges}
<1>1. Init => Abstract!Init
  BY DEF Init, Abstract!Init
<1>2. IInv /\ [Next]_vars => [Abstract!Next]_<<res, result>>
  <2> SUFFICES ASSUME IInv, [Next]_vars
               PROVE  UNCHANGED <<res, result>> \/ Abstract!Next
    OBVIOUS
  <2>1. CASE UNCHANGED vars
    BY <2>1 DEF vars
  <2>2. CASE Next
    <3>1. Effect(res, res')
      BY <2>2, NextStep DEF Covered
    <3>2. QED
      BY <3>1 DEF Effect, Run, Abstract!Next, Abstract!Refuse, Abstract!Reserve,
                  Abstract!ReserveAt, Abstract!Release, Abstract!Run
  <2>3. QED
    BY <2>1, <2>2
<1>3. QED
  BY <1>1, <1>2, VmaInvariant, PTL DEF Spec, ImplementsAddressSpace, Abstract!Spec
-----------------------------------------------------------------------------
(* The invariant of the large blocks *)

Records == [at : {"idle", "allocate", "map", "get_phys", "unmap", "free_page", "vfree"},
            block : Nat, size : 0..MaxSize, off : 0..MaxSize, phys : Frames \cup {NULL}]

LargeTypes ==
    /\ IInv
    /\ available \subseteq Frames /\ failed \in BOOLEAN
    /\ page_table \in [Space -> Frames \cup {NULL}]
    /\ th \in [Threads -> Records]
    /\ blocks \subseteq [block : Nat, size : 1..MaxSize]

Busy(t) == th[t].at # "idle"
Own(t)  == [block |-> th[t].block, size |-> th[t].size]

\* Every block, of a caller or of a thread, is a used range of its own.
Owned ==
    /\ \A b \in blocks : PageRange(b.block, b.size) \in used_ranges
    /\ \A t \in Threads : Busy(t) =>
         /\ th[t].size > 0 /\ PageRange(th[t].block, th[t].size) \in used_ranges
         /\ Own(t) \notin blocks
    /\ \A t, u \in Threads : Busy(t) /\ Busy(u) /\ Own(t) = Own(u) => t = u

\* Whether page i of the block a thread is at is mapped.
IsMapped(r, i) ==
    CASE r.at \in {"allocate", "map"}    -> i < r.off
      [] r.at \in {"get_phys", "unmap"}  -> i >= r.off
      [] r.at \in {"free_page", "vfree"} -> i > r.off

Progress ==
    \A t \in Threads : Busy(t) =>
        /\ IF th[t].at = "vfree" THEN th[t].off = th[t].size ELSE th[t].off < th[t].size
        /\ \A i \in 0..th[t].size - 1 :
             page_table[th[t].block + i] # NULL <=> IsMapped(th[t], i)
        /\ th[t].at = "unmap" => th[t].phys = page_table[Here(t)]

\* Who holds frame f
IsMappedTo(f) == \E v \in Space : page_table[v] = f
Carries(t, f) == th[t].at \in {"map", "free_page"} /\ th[t].phys = f

Places ==
    /\ \A v, w \in Space : page_table[v] # NULL /\ page_table[v] = page_table[w] => v = w
    /\ \A t \in Threads : th[t].at \in {"map", "free_page"} => th[t].phys # NULL
    /\ \A t, u \in Threads, f \in Frames : Carries(t, f) /\ Carries(u, f) => t = u
    /\ \A f \in Frames :
         LET carried == \E t \in Threads : Carries(t, f)
         IN  /\ f \in available => cache[f] = 0 /\ ~IsMappedTo(f) /\ ~carried
             /\ cache[f] # 0 => ~IsMappedTo(f) /\ ~carried
             /\ ~(IsMappedTo(f) /\ carried)
             /\ f \in available \/ cache[f] # 0 \/ IsMappedTo(f) \/ carried

Backed ==
    /\ \A v \in Space : page_table[v] # NULL => v \in Covered(used_ranges)
    /\ \A b \in blocks : \A v \in Run(b.block, b.size) : page_table[v] # NULL

LargeInv == LargeTypes /\ Owned /\ Progress /\ Places /\ Backed
-----------------------------------------------------------------------------
(* Large blocks *)

\* What a thread's record holds.
LEMMA RecordIs ==
    ASSUME LargeTypes, NEW t \in Threads
    PROVE  /\ th[t].block \in Nat /\ th[t].size \in Nat /\ th[t].size <= MaxSize
           /\ th[t].off \in Nat /\ th[t].off <= MaxSize
           /\ th[t].phys \in Frames \cup {NULL}
BY VmaAssumption, SMT DEF LargeTypes, Records

\* The pages of a used range lie in the space.
LEMMA UsedRun ==
    ASSUME IInv, NEW a \in Nat, NEW n \in Nat, PageRange(a, n) \in used_ranges
    PROVE  Run(a, n) \subseteq Space /\ Run(a, n) \subseteq Covered(used_ranges)
<1>1. Pages(PageRange(a, n)) = Run(a, n)
  BY RunPages, SMT
<1>2. QED
  BY <1>1, SMT DEF IInv, Tile, Covered

\* Two used ranges share no page.
LEMMA Apart ==
    ASSUME IInv, NEW a \in Nat, NEW n \in Nat, NEW b \in Nat, NEW m \in Nat,
           PageRange(a, n) \in used_ranges, PageRange(b, m) \in used_ranges,
           ~(a = b /\ n = m)
    PROVE  Run(a, n) \cap Run(b, m) = {}
<1>1. Pages(PageRange(a, n)) = Run(a, n) /\ Pages(PageRange(b, m)) = Run(b, m)
  BY RunPages, SMT
<1>2. PageRange(a, n) # PageRange(b, m)
  BY RunPages, SMT
<1>3. QED
  BY <1>1, <1>2 DEF IInv, Tile

\* Page i of a block.
LEMMA InRun ==
    ASSUME NEW a \in Nat, NEW n \in Nat
    PROVE  /\ \A i \in 0..n - 1 : a + i \in Run(a, n)
           /\ \A v \in Run(a, n) : v - a \in 0..n - 1 /\ a + (v - a) = v
           /\ n > 0 => a \in Run(a, n)
BY SMT DEF Run

\* The pages of a busy thread's block are in no other thread's block and in
\* none that a caller holds.
LEMMA OwnApart ==
    ASSUME LargeTypes, Owned, NEW t \in Threads, Busy(t)
    PROVE  /\ Run(th[t].block, th[t].size) \subseteq Space
           /\ \A u \in Threads : Busy(u) /\ u # t =>
                Run(th[t].block, th[t].size) \cap Run(th[u].block, th[u].size) = {}
           /\ \A b \in blocks :
                Run(th[t].block, th[t].size) \cap Run(b.block, b.size) = {}
<1>1. /\ IInv /\ th[t].block \in Nat /\ th[t].size \in Nat
      /\ PageRange(th[t].block, th[t].size) \in used_ranges
  BY RecordIs DEF LargeTypes, Owned
<1>2. ASSUME NEW u \in Threads, Busy(u), u # t
      PROVE  Run(th[t].block, th[t].size) \cap Run(th[u].block, th[u].size) = {}
  <2>1. /\ th[u].block \in Nat /\ th[u].size \in Nat
        /\ PageRange(th[u].block, th[u].size) \in used_ranges
    BY <1>2, RecordIs DEF Owned
  <2>2. ~(th[t].block = th[u].block /\ th[t].size = th[u].size)
    BY <1>2 DEF Owned, Own
  <2>3. QED
    BY <1>1, <2>1, <2>2, Apart
<1>3. ASSUME NEW b \in blocks
      PROVE  Run(th[t].block, th[t].size) \cap Run(b.block, b.size) = {}
  <2>1. /\ b.block \in Nat /\ b.size \in Nat /\ PageRange(b.block, b.size) \in used_ranges
        /\ b = [block |-> b.block, size |-> b.size]
    BY VmaAssumption, SMT DEF Owned, LargeTypes
  <2>2. ~(th[t].block = b.block /\ th[t].size = b.size)
    BY <2>1 DEF Owned, Own
  <2>3. QED
    BY <1>1, <2>1, <2>2, Apart
<1>4. QED
  BY <1>1, <1>2, <1>3, UsedRun
\* Only thread t has moved.
Moved(t, r) == th' = [th EXCEPT ![t] = r]

\* One thread moves on.
LEMMA MovedIs ==
    ASSUME LargeTypes, NEW t \in Threads, NEW r, Moved(t, r)
    PROVE  /\ th'[t] = r /\ \A u \in Threads : u # t => th'[u] = th[u]
           /\ r \in Records => th' \in [Threads -> Records]
BY DEF LargeTypes, Moved

\* Frames stay where they are when thread t holds none before or after.
LEMMA PlacesKept ==
    ASSUME LargeTypes, Places, UNCHANGED <<page_table, available, cache>>,
           NEW t \in Threads, NEW r, Moved(t, r),
           th[t].at \notin {"map", "free_page"}, r.at \notin {"map", "free_page"}
    PROVE  Places'
<1>1. th'[t] = r /\ \A u \in Threads : u # t => th'[u] = th[u]
  BY MovedIs
<1>2. \A u \in Threads, f \in Frames : Carries(u, f)' <=> Carries(u, f)
  BY <1>1 DEF Carries
<1>3. \A f \in Frames : IsMappedTo(f)' <=> IsMappedTo(f)
  BY DEF IsMappedTo
<1>4. \A u \in Threads : th'[u].at \in {"map", "free_page"} => th'[u].phys # NULL
  BY <1>1 DEF Places
<1>5. QED
  BY <1>2, <1>3, <1>4 DEF Places

\* Threads keep their blocks when each stays at the block it was at.
LEMMA OwnedKept ==
    ASSUME LargeTypes, Owned, UNCHANGED <<used_ranges, blocks>>,
           NEW t \in Threads, NEW r, Moved(t, r), Busy(t),
           r.block = th[t].block, r.size = th[t].size
    PROVE  Owned'
<1>1. th'[t] = r /\ \A u \in Threads : u # t => th'[u] = th[u]
  BY MovedIs
<1>2. \A u \in Threads : /\ Busy(u)' => Busy(u) /\ Own(u)' = Own(u)
                         /\ th'[u].block = th[u].block /\ th'[u].size = th[u].size
  BY <1>1 DEF Busy, Own
<1>3. \A u \in Threads : Own(u)' = Own(u)
  BY <1>2 DEF Own
<1>4. \A b \in blocks' : PageRange(b.block, b.size) \in used_ranges'
  BY DEF Owned
<1>5. ASSUME NEW u \in Threads, Busy(u)'
      PROVE  /\ th'[u].size > 0 /\ PageRange(th'[u].block, th'[u].size) \in used_ranges'
             /\ Own(u)' \notin blocks'
  BY <1>2, <1>3, <1>5 DEF Owned
<1>6. QED
  BY <1>2, <1>3, <1>4, <1>5 DEF Owned

\* malloc reserves addresses.
LEMMA MallocReserveStep ==
    ASSUME LargeInv, NEW t \in Threads, NEW n \in 1..MaxSize, MallocReserve(t, n),
           UNCHANGED cache
    PROVE  LargeInv' /\ Effect(Covered(used_ranges), Covered(used_ranges)')
<1> DEFINE r == [at |-> "allocate", block |-> result', size |-> n, off |-> 0, phys |-> NULL]
           new == PageRange(result', n)
<1>0. LargeTypes /\ Owned /\ Progress /\ Places /\ Backed /\ IInv
  BY DEF LargeInv, LargeTypes
<1>1. /\ th[t].at = "idle" /\ Valloc(n) /\ result' # 0 /\ Moved(t, r)
      /\ UNCHANGED <<available, failed, page_table, blocks>>
  BY DEF MallocReserve, Moved
<1>2. IInv' /\ Gives(n) /\ Effect(Covered(used_ranges), Covered(used_ranges)')
  BY <1>0, <1>1, VallocStep
<1>3. n \in Nat /\ n > 0 /\ result' \in Nat
  <2>1. n \in Nat /\ n > 0 /\ result' \in Int
    BY <1>2, VmaAssumption, SMT DEF IInv
  <2>2. result' \in Run(result', n)
    <3>1. \A v \in Int : v \in Run(v, n)
      BY <2>1, SMT DEF Run
    <3>2. QED
      BY <2>1, <3>1
  <2>3. QED
    BY <1>2, <2>1, <2>2, VmaAssumption, SMT DEF Gives, Space
<1>4. \A a \in Nat, m \in Nat : PageRange(a, m) \in used_ranges /\ m > 0 =>
         Run(a, m) \cap Run(result', n) = {} /\ ~(a = result' /\ m = n)
  <2> SUFFICES ASSUME NEW a \in Nat, NEW m \in Nat, PageRange(a, m) \in used_ranges, m > 0
               PROVE  Run(a, m) \cap Run(result', n) = {} /\ ~(a = result' /\ m = n)
    OBVIOUS
  <2>1. Run(a, m) \cap Run(result', n) = {}
    BY <1>0, <1>2, UsedRun DEF Gives
  <2>2. a \in Run(a, m)
    BY InRun
  <2>3. QED
    BY <2>1, <2>2
<1> HIDE DEF r
<1>5. th'[t] = r /\ \A u \in Threads : u # t => th'[u] = th[u]
  BY <1>0, <1>1, MovedIs
<1>6. /\ r.at = "allocate" /\ r.block = result' /\ r.size = n /\ r.off = 0
      /\ r \in Records
  BY <1>3, VmaAssumption, SMT DEF r, Records
<1>7. LargeTypes'
  <2>1. th' \in [Threads -> Records]
    BY <1>0, <1>1, <1>6, MovedIs
  <2>2. QED
    BY <1>0, <1>1, <1>2, <2>1 DEF LargeTypes
<1>8. Owned'
  <2>1. \A b \in blocks : /\ b.block \in Nat /\ b.size \in Nat /\ b.size > 0
                          /\ b = [block |-> b.block, size |-> b.size]
                          /\ PageRange(b.block, b.size) \in used_ranges
    BY <1>0, VmaAssumption, SMT DEF LargeTypes, Owned
  <2>2. \A u \in Threads : u # t /\ Busy(u)' =>
           /\ Busy(u) /\ Own(u)' = Own(u) /\ th'[u] = th[u]
           /\ th[u].block \in Nat /\ th[u].size \in Nat /\ th[u].size > 0
           /\ PageRange(th[u].block, th[u].size) \in used_ranges
    BY <1>0, <1>5, RecordIs DEF Busy, Own, Owned
  <2>3. Own(t)' = [block |-> result', size |-> n]
    BY <1>5, <1>6 DEF Own
  <2>4. Own(t)' \notin blocks
    BY <1>3, <1>4, <2>1, <2>3, SMT
  <2>5. \A u \in Threads : u # t /\ Busy(u)' => Own(u)' # Own(t)'
    BY <1>3, <1>4, <2>2, <2>3 DEF Own
  <2>6. used_ranges' = used_ranges \cup {new}
    BY <1>2 DEF Gives
  <2>7. \A b \in blocks' : PageRange(b.block, b.size) \in used_ranges'
    BY <1>1, <2>1, <2>6
  <2>8. \A u \in Threads : Busy(u)' =>
         /\ th'[u].size > 0 /\ PageRange(th'[u].block, th'[u].size) \in used_ranges'
         /\ Own(u)' \notin blocks'
    BY <1>0, <1>1, <1>3, <1>5, <1>6, <2>2, <2>4, <2>6 DEF Owned
  <2>9. \A u, w \in Threads : Busy(u)' /\ Busy(w)' /\ Own(u)' = Own(w)' => u = w
    BY <1>0, <2>2, <2>5 DEF Owned
  <2>10. QED
    BY <2>7, <2>8, <2>9 DEF Owned
<1>9. Progress'
  <2>1. ASSUME NEW i \in 0..n - 1 PROVE page_table[result' + i] = NULL
    <3>1. result' + i \in Run(result', n)
      BY <1>3, InRun
    <3>2. QED
      BY <1>0, <1>2, <3>1 DEF Gives, Backed
  <2>2. \A i \in 0..n - 1 : ~IsMapped(r, i)
    BY <1>3, <1>6, SMT DEF IsMapped
  <2>3. QED
    BY <1>0, <1>1, <1>3, <1>5, <1>6, <2>1, <2>2, SMT DEF Progress, Busy, Here
<1>10. Places'
  BY <1>0, <1>1, <1>6, PlacesKept
<1>11. Backed'
  <2>1. Covered(used_ranges) \subseteq Covered(used_ranges')
    BY <1>2 DEF Gives, Covered
  <2>2. QED
    BY <1>0, <1>1, <2>1 DEF Backed, Covered
<1>12. QED
  BY <1>2, <1>7, <1>8, <1>9, <1>10, <1>11 DEF LargeInv
\* How far thread t has got, from its record and the page table.
ProgressOf(t) ==
    /\ IF th[t].at = "vfree" THEN th[t].off = th[t].size ELSE th[t].off < th[t].size
    /\ \A i \in 0..th[t].size - 1 :
         page_table[th[t].block + i] # NULL <=> IsMapped(th[t], i)
    /\ th[t].at = "unmap" => th[t].phys = page_table[Here(t)]

\* A page of t's block changes: the other threads' progress does not.
LEMMA OthersProgress ==
    ASSUME LargeTypes, Owned, Progress, NEW t \in Threads, Busy(t), NEW r, Moved(t, r),
           \A v \in Space : v \notin Run(th[t].block, th[t].size) =>
                page_table'[v] = page_table[v]
    PROVE  \A u \in Threads : u # t /\ Busy(u)' => ProgressOf(u)'
<1> SUFFICES ASSUME NEW u \in Threads, u # t, Busy(u)' PROVE ProgressOf(u)'
  OBVIOUS
<1>1. th'[u] = th[u] /\ Busy(u)
  BY MovedIs DEF Busy
<1>2. /\ Run(th[t].block, th[t].size) \cap Run(th[u].block, th[u].size) = {}
      /\ Run(th[u].block, th[u].size) \subseteq Space
  BY <1>1, OwnApart
<1>3. /\ th[u].block \in Nat /\ th[u].size \in Nat /\ th[u].off \in Nat
  BY RecordIs
<1>4. \A i \in 0..th[u].size - 1 : page_table'[th[u].block + i] = page_table[th[u].block + i]
  BY <1>2, <1>3, InRun
<1>5. th[u].at = "unmap" => page_table'[Here(u)] = page_table[Here(u)]
  BY <1>1, <1>3, <1>4, SMT DEF Progress, Here
<1>6. QED
  BY <1>1, <1>3, <1>4, <1>5, SMT DEF Progress, ProgressOf, Here

\* Progress, thread by thread
LEMMA ProgressIs ==
    /\ Progress <=> \A t \in Threads : Busy(t) => ProgressOf(t)
    /\ Progress' <=> \A t \in Threads : Busy(t)' => ProgressOf(t)'
BY DEF Progress, ProgressOf

\* Blocks that callers hold keep their pages when one of t's changes.
LEMMA BlocksBacked ==
    ASSUME LargeTypes, Owned, Backed, NEW t \in Threads, Busy(t),
           \A v \in Space : v \notin Run(th[t].block, th[t].size) =>
                page_table'[v] = page_table[v]
    PROVE  \A b \in blocks : \A v \in Run(b.block, b.size) : page_table'[v] # NULL
<1> SUFFICES ASSUME NEW b \in blocks, NEW v \in Run(b.block, b.size)
             PROVE  page_table'[v] # NULL
  OBVIOUS
<1>1. v \notin Run(th[t].block, th[t].size)
  BY OwnApart
<1>2. b.block \in Nat /\ b.size \in Nat /\ PageRange(b.block, b.size) \in used_ranges /\ IInv
  BY VmaAssumption, SMT DEF Owned, LargeTypes
<1>3. v \in Space
  BY <1>2, UsedRun
<1>4. QED
  BY <1>1, <1>3 DEF Backed

\* malloc takes a frame, or the kernel panics.
LEMMA MallocAllocatePageStep ==
    ASSUME LargeInv, NEW t \in Threads, MallocAllocatePage(t), UNCHANGED cache
    PROVE  LargeInv'
<1>0. /\ LargeTypes /\ Owned /\ Progress /\ Places /\ Backed /\ IInv
      /\ th[t].at = "allocate" /\ Busy(t)
      /\ UNCHANGED <<free_ranges, used_ranges, result, page_table, blocks>>
  BY DEF LargeInv, LargeTypes, MallocAllocatePage, trees, Busy
<1>1. CASE PA!Fail /\ UNCHANGED th
  <2>1. UNCHANGED <<available, th>> /\ failed' = TRUE
    BY <1>1 DEF PA!Fail
  <2>2. LargeTypes' /\ Owned' /\ Backed'
    BY <1>0, <2>1 DEF LargeTypes, IInv, Owned, Busy, Own, Backed, Covered
  <2>3. Progress'
    BY <1>0, <2>1 DEF Progress, Busy, Here
  <2>4. Places'
    BY <1>0, <2>1 DEF Places, IsMappedTo, Carries
  <2>5. QED
    BY <2>2, <2>3, <2>4 DEF LargeInv
<1>2. ASSUME NEW f \in Frames, PA!Lend(f),
             th' = [th EXCEPT ![t].at = "map", ![t].phys = f]
      PROVE  LargeInv'
  <2> DEFINE r == [th[t] EXCEPT !.at = "map", !.phys = f]
  <2>1. Moved(t, r)
    BY <1>0, <1>2 DEF Moved, LargeTypes
  <2>2. /\ r.at = "map" /\ r.phys = f /\ r.block = th[t].block /\ r.size = th[t].size
        /\ r.off = th[t].off /\ r \in Records
    BY <1>0 DEF LargeTypes, Records
  <2> HIDE DEF r
  <2>3. th'[t] = r /\ (\A u \in Threads : u # t => th'[u] = th[u])
        /\ th' \in [Threads -> Records]
    BY <1>0, <2>1, <2>2, MovedIs
  <2>4. f \in available /\ available' = available \ {f} /\ UNCHANGED failed
    BY <1>2 DEF PA!Lend
  <2>5. LargeTypes'
    BY <1>0, <2>3, <2>4 DEF LargeTypes, IInv
  <2>6. Owned'
    BY <1>0, <2>1, <2>2, OwnedKept
  <2>7. Progress'
    <3>1. \A u \in Threads : u # t /\ Busy(u)' => ProgressOf(u)'
      BY <1>0, <2>1, OthersProgress
    <3>2. ProgressOf(t)'
      <4>1. \A i : (IsMapped(th[t], i) <=> i < th[t].off) /\ (IsMapped(r, i) <=> i < r.off)
        BY <1>0, <2>2 DEF IsMapped
      <4>2. QED
        BY <1>0, <2>2, <2>3, <4>1 DEF Progress, ProgressOf
    <3>3. QED
      BY <3>1, <3>2, ProgressIs
  <2>8. Places'
    <3>1. f # NULL
      BY HeapAssumption
    <3>2. \A g \in Frames : IsMappedTo(g)' <=> IsMappedTo(g)
      BY <1>0 DEF IsMappedTo
    <3>3. \A u \in Threads, g \in Frames :
             Carries(u, g)' <=> Carries(u, g) \/ (u = t /\ g = f)
      BY <1>0, <2>2, <2>3 DEF Carries
    <3>4. \A u \in Threads : th'[u].at \in {"map", "free_page"} => th'[u].phys # NULL
      BY <1>0, <2>2, <2>3, <3>1 DEF Places
    <3>5. \A u \in Threads : ~Carries(u, f)
      BY <1>0, <2>4 DEF Places
    <3>6. \A g \in Frames : ~Carries(t, g)
      BY <1>0 DEF Carries
    <3>7. ~IsMappedTo(f) /\ cache[f] = 0
      BY <1>0, <2>4 DEF Places
    <3>8. QED
      BY <1>0, <2>4, <3>2, <3>3, <3>4, <3>5, <3>6, <3>7, SMT DEF Places
  <2>9. Backed'
    BY <1>0 DEF Backed, Covered
  <2>10. QED
    BY <2>5, <2>6, <2>7, <2>8, <2>9 DEF LargeInv
<1>3. QED
  BY <1>1, <1>2 DEF MallocAllocatePage
\* malloc maps a page; behind the last one the block is the caller's.
LEMMA MallocMapPageStep ==
    ASSUME LargeInv, NEW t \in Threads, MallocMapPage(t), UNCHANGED cache
    PROVE  LargeInv'
<1> DEFINE b == [block |-> th[t].block, size |-> th[t].size]
           r == IF Last(t) THEN Idle
                ELSE [th[t] EXCEPT !.at = "allocate", !.off = @ + 1, !.phys = NULL]
           here == Here(t)
           f == th[t].phys
           R == Run(th[t].block, th[t].size)
<1>0. /\ LargeTypes /\ Owned /\ Progress /\ Places /\ Backed /\ IInv
      /\ th[t].at = "map" /\ Busy(t)
      /\ UNCHANGED <<free_ranges, used_ranges, result, available, failed>>
      /\ page_table' = [page_table EXCEPT ![here] = f]
      /\ blocks' = IF Last(t) THEN blocks \cup {b} ELSE blocks
  BY DEF LargeInv, LargeTypes, MallocMapPage, trees, Busy
<1>1. /\ th[t].block \in Nat /\ th[t].size \in Nat /\ th[t].size <= MaxSize
      /\ th[t].off \in Nat /\ th[t].off < th[t].size /\ here = th[t].block + th[t].off
      /\ f \in Frames /\ f # NULL
      /\ \A i \in 0..th[t].size - 1 : page_table[th[t].block + i] # NULL <=> i < th[t].off
  <2>1. f \in Frames \cup {NULL} /\ f # NULL
    BY <1>0, RecordIs DEF Places
  <2>2. QED
    BY <1>0, <2>1, RecordIs DEF Progress, Here, IsMapped
<1>2. Moved(t, r)
  BY <1>0 DEF MallocMapPage, Moved, LargeTypes
<1>3. here \in R /\ R \subseteq Space /\ here \in Space
  <2>1. th[t].off \in 0..th[t].size - 1
    BY <1>1, SMT
  <2>2. here \in R
    <3> HIDE DEF here
    <3>1. QED
      BY <1>1, <2>1, InRun
  <2>3. QED
    BY <1>0, <2>2, OwnApart
<1>4. /\ page_table' \in [Space -> Frames \cup {NULL}] /\ page_table'[here] = f
      /\ \A v \in Space : v # here => page_table'[v] = page_table[v]
      /\ page_table[here] = NULL
  <2> HIDE DEF here, f
  <2>1. page_table[here] = NULL
    <3>1. th[t].off \in 0..th[t].size - 1 /\ ~(th[t].off < th[t].off)
      BY <1>1, SMT
    <3>2. QED
      BY <1>1, <3>1
  <2>2. QED
    BY <1>0, <1>1, <1>3, <2>1 DEF LargeTypes
<1>5. /\ r \in Records
      /\ Last(t) => r.at = "idle"
      /\ ~Last(t) => /\ r.at = "allocate" /\ r.off = th[t].off + 1
                     /\ r.block = th[t].block /\ r.size = th[t].size
                     /\ r.off < r.size
  <2>1. CASE Last(t)
    BY <2>1, VmaAssumption, SMT DEF Idle, Records
  <2>2. CASE ~Last(t)
    <3>1. th[t] \in Records
      BY <1>0 DEF LargeTypes
    <3>2. th[t].off + 1 \in 0..MaxSize /\ th[t].off + 1 < th[t].size
      BY <1>1, <2>2, VmaAssumption, SMT DEF Last
    <3>3. QED
      BY <2>2, <3>1, <3>2 DEF Records
  <2>3. QED
    BY <2>1, <2>2
<1> HIDE DEF r, here, f, R
<1>6. th'[t] = r /\ (\A u \in Threads : u # t => th'[u] = th[u])
      /\ th' \in [Threads -> Records]
  BY <1>0, <1>2, <1>5, MovedIs
<1>7. LargeTypes'
  <2>1. b \in [block : Nat, size : 1..MaxSize]
    BY <1>1, VmaAssumption, SMT
  <2>2. QED
    BY <1>0, <1>4, <1>6, <2>1 DEF LargeTypes, IInv
<1>8. Owned'
  <2>1. CASE ~Last(t)
    BY <1>0, <1>2, <1>5, <2>1, OwnedKept
  <2>2. CASE Last(t)
    <3>1. ~Busy(t)' /\ blocks' = blocks \cup {b} /\ b = Own(t)
      BY <1>0, <1>5, <1>6, <2>2 DEF Busy, Own
    <3>2. \A u \in Threads : Busy(u)' =>
             /\ u # t /\ Busy(u) /\ Own(u)' = Own(u) /\ Own(u) # b
             /\ th'[u] = th[u]
      BY <1>0, <1>6, <3>1 DEF Owned, Busy, Own
    <3>3. \A c \in blocks' : PageRange(c.block, c.size) \in used_ranges'
      BY <1>0, <3>1, SMT DEF Owned
    <3>4. QED
      BY <1>0, <3>1, <3>2, <3>3 DEF Owned
  <2>3. QED
    BY <2>1, <2>2
<1>9. Progress'
  <2>1. \A u \in Threads : u # t /\ Busy(u)' => ProgressOf(u)'
    BY <1>0, <1>2, <1>3, <1>4, OthersProgress DEF R
  <2>2. ASSUME Busy(t)' PROVE ProgressOf(t)'
    <3>1. ~Last(t)
      BY <1>5, <1>6, <2>2 DEF Busy
    <3>2. ASSUME NEW i \in 0..th[t].size - 1
          PROVE  page_table'[th[t].block + i] # NULL <=> i < r.off
      <4>1. th[t].block + i \in Space
        BY <1>1, <1>3, InRun DEF R
      <4>2. th[t].block + i = here <=> i = th[t].off
        BY <1>1, SMT
      <4>3. QED
        BY <1>1, <1>4, <1>5, <3>1, <4>1, <4>2, SMT
    <3>3. QED
      BY <1>1, <1>5, <1>6, <3>1, <3>2 DEF ProgressOf, IsMapped
  <2>3. QED
    BY <2>1, <2>2, ProgressIs
<1>10. Places'
  <2>1. \A g \in Frames : IsMappedTo(g)' <=> IsMappedTo(g) \/ g = f
    BY <1>1, <1>3, <1>4, HeapAssumption DEF IsMappedTo
  <2>2. \A u \in Threads, g \in Frames : Carries(u, g)' <=> Carries(u, g) /\ u # t
    BY <1>5, <1>6 DEF Carries
  <2>3. Carries(t, f) /\ \A g \in Frames : Carries(t, g) => g = f
    BY <1>0 DEF Carries, f
  <2>4. \A u \in Threads : th'[u].at \in {"map", "free_page"} => th'[u].phys # NULL
    BY <1>0, <1>5, <1>6 DEF Places
  <2>5. ~IsMappedTo(f) /\ f \notin available /\ cache[f] = 0
    BY <1>0, <1>1, <2>3 DEF Places
  <2>6. \A v, w \in Space : page_table'[v] # NULL /\ page_table'[v] = page_table'[w] => v = w
    BY <1>0, <1>4, <2>5, SMT DEF Places, IsMappedTo
  <2>7. QED
    BY <1>0, <1>1, <2>1, <2>2, <2>3, <2>4, <2>5, <2>6, SMT DEF Places
<1>11. Backed'
  <2>1. \A v \in Space : page_table'[v] # NULL => v \in Covered(used_ranges)
    <3>1. here \in Covered(used_ranges)
      BY <1>0, <1>1, <1>3, UsedRun DEF R, Owned
    <3>2. QED
      BY <1>0, <1>4, <3>1 DEF Backed
  <2>2. \A c \in blocks : \A v \in Run(c.block, c.size) : page_table'[v] # NULL
    BY <1>0, <1>3, <1>4, BlocksBacked DEF R
  <2>3. ASSUME Last(t), NEW v \in R PROVE page_table'[v] # NULL
    <3>1. v - th[t].block \in 0..th[t].size - 1 /\ th[t].block + (v - th[t].block) = v
      BY <1>1, <2>3, InRun DEF R
    <3>2. v = here \/ v - th[t].block < th[t].off
      <4>1. /\ th[t].off + 1 = th[t].size /\ th[t].off \in Nat /\ th[t].block \in Nat
            /\ here = th[t].block + th[t].off
        BY <1>1, <2>3, SMT DEF Last
      <4>2. v \in Int
        BY <1>1, SMT DEF R, Run
      <4>3. QED
        BY <3>1, <4>1, <4>2, SMT
    <3>3. QED
      BY <1>1, <1>3, <1>4, <2>3, <3>1, <3>2
  <2>4. \A c \in blocks' : \A v \in Run(c.block, c.size) : page_table'[v] # NULL
    <3>1. ASSUME NEW c \in blocks', c \notin blocks PROVE Last(t) /\ c = b
      BY <1>0, <3>1
    <3>2. Run(b.block, b.size) = R
      BY DEF R
    <3>3. QED
      BY <2>2, <2>3, <3>1, <3>2
  <2>5. QED
    BY <1>0, <2>1, <2>4 DEF Backed, Covered
<1>12. QED
  BY <1>7, <1>8, <1>9, <1>10, <1>11 DEF LargeInv
\* free begins: the block is the thread's.
LEMMA FreeStep ==
    ASSUME LargeInv, NEW t \in Threads, NEW b \in blocks, Free(t, b), UNCHANGED cache
    PROVE  LargeInv'
<1> DEFINE r == [at |-> "get_phys", block |-> b.block, size |-> b.size,
                 off |-> 0, phys |-> NULL]
<1>0. /\ LargeTypes /\ Owned /\ Progress /\ Places /\ Backed /\ IInv
      /\ th[t].at = "idle" /\ Moved(t, r) /\ blocks' = blocks \ {b}
      /\ UNCHANGED <<free_ranges, used_ranges, result, available, failed, page_table>>
  BY DEF LargeInv, LargeTypes, Free, trees, Moved
<1>1. /\ b.block \in Nat /\ b.size \in Nat /\ b.size > 0 /\ b.size \in 0..MaxSize
      /\ b = [block |-> b.block, size |-> b.size]
      /\ PageRange(b.block, b.size) \in used_ranges
  BY <1>0, VmaAssumption, SMT DEF LargeTypes, Owned
<1>2. /\ r.at = "get_phys" /\ r.block = b.block /\ r.size = b.size /\ r.off = 0
      /\ r \in Records
  BY <1>1, VmaAssumption, SMT DEF Records
<1> HIDE DEF r
<1>3. th'[t] = r /\ (\A u \in Threads : u # t => th'[u] = th[u])
      /\ th' \in [Threads -> Records]
  BY <1>0, <1>2, MovedIs
<1>4. LargeTypes'
  BY <1>0, <1>3 DEF LargeTypes, IInv
<1>5. Owned'
  <2>1. Own(t)' = b
    BY <1>1, <1>2, <1>3 DEF Own
  <2>2. \A u \in Threads : u # t /\ Busy(u)' =>
           Busy(u) /\ Own(u)' = Own(u) /\ th'[u] = th[u] /\ Own(u) # b
    BY <1>0, <1>3 DEF Busy, Own, Owned
  <2>3. \A c \in blocks' : PageRange(c.block, c.size) \in used_ranges'
    BY <1>0 DEF Owned
  <2>4. \A u \in Threads : Busy(u)' =>
           /\ th'[u].size > 0 /\ PageRange(th'[u].block, th'[u].size) \in used_ranges'
           /\ Own(u)' \notin blocks'
    BY <1>0, <1>1, <1>2, <1>3, <2>1, <2>2 DEF Owned
  <2>5. \A u, w \in Threads : Busy(u)' /\ Busy(w)' /\ Own(u)' = Own(w)' => u = w
    BY <1>0, <2>1, <2>2 DEF Owned
  <2>6. QED
    BY <2>3, <2>4, <2>5 DEF Owned
<1>6. Progress'
  <2>1. ASSUME NEW i \in 0..b.size - 1
        PROVE  page_table[b.block + i] # NULL /\ IsMapped(r, i)
    <3>1. b.block + i \in Run(b.block, b.size)
      BY <1>1, InRun
    <3>2. QED
      BY <1>0, <1>2, <3>1, SMT DEF Backed, IsMapped
  <2>2. \A u \in Threads : u # t /\ Busy(u)' => ProgressOf(u)'
    BY <1>0, <1>3 DEF Busy, Progress, ProgressOf, Here
  <2>3. ProgressOf(t)'
    BY <1>0, <1>1, <1>2, <1>3, <2>1 DEF ProgressOf
  <2>4. QED
    BY <2>2, <2>3, ProgressIs
<1>7. Places'
  BY <1>0, <1>2, PlacesKept
<1>8. Backed'
  BY <1>0 DEF Backed, Covered
<1>9. QED
  BY <1>4, <1>5, <1>6, <1>7, <1>8 DEF LargeInv

\* free looks the frame up.
LEMMA FreeGetPhysStep ==
    ASSUME LargeInv, NEW t \in Threads, FreeGetPhys(t), UNCHANGED cache
    PROVE  LargeInv'
<1> DEFINE r == [th[t] EXCEPT !.at = "unmap", !.phys = page_table[Here(t)]]
<1>0. /\ LargeTypes /\ Owned /\ Progress /\ Places /\ Backed /\ IInv
      /\ th[t].at = "get_phys" /\ Busy(t) /\ Moved(t, r)
      /\ UNCHANGED <<free_ranges, used_ranges, result, available, failed, page_table, blocks>>
  BY DEF LargeInv, LargeTypes, FreeGetPhys, trees, Moved, Busy
<1>1. /\ th[t].block \in Nat /\ th[t].size \in Nat /\ th[t].off \in Nat
      /\ th[t].off < th[t].size
  BY <1>0, RecordIs DEF Progress
<1>2. page_table[Here(t)] \in Frames \cup {NULL}
  <2>1. th[t].off \in 0..th[t].size - 1
    BY <1>1, SMT
  <2>2. Here(t) \in Run(th[t].block, th[t].size)
    BY <1>1, <2>1, InRun DEF Here
  <2>3. Run(th[t].block, th[t].size) \subseteq Space
    BY <1>0, OwnApart
  <2>4. QED
    BY <1>0, <2>2, <2>3 DEF LargeTypes
<1>3. /\ r.at = "unmap" /\ r.block = th[t].block /\ r.size = th[t].size
      /\ r.off = th[t].off /\ r.phys = page_table[Here(t)] /\ r \in Records
  BY <1>0, <1>2 DEF LargeTypes, Records
<1> HIDE DEF r
<1>4. th'[t] = r /\ (\A u \in Threads : u # t => th'[u] = th[u])
      /\ th' \in [Threads -> Records]
  BY <1>0, <1>3, MovedIs
<1>5. LargeTypes'
  BY <1>0, <1>4 DEF LargeTypes, IInv
<1>6. Owned'
  BY <1>0, <1>3, OwnedKept
<1>7. Progress'
  <2>1. \A u \in Threads : u # t /\ Busy(u)' => ProgressOf(u)'
    BY <1>0, OthersProgress
  <2>2. ProgressOf(t)'
    <3>1. \A i : (IsMapped(th[t], i) <=> i >= th[t].off) /\ (IsMapped(r, i) <=> i >= r.off)
      BY <1>0, <1>3 DEF IsMapped
    <3>2. Here(t)' = Here(t)
      BY <1>3, <1>4 DEF Here
    <3>3. QED
      BY <1>0, <1>1, <1>3, <1>4, <3>1, <3>2 DEF Progress, ProgressOf
  <2>3. QED
    BY <2>1, <2>2, ProgressIs
<1>8. Places'
  BY <1>0, <1>3, PlacesKept
<1>9. Backed'
  BY <1>0 DEF Backed, Covered
<1>10. QED
  BY <1>5, <1>6, <1>7, <1>8, <1>9 DEF LargeInv

\* free takes the mapping down and holds the frame.
LEMMA FreeUnmapPageStep ==
    ASSUME LargeInv, NEW t \in Threads, FreeUnmapPage(t), UNCHANGED cache
    PROVE  LargeInv'
<1> DEFINE r == [th[t] EXCEPT !.at = "free_page"]
           here == Here(t)
           f == th[t].phys
           R == Run(th[t].block, th[t].size)
<1>0. /\ LargeTypes /\ Owned /\ Progress /\ Places /\ Backed /\ IInv
      /\ th[t].at = "unmap" /\ Busy(t) /\ Moved(t, r)
      /\ UNCHANGED <<free_ranges, used_ranges, result, available, failed, blocks>>
      /\ page_table' = [page_table EXCEPT ![here] = NULL]
  BY DEF LargeInv, LargeTypes, FreeUnmapPage, trees, Moved, Busy
<1>1. /\ th[t].block \in Nat /\ th[t].size \in Nat /\ th[t].off \in Nat
      /\ th[t].off < th[t].size /\ f \in Frames \cup {NULL} /\ f = page_table[here]
      /\ here = th[t].block + th[t].off
      /\ \A i \in 0..th[t].size - 1 : page_table[th[t].block + i] # NULL <=> i >= th[t].off
  BY <1>0, RecordIs DEF Progress, IsMapped, Here
<1>2. /\ r.at = "free_page" /\ r.block = th[t].block /\ r.size = th[t].size
      /\ r.off = th[t].off /\ r.phys = f /\ r \in Records
  BY <1>0 DEF LargeTypes, Records
<1> HIDE DEF r, here, f, R
<1>3. here \in R /\ R \subseteq Space /\ here \in Space /\ f # NULL /\ f \in Frames
  <2>1. th[t].off \in 0..th[t].size - 1
    BY <1>1, SMT
  <2>2. here \in R
    BY <1>1, <2>1, InRun DEF R
  <2>3. R \subseteq Space
    BY <1>0, OwnApart DEF R
  <2>4. page_table[here] # NULL
    BY <1>1, <2>1, SMT
  <2>5. QED
    BY <1>1, <2>2, <2>3, <2>4
<1>4. th'[t] = r /\ (\A u \in Threads : u # t => th'[u] = th[u])
      /\ th' \in [Threads -> Records]
  BY <1>0, <1>2, MovedIs
<1>5. /\ page_table' \in [Space -> Frames \cup {NULL}] /\ page_table'[here] = NULL
      /\ \A v \in Space : v # here => page_table'[v] = page_table[v]
  BY <1>0, <1>3 DEF LargeTypes
<1>6. LargeTypes'
  BY <1>0, <1>4, <1>5 DEF LargeTypes, IInv
<1>7. Owned'
  BY <1>0, <1>2, OwnedKept
<1>8. Progress'
  <2>1. \A u \in Threads : u # t /\ Busy(u)' => ProgressOf(u)'
    BY <1>0, <1>3, <1>5, OthersProgress DEF R
  <2>2. ASSUME NEW i \in 0..th[t].size - 1
        PROVE  page_table'[th[t].block + i] # NULL <=> i > th[t].off
    <3>1. th[t].block + i \in Space
      BY <1>1, <1>3, InRun DEF R
    <3>2. th[t].block + i = here <=> i = th[t].off
      BY <1>1, SMT
    <3>3. QED
      BY <1>1, <1>5, <3>1, <3>2, SMT
  <2>3. ProgressOf(t)'
    BY <1>1, <1>2, <1>4, <2>2 DEF ProgressOf, IsMapped
  <2>4. QED
    BY <2>1, <2>3, ProgressIs
<1>9. Places'
  <2>1. \A g \in Frames : IsMappedTo(g)' <=> IsMappedTo(g) /\ g # f
    BY <1>0, <1>1, <1>3, <1>5, HeapAssumption, SMT DEF IsMappedTo, Places
  <2>2. \A u \in Threads, g \in Frames :
           Carries(u, g)' <=> Carries(u, g) \/ (u = t /\ g = f)
    BY <1>0, <1>2, <1>4 DEF Carries
  <2>3. \A g \in Frames : ~Carries(t, g)
    BY <1>0 DEF Carries
  <2>4. \A u \in Threads : th'[u].at \in {"map", "free_page"} => th'[u].phys # NULL
    BY <1>0, <1>2, <1>3, <1>4 DEF Places
  <2>5. IsMappedTo(f)
    BY <1>1, <1>3 DEF IsMappedTo
  <2>6. f \notin available /\ cache[f] = 0 /\ \A u \in Threads : ~Carries(u, f)
    BY <1>0, <1>3, <2>5 DEF Places
  <2>7. \A v, w \in Space : page_table'[v] # NULL /\ page_table'[v] = page_table'[w] => v = w
    BY <1>0, <1>5 DEF Places
  <2>8. QED
    BY <1>0, <1>3, <2>1, <2>2, <2>3, <2>4, <2>5, <2>6, <2>7 DEF Places
<1>10. Backed'
  <2>1. \A v \in Space : page_table'[v] # NULL => v \in Covered(used_ranges)
    BY <1>0, <1>5 DEF Backed
  <2>2. \A c \in blocks : \A v \in Run(c.block, c.size) : page_table'[v] # NULL
    BY <1>0, <1>3, <1>5, BlocksBacked DEF R
  <2>3. QED
    BY <1>0, <2>1, <2>2 DEF Backed, Covered
<1>11. QED
  BY <1>6, <1>7, <1>8, <1>9, <1>10 DEF LargeInv
\* free gives the frame back.
LEMMA FreeFreePageStep ==
    ASSUME LargeInv, NEW t \in Threads, FreeFreePage(t), UNCHANGED cache
    PROVE  LargeInv'
<1> DEFINE r == [th[t] EXCEPT !.phys = NULL, !.off = @ + 1,
                              !.at = IF Last(t) THEN "vfree" ELSE "get_phys"]
           f == th[t].phys
<1>0. /\ LargeTypes /\ Owned /\ Progress /\ Places /\ Backed /\ IInv
      /\ th[t].at = "free_page" /\ Busy(t) /\ Moved(t, r)
      /\ UNCHANGED <<free_ranges, used_ranges, result, page_table, blocks>>
  BY DEF LargeInv, LargeTypes, FreeFreePage, trees, Moved, Busy
<1>1. /\ th[t].block \in Nat /\ th[t].size \in Nat /\ th[t].off \in Nat
      /\ th[t].size <= MaxSize /\ th[t].off < th[t].size
      /\ f \in Frames /\ f # NULL
      /\ \A i \in 0..th[t].size - 1 : page_table[th[t].block + i] # NULL <=> i > th[t].off
  <2>1. f \in Frames \cup {NULL} /\ f # NULL
    BY <1>0, RecordIs DEF Places
  <2>2. QED
    BY <1>0, <2>1, RecordIs DEF Progress, IsMapped
<1>2. available' = available \cup {f} /\ UNCHANGED failed
  BY <1>0, <1>1 DEF FreeFreePage, PA!Return
<1>3. /\ r.block = th[t].block /\ r.size = th[t].size /\ r.off = th[t].off + 1
      /\ r.at \in {"vfree", "get_phys"} /\ r \in Records
      /\ IF r.at = "vfree" THEN r.off = r.size ELSE r.off < r.size
  <2>1. th[t].off + 1 \in 0..MaxSize
    BY <1>1, VmaAssumption, SMT
  <2>2. Last(t) <=> th[t].off + 1 = th[t].size
    BY DEF Last
  <2>3. th[t] \in Records
    BY <1>0 DEF LargeTypes
  <2>4. /\ r.block = th[t].block /\ r.size = th[t].size /\ r.off = th[t].off + 1
        /\ r.at = (IF Last(t) THEN "vfree" ELSE "get_phys") /\ r \in Records
    BY <2>1, <2>3 DEF Records
  <2> HIDE DEF r
  <2>5. QED
    BY <1>1, <2>2, <2>4, SMT
<1> HIDE DEF r, f
<1>4. th'[t] = r /\ (\A u \in Threads : u # t => th'[u] = th[u])
      /\ th' \in [Threads -> Records]
  BY <1>0, <1>3, MovedIs
<1>5. LargeTypes'
  BY <1>0, <1>1, <1>2, <1>4 DEF LargeTypes, IInv
<1>6. Owned'
  BY <1>0, <1>3, OwnedKept
<1>7. Progress'
  <2>1. \A u \in Threads : u # t /\ Busy(u)' => ProgressOf(u)'
    BY <1>0, OthersProgress
  <2>2. \A i \in 0..th[t].size - 1 : i > th[t].off <=> IsMapped(r, i)
    <3>1. \A i : /\ r.at = "vfree" => (IsMapped(r, i) <=> i > r.off)
                 /\ r.at = "get_phys" => (IsMapped(r, i) <=> i >= r.off)
      BY DEF IsMapped
    <3>2. QED
      BY <1>1, <1>3, <3>1, SMT
  <2>3. ProgressOf(t)'
    <3>1. /\ IF th'[t].at = "vfree" THEN th'[t].off = th'[t].size
             ELSE th'[t].off < th'[t].size
          /\ th'[t].at # "unmap"
      BY <1>3, <1>4
    <3>2. \A i \in 0..th'[t].size - 1 :
             page_table'[th'[t].block + i] # NULL <=> IsMapped(th'[t], i)
      BY <1>0, <1>1, <1>3, <1>4, <2>2
    <3>3. QED
      BY <3>1, <3>2 DEF ProgressOf
  <2>4. QED
    BY <2>1, <2>3, ProgressIs
<1>8. Places'
  <2>1. \A g \in Frames : IsMappedTo(g)' <=> IsMappedTo(g)
    BY <1>0 DEF IsMappedTo
  <2>2. \A u \in Threads, g \in Frames : Carries(u, g)' <=> Carries(u, g) /\ u # t
    BY <1>3, <1>4 DEF Carries
  <2>3. Carries(t, f) /\ \A g \in Frames : Carries(t, g) => g = f
    BY <1>0 DEF Carries, f
  <2>4. \A u \in Threads : th'[u].at \in {"map", "free_page"} => th'[u].phys # NULL
    BY <1>0, <1>3, <1>4 DEF Places
  <2>5. ~IsMappedTo(f) /\ cache[f] = 0 /\ \A u \in Threads : Carries(u, f) => u = t
    BY <1>0, <1>1, <2>3 DEF Places
  <2>6. QED
    BY <1>0, <1>1, <1>2, <2>1, <2>2, <2>3, <2>4, <2>5, SMT DEF Places
<1>9. Backed'
  BY <1>0 DEF Backed, Covered
<1>10. QED
  BY <1>5, <1>6, <1>7, <1>8, <1>9 DEF LargeInv

\* free gives the addresses back, when none of them is mapped any more.
LEMMA FreeVfreeStep ==
    ASSUME LargeInv, NEW t \in Threads, FreeVfree(t), UNCHANGED cache
    PROVE  LargeInv' /\ Effect(Covered(used_ranges), Covered(used_ranges)')
<1> DEFINE a == th[t].block
           n == th[t].size
<1>0. /\ LargeTypes /\ Owned /\ Progress /\ Places /\ Backed /\ IInv
      /\ th[t].at = "vfree" /\ Busy(t) /\ Moved(t, Idle) /\ Vfree(a, n)
      /\ UNCHANGED <<available, failed, page_table, blocks>>
  BY DEF LargeInv, LargeTypes, FreeVfree, Moved, Busy
<1>1. /\ a \in Nat /\ n \in Nat /\ n > 0 /\ n \in 1..MaxSize
      /\ PageRange(a, n) \in used_ranges
      /\ \A i \in 0..n - 1 : page_table[a + i] = NULL
  <2>1. a \in Nat /\ n \in Nat /\ n > 0 /\ n <= MaxSize /\ th[t].off = n
    BY <1>0, RecordIs DEF Progress, Owned
  <2>2. \A i \in 0..n - 1 : ~IsMapped(th[t], i)
    BY <1>0, <2>1, SMT DEF IsMapped
  <2>3. QED
    BY <1>0, <2>1, <2>2, VmaAssumption, SMT DEF Progress, Owned
<1>2. Run(a, n) \subseteq Space /\ a \in Space
  <2>1. a \in Run(a, n)
    BY <1>1, InRun
  <2>2. QED
    BY <1>0, <1>1, <2>1, UsedRun
<1> HIDE DEF a, n
<1>3. /\ IInv' /\ Effect(Covered(used_ranges), Covered(used_ranges)')
      /\ used_ranges' = used_ranges \ {PageRange(a, n)}
      /\ Covered(used_ranges') = Covered(used_ranges) \ Run(a, n)
  <2>1. IInv' /\ Effect(Covered(used_ranges), Covered(used_ranges)')
    BY <1>0, <1>1, <1>2, VfreeStep
  <2>2. /\ used_ranges' = used_ranges \ {PageRange(a, n)}
        /\ Covered(used_ranges') = Covered(used_ranges) \ Run(a, n)
    BY <1>0, <1>1, <1>2, VfreeExact
  <2>3. QED
    BY <2>1, <2>2
<1>4. Idle \in Records /\ Idle.at = "idle"
  BY VmaAssumption, SMT DEF Idle, Records
<1>5. th'[t] = Idle /\ (\A u \in Threads : u # t => th'[u] = th[u])
      /\ th' \in [Threads -> Records]
  BY <1>0, <1>4, MovedIs
<1>6. LargeTypes'
  BY <1>0, <1>3, <1>5 DEF LargeTypes
<1>7. Owned'
  <2>1. \A u \in Threads : Busy(u)' =>
           /\ u # t /\ Busy(u) /\ Own(u)' = Own(u) /\ th'[u] = th[u]
           /\ ~(th[u].block = a /\ th[u].size = n)
    <3>1. \A u \in Threads : Busy(u)' => u # t /\ Busy(u) /\ Own(u)' = Own(u) /\ th'[u] = th[u]
      BY <1>4, <1>5 DEF Busy, Own
    <3>2. \A u \in Threads : Busy(u) /\ u # t => Own(u) # Own(t)
      BY <1>0 DEF Owned
    <3>3. QED
      BY <3>1, <3>2 DEF Own, a, n
  <2>2. \A b \in blocks : ~(b.block = a /\ b.size = n)
    <3>1. \A b \in blocks : b = [block |-> b.block, size |-> b.size]
      BY <1>0, SMT DEF LargeTypes
    <3>2. QED
      BY <1>0, <3>1 DEF Owned, Own, a, n
  <2>3. \A c, m : PageRange(c, m) = PageRange(a, n) => c = a /\ m = n
    BY DEF PageRange
  <2>4. \A b \in blocks' : PageRange(b.block, b.size) \in used_ranges'
    BY <1>0, <1>3, <2>2, <2>3 DEF Owned
  <2>5. \A u \in Threads : Busy(u)' =>
           /\ th'[u].size > 0 /\ PageRange(th'[u].block, th'[u].size) \in used_ranges'
           /\ Own(u)' \notin blocks'
    BY <1>0, <1>3, <2>1, <2>3 DEF Owned
  <2>6. \A u, w \in Threads : Busy(u)' /\ Busy(w)' /\ Own(u)' = Own(w)' => u = w
    BY <1>0, <2>1 DEF Owned
  <2>7. QED
    BY <2>4, <2>5, <2>6 DEF Owned
<1>8. Progress'
  <2>1. \A u \in Threads : u # t /\ Busy(u)' => ProgressOf(u)'
    BY <1>0, OthersProgress
  <2>2. ~Busy(t)'
    BY <1>4, <1>5 DEF Busy
  <2>3. QED
    BY <2>1, <2>2, ProgressIs
<1>9. Places'
  BY <1>0, <1>4, PlacesKept
<1>10. Backed'
  <2>1. ASSUME NEW v \in Space, page_table[v] # NULL PROVE v \in Covered(used_ranges')
    <3>1. v \in Run(a, n) => v - a \in 0..n - 1 /\ a + (v - a) = v
      BY <1>1, InRun
    <3>a. v \in Run(a, n) => page_table[a + (v - a)] = NULL
      BY <1>1, <3>1
    <3>2. QED
      BY <1>0, <1>3, <2>1, <3>1, <3>a DEF Backed
  <2>2. QED
    BY <1>0, <2>1 DEF Backed, Covered
<1>11. QED
  BY <1>3, <1>6, <1>7, <1>8, <1>9, <1>10 DEF LargeInv
=============================================================================
