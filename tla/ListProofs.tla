----------------------------- MODULE ListProofs -----------------------------
(***************************************************************************)
(* The two components that live on the linked lists of Links.              *)
(*                                                                         *)
(* The page allocator is correct for any number of regions of any size and *)
(* any batch.  The strengthening says where pmm_fill stands: a page is     *)
(* untouched exactly when the cursor has not passed it, so a fill that     *)
(* finds nothing has seen every page.                                      *)
(*                                                                         *)
(* The safety properties of the scheduler hold for any set of processes    *)
(* and any MaxSleep.  They all rest on one inductive invariant IInv, the   *)
(* conjunction of the parts below.                                         *)
(***************************************************************************)
EXTENDS Scheduler, Pmm, LinksProofs, TLAPS

-----------------------------------------------------------------------------
(***************************************************************************)
(* The page allocator                                                      *)
(***************************************************************************)

CursorInv ==
    /\ fill_t <= NumTables => fill_p < End[fill_t] - Start[fill_t]
    /\ \A t \in Tables : \A f \in Child(t) :
         state[f] = "UNINIT" <=>
             t > fill_t \/ (t = fill_t /\ f >= Start[t] + fill_p)

LentInv == lent = {f \in Frames : state[f] = "USED"}

OpInv ==
    /\ op = "fill" /\ added > 0 => freelist_head # NULL
    /\ op = "take" /\ freelist_head = NULL => fill_t > NumTables
    /\ panic = "out of memory" => lent = Frames
    /\ Foreign \cap Ends = {} => AssertionsHold

PmmInv == PmmTypeOK /\ CursorInv /\ LentInv /\ OpInv /\ FreeListIsFree

LEMMA FramesFacts ==
    /\ Frames \subseteq Nat
    /\ \A t \in Tables : Child(t) \subseteq Frames
    /\ \A s, t \in Tables : \A f : f \in Child(s) /\ f \in Child(t) => s = t
<1>1. Frames \subseteq Nat
  <2>1. ASSUME NEW t \in Tables PROVE Child(t) \subseteq Nat
    <3>1. Start[t] \in Nat /\ End[t] \in Nat
      BY PmmAssumption
    <3> QED BY <3>1 DEF Child
  <2> QED BY <2>1 DEF Frames
<1>2. \A t \in Tables : Child(t) \subseteq Frames
  BY DEF Frames
<1>3. ASSUME NEW s \in Tables, NEW t \in Tables, NEW f,
             f \in Child(s), f \in Child(t)
      PROVE  s = t
  <2>1. /\ f \in Int /\ Start[s] \in Int /\ Start[t] \in Int
        /\ End[s] \in Int /\ End[t] \in Int
        /\ Start[s] <= f /\ f < End[s] /\ Start[t] <= f /\ f < End[t]
    BY <1>3, PmmAssumption DEF Child
  <2>2. s # t => End[s] < Start[t] \/ End[t] < Start[s]
    BY PmmAssumption
  <2>3. QED
    BY <2>1, <2>2
<1>4. QED
  BY <1>1, <1>2, <1>3

\* get_page_info knows every page of a table, and takes a page outside of
\* the tables for a member only when it adjoins one.
LEMMA PageInfoFacts ==
    /\ \A f \in Frames : GetPageInfo(f) = "found"
    /\ \A f \in Foreign : f \notin Ends => GetPageInfo(f) = "NULL"
    /\ \A f \in Foreign : GetPageInfo(f) # "found"
<1>1. \A f \in Frames : GetPageInfo(f) = "found"
  <2>1. ASSUME NEW f \in Frames
        PROVE  \E t \in Tables : Start[t] <= f /\ f <= End[t]
    <3>1. PICK t \in Tables : f \in Child(t)
      BY DEF Frames
    <3>2. Start[t] <= f /\ f <= End[t]
      BY <3>1, PmmAssumption DEF Child
    <3>3. QED
      BY <3>2
  <2>2. QED
    BY <2>1 DEF GetPageInfo
<1>2. ASSUME NEW f \in Foreign, NEW t \in Tables, Start[t] <= f, f <= End[t]
      PROVE  f \in Ends
  <2>1. f \in Nat /\ f \notin Frames /\ Start[t] \in Nat /\ End[t] \in Nat
    BY PmmAssumption
  <2>2. f \notin Child(t)
    BY <2>1 DEF Frames
  <2>3. f = End[t]
    BY <1>2, <2>1, <2>2 DEF Child
  <2>4. QED
    BY <2>3 DEF Ends
<1>3. \A f \in Foreign : f \notin Ends => GetPageInfo(f) = "NULL"
  BY <1>2 DEF GetPageInfo
<1>4. \A f \in Foreign : GetPageInfo(f) # "found"
  BY PmmAssumption DEF GetPageInfo
<1>5. QED
  BY <1>1, <1>3, <1>4

LEMMA PmmInitInv == PmmInit => PmmInv
<1> SUFFICES ASSUME PmmInit PROVE PmmInv
  OBVIOUS
<1>1. PmmTypeOK
  BY PmmAssumption DEF PmmInit, PmmTypeOK
<1>2. CursorInv
  <2>1. fill_t <= NumTables => fill_p < End[fill_t] - Start[fill_t]
    BY PmmAssumption DEF PmmInit, Tables
  <2>2. ASSUME NEW t \in Tables, NEW f \in Child(t)
        PROVE  state[f] = "UNINIT" /\
               (t > fill_t \/ (t = fill_t /\ f >= Start[t] + fill_p))
    BY FramesFacts, PmmAssumption DEF PmmInit, Tables, Child
  <2>3. QED
    BY <2>1, <2>2 DEF CursorInv
<1>3. LentInv
  BY DEF PmmInit, LentInv
<1>4. OpInv
  BY DEF PmmInit, OpInv, AssertionsHold
<1>5. FreeListIsFree
  <2>1. FreeFrames = {}
    BY DEF PmmInit, FreeFrames
  <2>2. QED
    BY <2>1 DEF PmmInit, FreeListIsFree, OneList
<1>6. QED
  BY <1>1, <1>2, <1>3, <1>4, <1>5 DEF PmmInv

LEMMA FillPageInv == PmmInv /\ FillPage => PmmInv'
<1> SUFFICES ASSUME PmmInv, FillPage PROVE PmmInv'
  OBVIOUS
<1> DEFINE f == Start[fill_t] + fill_p
           last == f = End[fill_t] - 1
<1>1. /\ fill_t \in Tables /\ f \in Child(fill_t) /\ f \in Frames /\ f # NULL
      /\ fill_p \in Nat /\ Start[fill_t] \in Nat /\ End[fill_t] \in Nat
      /\ f < End[fill_t]
  <2>1. /\ fill_t \in Tables /\ fill_p \in Nat
        /\ fill_p < End[fill_t] - Start[fill_t]
    BY PmmAssumption DEF PmmInv, PmmTypeOK, CursorInv, FillPage, Tables
  <2>2. Start[fill_t] \in Nat /\ End[fill_t] \in Nat
    BY <2>1, PmmAssumption
  <2>3. f \in Child(fill_t) /\ f < End[fill_t]
    BY <2>1, <2>2 DEF Child
  <2>4. f \in Frames /\ f # NULL
    BY <2>1, <2>3, FramesFacts, PmmAssumption
  <2>5. QED
    BY <2>1, <2>2, <2>3, <2>4
<1>2. state[f] = "UNINIT"
  BY <1>1 DEF PmmInv, CursorInv
<1>3. /\ state' = [state EXCEPT ![f] = "FREE"]
      /\ word' = [word EXCEPT ![f] = freelist_head]
      /\ freelist_head' = f
      /\ added' = added + 1 /\ added < Batch
      /\ fill_t' = (IF last THEN fill_t + 1 ELSE fill_t)
      /\ fill_p' = (IF last THEN 0 ELSE fill_p + 1)
      /\ UNCHANGED <<used_pages, op, panic, lent>>
      /\ op \in {"setup", "fill"} /\ panic = "none"
  BY <1>2 DEF FillPage
<1> HIDE DEF f
<1>4. PmmTypeOK'
  BY <1>1, <1>3, PmmAssumption DEF PmmInv, PmmTypeOK, Tables
<1>5. CursorInv'
  <2>1. fill_t' <= NumTables => fill_p' < End[fill_t'] - Start[fill_t']
    <3>1. CASE last
      <4>1. fill_t' = fill_t + 1 /\ fill_p' = 0 /\ fill_t \in Nat
        BY <1>1, <1>3, <3>1 DEF Tables
      <4>2. fill_t' <= NumTables => fill_t' \in Tables
        BY <4>1, PmmAssumption DEF Tables
      <4>3. fill_t' \in Tables =>
              Start[fill_t'] \in Nat /\ End[fill_t'] \in Nat /\ Start[fill_t'] < End[fill_t']
        BY PmmAssumption
      <4>4. QED
        BY <4>1, <4>2, <4>3
    <3>2. CASE ~last
      <4>1. fill_t' = fill_t /\ fill_p' = fill_p + 1
        BY <1>3, <3>2
      <4>2. QED
        BY <1>1, <3>2, <4>1 DEF f
    <3>3. QED
      BY <3>1, <3>2
  <2>2. ASSUME NEW t \in Tables, NEW g \in Child(t)
        PROVE  state'[g] = "UNINIT" <=>
                 t > fill_t' \/ (t = fill_t' /\ g >= Start[t] + fill_p')
    <3>1. /\ g \in Frames /\ g \in Nat /\ Start[t] \in Nat /\ End[t] \in Nat
          /\ Start[t] <= g /\ g < End[t] /\ t \in Nat
      BY FramesFacts, PmmAssumption DEF Child, Tables
    <3>2. state'[g] = IF g = f THEN "FREE" ELSE state[g]
      BY <1>1, <1>3, <3>1 DEF PmmInv, PmmTypeOK
    <3>3. state[g] = "UNINIT" <=>
            t > fill_t \/ (t = fill_t /\ g >= Start[t] + fill_p)
      BY DEF PmmInv, CursorInv
    <3>4. g = f => t = fill_t
      BY <1>1, FramesFacts
    <3>5. CASE last
      BY <1>1, <1>3, <3>1, <3>2, <3>3, <3>4, <3>5 DEF f, Tables
    <3>6. CASE ~last
      BY <1>1, <1>3, <3>1, <3>2, <3>3, <3>4, <3>6 DEF f, Tables
    <3>7. QED
      BY <3>5, <3>6
  <2>3. QED
    BY <2>1, <2>2 DEF CursorInv
<1>6. LentInv'
  <2>1. lent' = {g \in Frames : state'[g] = "USED"}
    BY <1>1, <1>2, <1>3 DEF PmmInv, PmmTypeOK, LentInv
  <2>2. QED
    BY <1>3, <2>1 DEF PmmInv, LentInv
<1>7. OpInv'
  BY <1>1, <1>3 DEF PmmInv, OpInv, AssertionsHold
<1>8. FreeListIsFree'
  <2>1. FreeFrames' = FreeFrames \cup {f} /\ f \notin FreeFrames
    BY <1>1, <1>2, <1>3 DEF PmmInv, PmmTypeOK, FreeFrames
  <2>2. word'[f] = freelist_head /\ \A x \in FreeFrames : word'[x] = word[x]
    BY <1>1, <1>3, <2>1 DEF PmmInv, PmmTypeOK, FreeFrames
  <2>3. OneList(freelist_head, FreeFrames, word)
    BY DEF PmmInv, FreeListIsFree
  <2>4. OneList(f, FreeFrames \cup {f}, word')
    BY <1>1, <2>1, <2>2, <2>3, ListPush
  <2>5. QED
    BY <1>3, <2>1, <2>4 DEF FreeListIsFree
<1>9. QED
  BY <1>4, <1>5, <1>6, <1>7, <1>8 DEF PmmInv

\* FillDone and AllocatePage only move the program counter: a fill that ends
\* with an empty list has passed the last page.
LEMMA ControlInv == PmmInv /\ (FillDone \/ AllocatePage) => PmmInv'
<1> SUFFICES ASSUME PmmInv, FillDone \/ AllocatePage PROVE PmmInv'
  OBVIOUS
<1>1. /\ UNCHANGED <<state, word, freelist_head, fill_t, fill_p, used_pages,
                     panic, lent>>
      /\ added' \in {0, added}
      /\ panic = "none"
  BY DEF FillDone, AllocatePage
<1>2. PmmTypeOK'
  <2>1. op' \in {"setup", "idle", "fill", "take"}
    BY DEF FillDone, AllocatePage
  <2>2. QED
    BY <1>1, <2>1, PmmAssumption DEF PmmInv, PmmTypeOK
<1>3. CursorInv' /\ LentInv' /\ FreeListIsFree'
  BY <1>1 DEF PmmInv, CursorInv, LentInv, FreeListIsFree, FreeFrames
<1>4. OpInv'
  <2>1. op' = "fill" => added' = 0
    BY DEF FillDone, AllocatePage
  <2>2. op' = "take" /\ freelist_head = NULL => fill_t > NumTables
    <3>1. CASE FillDone
      BY <3>1, PmmAssumption DEF FillDone, PmmInv, OpInv, PmmTypeOK
    <3>2. CASE AllocatePage
      BY <3>2 DEF AllocatePage
    <3>3. QED
      BY <3>1, <3>2
  <2>3. QED
    BY <1>1, <2>1, <2>2 DEF PmmInv, OpInv, AssertionsHold
<1>5. QED
  BY <1>2, <1>3, <1>4 DEF PmmInv

\* When the cursor has passed the last table and the list is empty, every
\* page is lent.
LEMMA AllLent ==
    ASSUME PmmInv, freelist_head = NULL, fill_t > NumTables
    PROVE  lent = Frames
<1>1. FreeFrames = {}
  BY DEF PmmInv, FreeListIsFree, OneList
<1>2. ASSUME NEW f \in Frames PROVE state[f] = "USED"
  <2>1. PICK t \in Tables : f \in Child(t)
    BY DEF Frames
  <2>2. ~(t > fill_t) /\ t # fill_t
    <3>1. NumTables \in Int
      BY PmmAssumption
    <3>2. fill_t \in 1..(NumTables + 1)
      BY Zenon DEF PmmInv, PmmTypeOK
    <3>3. t \in 1..NumTables
      BY DEF Tables
    <3>4. QED
      BY <3>1, <3>2, <3>3
  <2>3. state[f] # "UNINIT"
    BY <2>1, <2>2 DEF PmmInv, CursorInv
  <2>4. state[f] # "FREE"
    BY <1>1 DEF FreeFrames
  <2>5. QED
    BY <2>3, <2>4 DEF PmmInv, PmmTypeOK
<1>3. QED
  BY <1>2 DEF PmmInv, LentInv

\* TakePage's panics other than "out of memory" are dead code.
LEMMA TakePageCases ==
    ASSUME PmmInv, TakePage
    PROVE  \/ freelist_head = NULL /\ Panic("out of memory")
           \/ /\ freelist_head \in FreeFrames
              /\ freelist_head' = word[freelist_head]
              /\ state' = [state EXCEPT ![freelist_head] = "USED"]
              /\ used_pages' = used_pages + 1
              /\ word' = [word EXCEPT ![freelist_head] = NULL]
              /\ lent' = lent \cup {freelist_head}
              /\ op' = "idle"
              /\ UNCHANGED <<fill_t, fill_p, added, panic>>
<1>1. CASE freelist_head = NULL
  BY <1>1 DEF TakePage
<1>2. CASE freelist_head # NULL
  <2>1. freelist_head \in FreeFrames
    BY <1>2 DEF PmmInv, FreeListIsFree, OneList
  <2>2. state[freelist_head] = "FREE" /\ GetPageInfo(freelist_head) = "found"
    BY <2>1, PageInfoFacts DEF FreeFrames
  <2>3. QED
    BY <1>2, <2>1, <2>2 DEF TakePage
<1>3. QED
  BY <1>1, <1>2

LEMMA TakePageInv == PmmInv /\ TakePage => PmmInv'
<1> SUFFICES ASSUME PmmInv, TakePage PROVE PmmInv'
  OBVIOUS
<1>1. CASE freelist_head = NULL /\ Panic("out of memory")
  <2>1. fill_t > NumTables
    BY <1>1 DEF TakePage, PmmInv, OpInv
  <2>2. lent = Frames
    BY <1>1, <2>1, AllLent
  <2>3. /\ UNCHANGED <<state, word, freelist_head, fill_t, fill_p, added,
                       used_pages, op, lent>>
        /\ panic' = "out of memory"
    BY <1>1 DEF Panic
  <2>4. PmmTypeOK' /\ CursorInv' /\ LentInv' /\ FreeListIsFree'
    BY <2>3 DEF PmmInv, PmmTypeOK, CursorInv, LentInv,
                FreeListIsFree, FreeFrames
  <2>5. OpInv'
    BY <2>2, <2>3 DEF PmmInv, OpInv, AssertionsHold
  <2>6. QED
    BY <2>4, <2>5 DEF PmmInv
<1>2. CASE /\ freelist_head \in FreeFrames
           /\ freelist_head' = word[freelist_head]
           /\ state' = [state EXCEPT ![freelist_head] = "USED"]
           /\ used_pages' = used_pages + 1
           /\ word' = [word EXCEPT ![freelist_head] = NULL]
           /\ lent' = lent \cup {freelist_head}
           /\ op' = "idle"
           /\ UNCHANGED <<fill_t, fill_p, added, panic>>
  <2> DEFINE f == freelist_head
  <2>1. f \in Frames /\ f # NULL /\ state[f] = "FREE" /\ f \notin lent
    BY <1>2, PmmAssumption DEF FreeFrames, PmmInv, LentInv
  <2>2. state' = [state EXCEPT ![f] = "USED"] /\ word' = [word EXCEPT ![f] = NULL]
        /\ lent' = lent \cup {f} /\ freelist_head' = word[f]
    BY <1>2
  <2>3. \A g \in Frames : state'[g] = (IF g = f THEN "USED" ELSE state[g])
                          /\ word'[g] = (IF g = f THEN NULL ELSE word[g])
    BY <2>2 DEF PmmInv, PmmTypeOK
  <2>4. PmmTypeOK'
    <3>1. /\ state' \in [Frames -> {"UNINIT", "FREE", "USED"}]
          /\ word' \in [Frames -> Frames \cup {NULL}]
          /\ freelist_head' \in Frames \cup {NULL}
          /\ lent' \subseteq Frames
      BY <2>1, <2>2 DEF PmmInv, PmmTypeOK
    <3>2. used_pages' \in Int
      <4>1. used_pages \in Int
        BY DEF PmmInv, PmmTypeOK
      <4>2. used_pages' = used_pages + 1
        BY <1>2
      <4>3. QED
        BY <4>1, <4>2
    <3>3. QED
      BY <1>2, <3>1, <3>2 DEF PmmInv, PmmTypeOK
  <2>5. CursorInv'
    BY <1>2, <2>1, <2>3, FramesFacts DEF PmmInv, CursorInv
  <2>6. LentInv'
    <3>1. lent' = {g \in Frames : state'[g] = "USED"}
      BY <2>1, <2>2, <2>3 DEF PmmInv, LentInv
    <3>2. QED
      BY <3>1 DEF LentInv
  <2>7. OpInv'
    <3>1. lent # Frames
      BY <2>1
    <3>2. panic' # "out of memory"
      BY <1>2, <3>1 DEF PmmInv, OpInv
    <3>3. QED
      BY <1>2, <3>2 DEF PmmInv, OpInv, AssertionsHold
  <2>8. FreeListIsFree'
    <3>1. FreeFrames' = FreeFrames \ {f}
      BY <2>1, <2>3 DEF FreeFrames
    <3>2. \A x \in FreeFrames \ {f} : word'[x] = word[x]
      BY <2>3 DEF FreeFrames
    <3>3. OneList(f, FreeFrames, word) /\ NULL \notin FreeFrames
      BY PmmAssumption DEF PmmInv, FreeListIsFree, FreeFrames
    <3> HIDE DEF f
    <3>4. OneList(word[f], FreeFrames \ {f}, word')
      BY <2>1, <3>2, <3>3, ListPop
    <3>5. QED
      BY <2>2, <3>1, <3>4 DEF FreeListIsFree
  <2>9. QED
    BY <2>4, <2>5, <2>6, <2>7, <2>8 DEF PmmInv
<1>3. QED
  BY <1>1, <1>2, TakePageCases

\* free_page on a page its holder gives back always succeeds; on a page that
\* is no RAM it does nothing, or panics when the page adjoins a table.
LEMMA FreePageCases ==
    ASSUME PmmInv, NEW f \in lent \cup Foreign, FreePage(f)
    PROVE  \/ UNCHANGED pmmVars
           \/ f \in Ends \cap Foreign /\ Panic("out of bounds") /\ panic = "none"
           \/ /\ f \in lent
              /\ state' = [state EXCEPT ![f] = "FREE"]
              /\ used_pages' = used_pages - 1
              /\ word' = [word EXCEPT ![f] = freelist_head]
              /\ freelist_head' = f
              /\ lent' = lent \ {f}
              /\ op = "idle" /\ panic = "none"
              /\ UNCHANGED <<fill_t, fill_p, added, op, panic>>
<1>1. CASE f \in lent
  <2>1. f \in Frames /\ state[f] = "USED"
    BY <1>1 DEF PmmInv, LentInv
  <2>2. GetPageInfo(f) = "found"
    BY <2>1, PageInfoFacts
  <2>3. QED
    BY <1>1, <2>1, <2>2 DEF FreePage
<1>2. CASE f \in Foreign
  <2>1. GetPageInfo(f) \in {"NULL", "out of bounds"}
    BY <1>2, PageInfoFacts DEF GetPageInfo
  <2>2. CASE GetPageInfo(f) = "NULL"
    BY <2>2 DEF FreePage
  <2>3. CASE GetPageInfo(f) = "out of bounds"
    <3>1. f \in Ends
      BY <1>2, <2>3, PageInfoFacts
    <3>2. Panic("out of bounds") /\ panic = "none"
      BY <2>3 DEF FreePage
    <3>3. QED
      BY <1>2, <3>1, <3>2
  <2>4. QED
    BY <2>1, <2>2, <2>3
<1>3. QED
  BY <1>1, <1>2

LEMMA PmmStutterInv == PmmInv /\ UNCHANGED pmmVars => PmmInv'
BY DEF pmmVars, PmmInv, PmmTypeOK, CursorInv, LentInv, OpInv,
       AssertionsHold, FreeListIsFree, FreeFrames

LEMMA FreePageInv ==
    ASSUME PmmInv, NEW f \in lent \cup Foreign, FreePage(f)
    PROVE  PmmInv'
<1>1. CASE UNCHANGED pmmVars
  BY <1>1, PmmStutterInv
<1>2. CASE f \in Ends \cap Foreign /\ Panic("out of bounds") /\ panic = "none"
  <2>1. /\ UNCHANGED <<state, word, freelist_head, fill_t, fill_p, added,
                       used_pages, op, lent>>
        /\ panic' = "out of bounds"
    BY <1>2 DEF Panic
  <2>2. PmmTypeOK' /\ CursorInv' /\ LentInv' /\ FreeListIsFree'
    BY <2>1 DEF PmmInv, PmmTypeOK, CursorInv, LentInv,
                FreeListIsFree, FreeFrames
  <2>3. OpInv'
    BY <1>2, <2>1 DEF PmmInv, OpInv, AssertionsHold
  <2>4. QED
    BY <2>2, <2>3 DEF PmmInv
<1>3. CASE /\ f \in lent
           /\ state' = [state EXCEPT ![f] = "FREE"]
           /\ used_pages' = used_pages - 1
           /\ word' = [word EXCEPT ![f] = freelist_head]
           /\ freelist_head' = f
           /\ lent' = lent \ {f}
           /\ op = "idle" /\ panic = "none"
           /\ UNCHANGED <<fill_t, fill_p, added, op, panic>>
  <2>1. f \in Frames /\ f # NULL /\ state[f] = "USED" /\ f \notin FreeFrames
    BY <1>3, PmmAssumption DEF FreeFrames, PmmInv, LentInv
  <2>2. \A g \in Frames : state'[g] = (IF g = f THEN "FREE" ELSE state[g])
                          /\ word'[g] = (IF g = f THEN freelist_head ELSE word[g])
    BY <1>3 DEF PmmInv, PmmTypeOK
  <2>3. PmmTypeOK'
    <3>1. /\ state' \in [Frames -> {"UNINIT", "FREE", "USED"}]
          /\ word' \in [Frames -> Frames \cup {NULL}]
          /\ freelist_head' \in Frames \cup {NULL}
          /\ lent' \subseteq Frames
      BY <1>3, <2>1 DEF PmmInv, PmmTypeOK
    <3>2. used_pages' \in Int
      BY <1>3 DEF PmmInv, PmmTypeOK
    <3>3. QED
      BY <1>3, <3>1, <3>2 DEF PmmInv, PmmTypeOK
  <2>4. CursorInv'
    BY <1>3, <2>1, <2>2, FramesFacts DEF PmmInv, CursorInv
  <2>5. LentInv'
    <3>1. lent' = {g \in Frames : state'[g] = "USED"}
      BY <1>3, <2>1, <2>2 DEF PmmInv, LentInv
    <3>2. QED
      BY <3>1 DEF LentInv
  <2>6. OpInv'
    BY <1>3, <2>1 DEF PmmInv, OpInv, AssertionsHold
  <2>7. FreeListIsFree'
    <3>1. FreeFrames' = FreeFrames \cup {f}
      BY <2>1, <2>2 DEF FreeFrames
    <3>2. word'[f] = freelist_head /\ \A x \in FreeFrames : word'[x] = word[x]
      BY <2>1, <2>2 DEF FreeFrames
    <3>3. OneList(freelist_head, FreeFrames, word)
      BY DEF PmmInv, FreeListIsFree
    <3>4. OneList(f, FreeFrames \cup {f}, word')
      BY <2>1, <3>2, <3>3, ListPush
    <3>5. QED
      BY <1>3, <3>1, <3>4 DEF FreeListIsFree
  <2>8. QED
    BY <2>3, <2>4, <2>5, <2>6, <2>7 DEF PmmInv
<1>4. QED
  BY <1>1, <1>2, <1>3, FreePageCases

LEMMA HolderWritesInv == PmmInv /\ HolderWrites => PmmInv'
<1> SUFFICES ASSUME PmmInv, HolderWrites PROVE PmmInv'
  OBVIOUS
<1>1. PICK f \in lent, w \in Frames \cup {NULL} : word' = [word EXCEPT ![f] = w]
  BY DEF HolderWrites
<1>2. UNCHANGED <<state, freelist_head, fill_t, fill_p, added, used_pages, op,
                  panic, lent>>
  BY DEF HolderWrites
<1>3. PmmTypeOK' /\ CursorInv' /\ LentInv' /\ OpInv'
  BY <1>1, <1>2 DEF PmmInv, PmmTypeOK, CursorInv, LentInv, OpInv,
                    AssertionsHold
<1>4. FreeListIsFree'
  <2>1. FreeFrames' = FreeFrames /\ f \notin FreeFrames
    BY <1>1, <1>2 DEF FreeFrames, PmmInv, LentInv
  <2>2. \A x \in FreeFrames : word'[x] = word[x]
    BY <1>1, <2>1 DEF FreeFrames, PmmInv, PmmTypeOK
  <2>3. OneList(freelist_head, FreeFrames, word)
    BY DEF PmmInv, FreeListIsFree
  <2>4. OneList(freelist_head, FreeFrames, word')
    BY <2>2, <2>3, ListFrame
  <2>5. QED
    BY <1>2, <2>1, <2>4 DEF FreeListIsFree
<1>5. QED
  BY <1>3, <1>4 DEF PmmInv

LEMMA PmmNextInv == PmmInv /\ [PmmNext]_pmmVars => PmmInv'
<1> SUFFICES ASSUME PmmInv, [PmmNext]_pmmVars PROVE PmmInv'
  OBVIOUS
<1>1. CASE FillPage
  BY <1>1, FillPageInv
<1>2. CASE FillDone \/ AllocatePage
  BY <1>2, ControlInv
<1>3. CASE TakePage
  BY <1>3, TakePageInv
<1>4. CASE \E f \in lent \cup Foreign : FreePage(f)
  BY <1>4, FreePageInv
<1>5. CASE HolderWrites
  BY <1>5, HolderWritesInv
<1>6. CASE PmmHalted \/ UNCHANGED pmmVars
  BY <1>6, PmmStutterInv DEF PmmHalted
<1>7. QED
  BY <1>1, <1>2, <1>3, <1>4, <1>5, <1>6 DEF PmmNext

\* The inductive invariant holds throughout.
THEOREM PmmInvariant == PmmSpec => []PmmInv
<1>1. PmmInit => PmmInv
  BY PmmInitInv
<1>2. PmmInv /\ [PmmNext]_pmmVars => PmmInv'
  BY PmmNextInv
<1>3. QED
  BY <1>1, <1>2, PTL DEF PmmSpec

\* Lazy filling, allocation and freeing keep the free list a single chain
\* through exactly the free pages.
THEOREM FreeListCorrect == PmmSpec => []FreeListIsFree
<1>1. PmmInv => FreeListIsFree
  BY DEF PmmInv
<1>2. QED
  BY <1>1, PmmInvariant, PTL

\* used_pages is the number of pages handed out.
CountInv == used_pages \in Nat /\ UsedPagesIsExact

\* allocate_page counts the page it hands out, free_page the page it gets back, and
\* nothing else changes either number.
LEMMA CountNextInv == PmmInv /\ CountInv /\ [PmmNext]_pmmVars => CountInv'
<1> SUFFICES ASSUME PmmInv, CountInv, [PmmNext]_pmmVars PROVE CountInv'
  OBVIOUS
<1>0. PICK number \in [lent -> 1..used_pages] :
        /\ \A f, g \in lent : number[f] = number[g] => f = g
        /\ \A n \in 1..used_pages : \E f \in lent : number[f] = n
  BY DEF CountInv, UsedPagesIsExact
<1>1. CASE UNCHANGED <<lent, used_pages>>
  BY <1>1 DEF CountInv, UsedPagesIsExact
<1>2. ASSUME NEW f \in Frames, f \notin lent, lent' = lent \cup {f}, used_pages' = used_pages + 1
      PROVE  CountInv'
  <2> DEFINE next == [g \in lent' |-> IF g = f THEN used_pages' ELSE number[g]]
  <2>1. used_pages' \in Nat /\ used_pages \in Nat
    BY <1>2 DEF CountInv
  <2>2. next \in [lent' -> 1..used_pages']
    BY <1>2, <2>1
  <2>3. \A g, h \in lent' : next[g] = next[h] => g = h
    BY <1>0, <1>2, <2>1
  <2>4. \A n \in 1..used_pages' : \E g \in lent' : next[g] = n
    <3> SUFFICES ASSUME NEW n \in 1..used_pages' PROVE \E g \in lent' : next[g] = n
      OBVIOUS
    <3>1. CASE n = used_pages'
      BY <3>1, <1>2
    <3>2. CASE n \in 1..used_pages
      BY <3>2, <1>0, <1>2
    <3>3. n = used_pages' \/ n \in 1..used_pages
      BY <1>2, <2>1
    <3> QED BY <3>1, <3>2, <3>3
  <2> HIDE DEF next
  <2> QED BY <2>1, <2>2, <2>3, <2>4 DEF CountInv, UsedPagesIsExact
<1>3. ASSUME NEW f \in lent, lent' = lent \ {f}, used_pages' = used_pages - 1
      PROVE  CountInv'
  <2> DEFINE next == [g \in lent' |-> IF number[g] = used_pages THEN number[f] ELSE number[g]]
  <2>1. used_pages' \in Nat /\ used_pages \in Nat
    BY <1>0, <1>3 DEF CountInv
  <2>2. next \in [lent' -> 1..used_pages']
    BY <1>0, <1>3, <2>1
  <2>3. \A g, h \in lent' : next[g] = next[h] => g = h
    BY <1>0, <1>3, <2>1
  <2>4. \A n \in 1..used_pages' : \E g \in lent' : next[g] = n
    <3> SUFFICES ASSUME NEW n \in 1..used_pages' PROVE \E g \in lent' : next[g] = n
      OBVIOUS
    <3>1. n \in 1..used_pages /\ used_pages \in 1..used_pages /\ n # used_pages
      BY <1>3, <2>1
    <3>2. CASE n = number[f]
      <4>1. PICK g \in lent : number[g] = used_pages
        BY <1>0, <3>1
      <4> QED BY <1>3, <3>1, <3>2, <4>1
    <3>3. CASE n # number[f]
      <4>1. PICK g \in lent : number[g] = n
        BY <1>0, <3>1
      <4> QED BY <1>3, <3>1, <3>3, <4>1
    <3> QED BY <3>2, <3>3
  <2> HIDE DEF next
  <2> QED BY <2>1, <2>2, <2>3, <2>4 DEF CountInv, UsedPagesIsExact
<1>4. CASE TakePage
  <2>1. freelist_head \in FreeFrames => freelist_head \in Frames /\ freelist_head \notin lent
    BY DEF FreeFrames, PmmInv, LentInv
  <2> QED BY <1>1, <1>2, <1>4, <2>1, TakePageCases DEF Panic
<1>5. ASSUME NEW f \in lent \cup Foreign, FreePage(f) PROVE CountInv'
  BY <1>1, <1>3, <1>5, FreePageCases DEF Panic, pmmVars
<1> QED BY <1>1, <1>4, <1>5 DEF PmmNext, pmmVars, FillPage, FillDone, AllocatePage, HolderWrites,
                                PmmHalted

\* used_pages counts the pages handed out.
THEOREM UsedPagesCorrect == PmmSpec => []UsedPagesIsExact
<1>1. PmmInit => CountInv
  <2> SUFFICES ASSUME PmmInit PROVE CountInv
    OBVIOUS
  <2>1. lent = {} /\ used_pages = 0
    BY DEF PmmInit
  <2>2. [f \in lent |-> 1] \in [lent -> 1..used_pages]
    BY <2>1
  <2>3. \A n \in 1..used_pages : FALSE
    BY <2>1
  <2>4. UsedPagesIsExact
    BY <2>1, <2>2, <2>3, Zenon DEF UsedPagesIsExact
  <2> QED BY <2>1, <2>4 DEF CountInv
<1>2. CountInv => UsedPagesIsExact
  BY DEF CountInv
<1> QED BY <1>1, <1>2, CountNextInv, PmmInvariant, PTL DEF PmmSpec

\* The allocator's assertions hold on every machine where no device memory
\* that a process maps begins exactly at the end of a region of RAM.
THEOREM AssertionsCorrect ==
    ASSUME Foreign \cap Ends = {}
    PROVE  PmmSpec => []AssertionsHold
<1>1. PmmInv => AssertionsHold
  BY DEF PmmInv, OpInv
<1>2. QED
  BY <1>1, PmmInvariant, PTL

\* allocate_page and free_page implement the abstract allocator.
THEOREM PmmRefinement == PmmSpec => ImplementsPageAllocator
<1>1. PmmInit => Abstract!Init
  BY DEF PmmInit, Abstract!Init
<1> DEFINE av == Frames \ lent
           fl == panic = "out of memory"
<1>2. PmmInv /\ [PmmNext]_pmmVars => [~fl /\ Abstract!Next]_<<av, fl>>
  <2> SUFFICES ASSUME PmmInv, [PmmNext]_pmmVars
               PROVE  UNCHANGED <<av, fl>> \/ (~fl /\ Abstract!Next)
    OBVIOUS
  <2>1. CASE UNCHANGED <<lent, panic>>
    BY <2>1
  <2>2. CASE TakePage
    <3>1. CASE freelist_head = NULL /\ Panic("out of memory")
      <4>1. fill_t > NumTables
        BY <2>2, <3>1 DEF TakePage, PmmInv, OpInv
      <4>2. lent = Frames
        BY <3>1, <4>1, AllLent
      <4>3. panic = "none" /\ panic' = "out of memory" /\ lent' = lent
        BY <2>2, <3>1 DEF Panic, TakePage
      <4>4. Abstract!Fail
        BY <4>2, <4>3 DEF Abstract!Fail
      <4>5. QED
        BY <4>3, <4>4 DEF Abstract!Next
    <3>2. CASE /\ freelist_head \in FreeFrames
               /\ lent' = lent \cup {freelist_head} /\ UNCHANGED panic
      <4>1. freelist_head \in Frames \ lent /\ panic = "none"
        BY <2>2, <3>2 DEF FreeFrames, PmmInv, LentInv, TakePage
      <4>2. Abstract!Lend(freelist_head)
        BY <3>2, <4>1 DEF Abstract!Lend
      <4>3. QED
        BY <4>1, <4>2 DEF Abstract!Next
    <3>3. QED
      BY <2>2, <3>1, <3>2, TakePageCases
  <2>3. ASSUME NEW f \in lent \cup Foreign, FreePage(f)
        PROVE  UNCHANGED <<av, fl>> \/ (~fl /\ Abstract!Next)
    <3>1. CASE UNCHANGED pmmVars
      BY <3>1 DEF pmmVars
    <3>2. CASE Panic("out of bounds") /\ panic = "none"
      BY <3>2 DEF Panic
    <3>3. CASE f \in lent /\ lent' = lent \ {f} /\ panic = "none" /\ UNCHANGED panic
      <4>1. f \in Frames
        BY <3>3 DEF PmmInv, LentInv
      <4>2. Abstract!Return(f)
        BY <3>3, <4>1 DEF Abstract!Return
      <4>3. QED
        BY <3>3, <4>1, <4>2 DEF Abstract!Next
    <3>4. QED
      BY <2>3, <3>1, <3>2, <3>3, FreePageCases
  <2>4. QED
    BY <2>1, <2>2, <2>3
    DEF PmmNext, pmmVars, FillPage, FillDone, AllocatePage, HolderWrites, PmmHalted
<1>3. QED
  BY <1>1, <1>2, PmmInvariant, PTL DEF PmmSpec, ImplementsPageAllocator, Abstract!Spec

-----------------------------------------------------------------------------
(***************************************************************************)
(* The scheduler                                                           *)
(***************************************************************************)

BootLabels == {"boot", "link_idle", "make_reaper", "link_reaper",
               "make_shell", "link_shell", "idle"}

\* The memory a thread on the ring or on the reap list owns.
Full(t) == IF t \in Procs THEN Resources ELSE Resources \ {"pagemap"}

\* What the reaper still has to free when its next step is label.
Remaining(label) ==
    CASE label = "pagemap" -> Resources
      [] label = "fds"     -> {"fds", "stack", "struct"}
      [] label = "stack"   -> {"stack", "struct"}
      [] label = "struct"  -> {"struct"}

\* The thread whose stack is in use: schedule() has already moved the head.
Running == IF sched.at = "off" THEN threads ELSE sched.prev

\* Where each kind of code can be.
PlaceInv ==
    /\ pc[Boot] \in BootLabels
    /\ pc[Reaper] \in {"start"} \cup Resources
    /\ pc[Shell] \in {"start", "link", "bash"}
    /\ \A p \in Procs : pc[p] \in {"exit", "ran_after_exit", "quit"} =>
                            thread_state[p] = "REAPING"
    /\ sched.at = "off" => sched.prev = NULL

\* kmain until it has linked the three kernel threads.
BootInv ==
    /\ threads = NULL <=> pc[Boot] \in {"boot", "link_idle"}
    /\ threads = NULL => linked = {} /\ current_thread = NULL
                         /\ rsp0 = Boot /\ cr3 = Boot
    /\ pc[Boot] # "idle" => /\ rsp = Boot /\ sched.at = "off"
                            /\ threads \in {NULL, Idle}
                            /\ pc[Shell] = "start" /\ pc[Reaper] = "start"
    /\ pc[Boot] = "link_idle" => creating.new = Idle
    /\ pc[Boot] = "link_reaper" => creating.new = Reaper
    /\ pc[Boot] = "link_shell" => creating.new = Shell

\* A thread struct between its allocation and its insertion in the ring.
CreateInv ==
    /\ pc[Shell] = "link" => creating.new \in Procs
    /\ creating.new # NULL =>
         /\ creating.had_threads = (threads # NULL)
         /\ creating.new \notin linked \cup queued
         /\ pc[Reaper] \in Resources => creating.new # victim
         /\ held[creating.new] = Full(creating.new)
         /\ thread_state[creating.new] = "RUNNING"
         /\ krsp[creating.new] = creating.new
         /\ usaved[creating.new] = creating.new

\* The ring, and what its members own.
RingInv ==
    /\ threads # NULL => threads \in linked /\ Idle \in linked
    /\ RingIsOneCycle
    /\ \A t \in linked : held[t] = Full(t)
    /\ \A t \in Kthreads : thread_state[t] = "RUNNING"
    /\ sleep_left[Idle] = 0

\* schedule() between its loops: the sleepers passed over are the stretch of
\* the ring from previous_thread to the head.
SchedInv ==
    sched.at # "off" =>
        LET passed == skipped \cup {sched.prev}
            ahead  == skipped \cup {threads}
        IN  /\ sched.prev \in linked \ skipped
            /\ threads \in linked \ skipped
            /\ skipped \subseteq linked
            /\ \A t \in skipped : sleep_left[t] > 0
            /\ \A t \in linked : next_thread[t] \in ahead => t \in passed
            /\ \A t \in passed : next_thread[t] \in ahead

\* What the CPU and the saved contexts refer to.
CpuInv ==
    threads # NULL =>
        /\ rsp = StackOf(Running)
        /\ cr3 = Pagemap(Running)
        /\ \/ current_thread = Running /\ rsp0 = Running
           \/ current_thread = NULL /\ rsp0 = Boot /\ Running = Idle
        /\ Running \in Procs => uregs = Running
        /\ \A t \in linked \ {Running} : krsp[t] = StackOf(t)
        /\ \A p \in (linked \cap Procs) \ {Running} : usaved[p] = p

\* The reap list.
QueueInv ==
    /\ ReapListIsComplete
    /\ \A t \in queued : /\ t \in Procs
                         /\ thread_state[t] = "REAPING"
                         /\ held[t] = Resources

\* The thread the reaper is taking apart is nowhere else.
VictimInv ==
    pc[Reaper] \in Resources =>
        /\ victim \in Procs
        /\ victim \notin linked \cup queued
        /\ thread_state[victim] = "REAPING"
        /\ held[victim] = Remaining(pc[Reaper])

\* Without the debugger, nobody returns from the schedule() of sys_exit.
PanicInv ==
    \/ dbgstub # "off"
    \/ /\ ~panicked
       /\ \A p \in Procs : sched.at = "off" /\ rsp = p => pc[p] # "ran_after_exit"

IInv ==
    /\ TypeOK /\ PlaceInv /\ BootInv /\ CreateInv /\ RingInv /\ SchedInv
    /\ CpuInv /\ QueueInv /\ VictimInv /\ PanicInv

\* most leaves are first-order; those with arithmetic or EXCEPT cite SMT
USE Zenon

-----------------------------------------------------------------------------
(* The invariant *)

LEMMA InitInv == Init => IInv
<1> SUFFICES ASSUME Init PROVE IInv
  OBVIOUS
<1> USE SchedulerAssumption DEF Init, Kthreads, Threads, Stacks, Off, NotCreating
<1>1. TypeOK
  <2>1. creating \in [new : Threads \cup {NULL}, had_threads : BOOLEAN]
    BY Zenon
  <2>2. sched \in [at : {"off", "skip", "reap"}, prev : Threads \cup {NULL}]
    OBVIOUS
  <2>3. sleep_left \in [Threads -> 0..Forever]
    BY SMT DEF Forever
  <2>4. dbgstub \in {"off", "paused", "running"} /\ panicked \in BOOLEAN
    BY Zenon
  <2> QED BY <2>1, <2>2, <2>3, <2>4 DEF TypeOK, Resources, Labels
<1>2. PlaceInv /\ BootInv
  BY DEF PlaceInv, BootInv, BootLabels, Resources
<1>3. CreateInv /\ SchedInv /\ CpuInv /\ VictimInv
  BY DEF CreateInv, SchedInv, CpuInv, VictimInv, Resources
<1>4. RingInv /\ QueueInv
  BY DEF RingInv, RingIsOneCycle, OneCycle, QueueInv, ReapListIsComplete, OneList
<1>5. PanicInv
  BY DEF PanicInv
<1> QED BY <1>1, <1>2, <1>3, <1>4, <1>5 DEF IInv

\* A new value at one place keeps a function's type.
LEMMA UpdatedAt ==
    ASSUME NEW D, NEW R, NEW f \in [D -> R], NEW a, NEW v \in R
    PROVE  [f EXCEPT ![a] = v] \in [D -> R]
OBVIOUS

\* schedule() comes back to the thread it left only if that is the idle
\* thread: the sleepers it passed over are then the whole rest of the ring.
LEMMA BackToPrevIsIdle ==
    ASSUME IInv, sched.at # "off", threads = sched.prev
    PROVE  threads = Idle /\ Idle \notin skipped
<1> DEFINE D == skipped \cup {threads}
<1>1. Idle \in linked /\ sleep_left[Idle] = 0 /\ threads # NULL
  BY SchedulerAssumption, SMT DEF IInv, TypeOK, RingInv, SchedInv, Threads, Kthreads
<1>2. D \in SUBSET linked /\ D # {} /\ \A t \in D : next_thread[t] \in D
  BY DEF IInv, SchedInv
<1>3. D = linked
  BY <1>2 DEF IInv, RingInv, RingIsOneCycle, OneCycle
<1>4. Idle \notin skipped
  <2>1. \A t \in skipped : sleep_left[t] > 0
    BY Zenon DEF IInv, SchedInv
  <2> QED BY ONLY <1>1, <2>1, SMT
<1> QED BY <1>1, <1>3, <1>4

\* What schedule() can rely on between its loops.
LEMMA InSchedule ==
    ASSUME IInv, sched.at # "off"
    PROVE  /\ threads \in linked /\ threads \in Threads /\ threads # NULL
           /\ sched.prev \in linked /\ sched.prev \in Threads
           /\ linked \subseteq Threads /\ NULL \notin linked
           /\ threads \notin queued /\ sched.prev \notin queued
           /\ next_thread[threads] \in linked
           /\ pc[Boot] = "idle"
           /\ thread_state[threads] = "REAPING" =>
                 threads \in Procs /\ sched.prev # threads
<1>1. /\ threads \in linked /\ sched.prev \in linked
      /\ linked \subseteq Threads /\ NULL \notin Threads
  BY SchedulerAssumption DEF IInv, TypeOK, SchedInv
<1>2. threads \notin queued /\ sched.prev \notin queued
  BY <1>1 DEF IInv, QueueInv, ReapListIsComplete
<1>3. next_thread[threads] \in linked /\ pc[Boot] = "idle"
  BY <1>1 DEF IInv, RingInv, RingIsOneCycle, OneCycle, BootInv
<1>4. ASSUME thread_state[threads] = "REAPING"
      PROVE  threads \in Procs /\ sched.prev # threads
  <2>1. threads \notin Kthreads
    BY <1>4 DEF IInv, RingInv
  <2>2. threads \in Procs
    BY <1>1, <2>1 DEF Threads
  <2>3. sched.prev # threads
    BY <2>1, BackToPrevIsIdle DEF Kthreads
  <2> QED BY <2>2, <2>3
<1> QED BY <1>1, <1>2, <1>3, <1>4

LEMMA SkipSleeperInv ==
    ASSUME IInv, SkipSleeper
    PROVE  IInv'
<1> USE SchedulerAssumption DEF IInv, SkipSleeper, cpu, reap
<1>0. /\ threads \in linked /\ linked \subseteq Threads /\ NULL \notin linked
      /\ sched.prev \in linked /\ sched.at = "skip"
      /\ next_thread[threads] \in linked
      /\ sched'.prev = sched.prev /\ sched'.at # "off"
  BY SMT DEF TypeOK, SchedInv, RingInv, RingIsOneCycle, OneCycle
<1>1. TypeOK'
  BY <1>0, SMT DEF TypeOK
<1>2. PlaceInv' /\ QueueInv' /\ VictimInv' /\ PanicInv'
  BY <1>0 DEF PlaceInv, QueueInv, ReapListIsComplete, VictimInv, PanicInv
<1>3. BootInv' /\ CreateInv'
  BY <1>0 DEF BootInv, CreateInv
<1>4. RingInv'
  BY <1>0 DEF RingInv, RingIsOneCycle
<1>5. CpuInv'
  BY <1>0 DEF CpuInv, Running
<1>6. SchedInv'
  <2>1. CASE sleep_left[threads] > 0
    <3>1. threads # sched.prev
      BY <2>1, BackToPrevIsIdle, SMT DEF SchedInv, RingInv
    <3>2. next_thread[threads] \notin skipped \cup {threads}
      BY <1>0, <3>1 DEF SchedInv
    <3> QED BY <1>0, <2>1, <3>1, <3>2, SMT DEF SchedInv, RingInv, RingIsOneCycle, OneCycle
  <2>2. CASE ~(sleep_left[threads] > 0)
    BY <1>0, <2>2 DEF SchedInv
  <2> QED BY <2>1, <2>2
<1> QED BY <1>1, <1>2, <1>3, <1>4, <1>5, <1>6

LEMMA ReapNextInv ==
    ASSUME IInv, ReapNext
    PROVE  IInv'
<1> USE SchedulerAssumption DEF IInv, ReapNext, cpu, reap
<1>0. /\ threads \in linked /\ linked \subseteq Threads /\ NULL \notin linked
      /\ sched.prev \in linked /\ sched.prev # threads
      /\ threads \in Procs /\ threads # NULL
      /\ threads \notin queued /\ sched.prev \notin queued
      /\ sched.prev \in Threads /\ threads \in Threads
  BY InSchedule
<1>1. /\ next_thread'[sched.prev] = next_thread[threads]
      /\ next_thread'[threads] = threads_to_reap
      /\ \A x \in Threads \ {threads, sched.prev} :
            next_thread'[x] = next_thread[x]
  BY <1>0 DEF TypeOK
<1>2. /\ OneCycle(linked', next_thread')
      /\ sched.prev \in linked' /\ threads' \in linked'
  <2>1. OneCycle(linked \ (skipped \cup {threads}), next_thread')
    <3>1. /\ OneCycle(linked, next_thread) /\ skipped \subseteq linked
          /\ sched.prev \notin skipped /\ threads \notin skipped
          /\ \A x \in linked : next_thread[x] \in skipped \cup {threads} =>
                                x \in skipped \cup {sched.prev}
          /\ \A x \in skipped \cup {sched.prev} :
                next_thread[x] \in skipped \cup {threads}
      BY DEF SchedInv, RingInv, RingIsOneCycle
    <3>2. \A x \in linked \ (skipped \cup {threads, sched.prev}) :
            next_thread'[x] = next_thread[x]
      BY <1>0, <1>1
    <3> HIDE DEF IInv, ReapNext
    <3> QED BY <1>0, <1>1, <3>1, <3>2, CycleCut, SMT
  <2>2. sched.prev \in linked'
    BY <1>0 DEF SchedInv
  <2>3. OneCycle(linked', next_thread') /\ threads' = next_thread'[sched.prev]
    BY <1>1, <2>1
  <2> HIDE DEF IInv, ReapNext
  <2>4. next_thread'[sched.prev] \in linked'
    BY <2>2, <2>3 DEF OneCycle
  <2> QED BY <2>2, <2>3, <2>4
<1>3. Idle \in linked'
  BY <1>0, SMT DEF SchedInv, RingInv, Kthreads
<1>4. TypeOK'
  BY <1>0, <1>2 DEF TypeOK
<1>5. RingInv'
  BY <1>0, <1>2, <1>3 DEF RingInv, RingIsOneCycle
<1>6. SchedInv'
  <2>1. \A t \in linked' : next_thread'[t] = threads' => t = sched.prev
    <3>1. threads' = next_thread'[sched.prev]
      BY <1>1
    <3> HIDE DEF IInv, ReapNext
    <3> QED BY <1>2, <3>1 DEF OneCycle
  <2>2. sched' = sched /\ skipped' = {} /\ threads' = next_thread'[sched.prev]
    BY <1>1
  <2> HIDE DEF IInv, ReapNext
  <2> QED BY <1>2, <2>1, <2>2 DEF SchedInv
<1>7. QueueInv'
  <2>1. \A x \in queued : next_thread'[x] = next_thread[x]
    BY <1>0, <1>1 DEF TypeOK
  <2>2. OneList(threads_to_reap, queued, next_thread)
    BY DEF QueueInv, ReapListIsComplete
  <2>3. OneList(threads_to_reap', queued', next_thread')
    <3>1. OneList(threads, queued \cup {threads}, next_thread')
      <4> HIDE DEF IInv, ReapNext
      <4> QED BY <1>0, <1>1, <2>1, <2>2, ListPush
    <3> QED BY <3>1
  <2>4. queued' \cap linked' = {}
    BY DEF QueueInv, ReapListIsComplete
  <2>5. \A t \in queued' : /\ t \in Procs /\ thread_state'[t] = "REAPING"
                           /\ held'[t] = Resources
    BY <1>0 DEF QueueInv, RingInv, Full
  <2> QED BY <2>3, <2>4, <2>5 DEF QueueInv, ReapListIsComplete
<1>8. PlaceInv' /\ VictimInv' /\ PanicInv'
  BY <1>0 DEF PlaceInv, VictimInv, PanicInv
<1>9. BootInv' /\ CreateInv'
  BY <1>0, <1>2 DEF BootInv, CreateInv, TypeOK
<1>10. CpuInv'
  BY <1>0 DEF CpuInv, Running
<1> QED BY <1>4, <1>5, <1>6, <1>7, <1>8, <1>9, <1>10

LEMMA DispatchInv ==
    ASSUME IInv, Dispatch
    PROVE  IInv'
<1> USE SchedulerAssumption DEF IInv, Dispatch, ring, reap
<1>0. /\ threads \in linked /\ linked \subseteq Threads /\ NULL \notin linked
      /\ sched.prev \in linked /\ pc[Boot] = "idle" /\ threads # NULL
      /\ sched' = Off
  BY DEF TypeOK, SchedInv, BootInv, Threads, Kthreads
<1>u. /\ sched'.at = "off" /\ sched'.prev = NULL /\ sched.at = "reap"
      /\ UNCHANGED <<threads, next_thread, linked, skipped, threads_to_reap, queued, victim, held,
                     thread_state, sleep_left, pc, creating, dbgstub, panicked>>
  <2>1. sched'.at = "off" /\ sched'.prev = NULL
    BY ONLY <1>0, SMT DEF Off
  <2> QED BY <2>1
<1>1. RingInv' /\ SchedInv' /\ QueueInv' /\ VictimInv'
  <2>1. RingInv'
    BY <1>u DEF RingInv, RingIsOneCycle
  <2>2. SchedInv'
    BY <1>u DEF SchedInv
  <2>3. QueueInv'
    BY <1>u DEF QueueInv, ReapListIsComplete
  <2>4. VictimInv'
    BY <1>u DEF VictimInv
  <2> QED BY <2>1, <2>2, <2>3, <2>4
<1>p. PlaceInv' /\ BootInv'
  <2>1. PlaceInv'
    BY <1>u DEF PlaceInv
  <2>2. BootInv'
    BY <1>0, <1>u DEF BootInv
  <2> QED BY <2>1, <2>2
<1>t. sched' \in [at : {"off", "skip", "reap"}, prev : Threads \cup {NULL}]
  BY ONLY <1>0, SMT DEF Off
<1>2. CASE threads = sched.prev
  <2>1. threads = Idle
    BY <1>2, <1>0, BackToPrevIsIdle
  <2>c. UNCHANGED <<rsp, cr3, rsp0, uregs, usaved, krsp, current_thread>>
    BY <1>2 DEF cpu
  <2>2. TypeOK' /\ CreateInv'
    <3>1. TypeOK'
      BY <1>t, <1>u, <2>c DEF TypeOK
    <3>2. CreateInv'
      BY <1>u, <2>c DEF CreateInv
    <3> QED BY <3>1, <3>2
  <2>3. CpuInv'
    <3>1. Running' = Running
      BY <1>2, <1>u DEF Running
    <3> QED BY <3>1, <1>u, <2>c DEF CpuInv
  <2>4. PanicInv'
    BY <1>0, <1>2, <2>1, <2>3 DEF PanicInv, CpuInv, Running, Off, StackOf, Threads
  <2> QED BY <1>1, <1>p, <2>2, <2>3, <2>4
<1>3. CASE threads # sched.prev
  <2>1. /\ SwitchTo(sched.prev, threads)
        /\ krsp[threads] = StackOf(threads)
        /\ rsp = StackOf(sched.prev)
        /\ threads \in Procs => usaved[threads] = threads
        /\ sched.prev \in Procs => uregs = sched.prev
    BY <1>0, <1>3 DEF CpuInv, Running
  <2>2. TypeOK'
    <3>1. usaved' \in [Threads -> Stacks] /\ krsp' \in [Threads -> Stacks]
      <4>1. /\ krsp' = [krsp EXCEPT ![sched.prev] = rsp]
            /\ usaved' = IF sched.prev \in Procs THEN [usaved EXCEPT ![sched.prev] = uregs]
                                                 ELSE usaved
        BY <2>1, Zenon DEF SwitchTo
      <4>2. /\ krsp \in [Threads -> Stacks] /\ usaved \in [Threads -> Stacks]
            /\ rsp \in Stacks /\ uregs \in Stacks
        BY <1>0, Zenon DEF TypeOK
      <4> QED BY <4>1, <4>2, UpdatedAt, Zenon
    <3>2. rsp' \in Stacks /\ uregs' \in Stacks
      <4>1. threads \in Threads
        BY <1>0
      <4> QED BY <2>1, <3>1, <4>1 DEF TypeOK, SwitchTo
    <3>3. cr3' \in Stacks /\ rsp0' \in Stacks /\ current_thread' \in Threads \cup {NULL}
      BY <1>0, <2>1 DEF SwitchTo, Pagemap, Stacks, Threads
    <3> QED BY <1>t, <1>u, <3>1, <3>2, <3>3 DEF TypeOK
  <2>4. CreateInv'
    BY <1>0, <2>1 DEF CreateInv, SwitchTo, TypeOK
  <2>5. CpuInv'
    <3>1. Running = sched.prev /\ Running' = threads /\ threads' = threads /\ linked' = linked
      BY <1>u DEF Running
    <3>2. /\ \A t \in linked : krsp'[t] = IF t = sched.prev THEN rsp ELSE krsp[t]
          /\ \A t \in linked : t # sched.prev => usaved'[t] = usaved[t]
          /\ sched.prev \in Procs => usaved'[sched.prev] = uregs
      <4>1. krsp \in [Threads -> Stacks] /\ usaved \in [Threads -> Stacks]
        BY DEF TypeOK
      <4>2. /\ krsp' = [krsp EXCEPT ![sched.prev] = rsp]
            /\ usaved' = IF sched.prev \in Procs THEN [usaved EXCEPT ![sched.prev] = uregs]
                                                 ELSE usaved
        BY <2>1 DEF SwitchTo
      <4> QED BY ONLY <1>0, <4>1, <4>2, SMT
    <3>3. /\ rsp' = krsp[threads] /\ cr3' = Pagemap(threads) /\ rsp0' = threads
          /\ current_thread' = threads
          /\ threads \in Procs => uregs' = usaved'[threads]
      BY <2>1 DEF SwitchTo
    <3>4. /\ \A t \in linked \ {sched.prev} : krsp[t] = StackOf(t)
          /\ \A p \in (linked \cap Procs) \ {sched.prev} : usaved[p] = p
      BY <1>0, <3>1 DEF CpuInv
    <3>5. rsp' = StackOf(threads) /\ (threads \in Procs => uregs' = threads)
      BY <1>0, <1>3, <2>1, <3>2, <3>3
    <3>6. /\ \A t \in linked \ {threads} : krsp'[t] = StackOf(t)
          /\ \A p \in (linked \cap Procs) \ {threads} : usaved'[p] = p
      BY <2>1, <3>2, <3>4
    <3> QED BY <3>1, <3>3, <3>5, <3>6 DEF CpuInv
  <2>6. PanicInv'
    <3>1. \A p \in Procs : rsp' = p => threads = p
      BY <1>0, <2>1 DEF SwitchTo, StackOf, Threads, Kthreads
    <3> QED BY <3>1 DEF PanicInv, PlaceInv
  <2> QED BY <1>1, <1>p, <2>2, <2>4, <2>5, <2>6
<1> QED BY <1>2, <1>3

\* A call of schedule() by a thread or from an interrupt, whatever else the
\* step does to the caller's place and to the sleepers.
LEMMA EnterScheduleInv ==
    ASSUME IInv, EnterSchedule, sched.at = "off", pc[Boot] = "idle",
           UNCHANGED <<cpu, reap, thread_state, creating, dbgstub, panicked>>,
           sleep_left' \in [Threads -> 0..Forever], sleep_left'[Idle] = 0,
           pc' \in [Stacks -> Labels], pc'[Boot] = "idle",
           pc'[Reaper] = pc[Reaper], pc'[Shell] \in {"start", "link", "bash"},
           pc'[Shell] = "link" => pc[Shell] = "link",
           \A p \in Procs : pc'[p] \in {"exit", "ran_after_exit", "quit"} =>
                                thread_state[p] = "REAPING"
    PROVE  IInv'
<1> USE SchedulerAssumption DEF IInv, cpu, reap
<1>0. /\ threads \in linked /\ linked \subseteq Threads /\ NULL \notin linked
      /\ threads # NULL /\ next_thread[threads] \in linked
  BY DEF TypeOK, BootInv, RingInv, RingIsOneCycle, OneCycle
<1>1. /\ threads' \in linked /\ linked' = linked /\ next_thread' = next_thread
      /\ threads' # NULL /\ Running' = Running
      /\ sched' \in [at : {"off", "skip"}, prev : Threads \cup {NULL}]
      /\ sched'.at = "off" => sched'.prev = NULL
      /\ sched'.at # "off" => /\ sched'.prev = threads /\ skipped' = {}
                              /\ threads' = next_thread[threads]
      /\ skipped' \subseteq Threads
  <2>1. CASE dbgstub = "paused"
    <3>1. UNCHANGED <<threads, linked, next_thread, skipped, sched>>
      BY <2>1 DEF EnterSchedule, ring
    <3> QED BY <1>0, <3>1 DEF Running, TypeOK, PlaceInv
  <2>2. CASE dbgstub # "paused"
    <3>1. /\ sched' = [at |-> "skip", prev |-> threads] /\ threads' = next_thread[threads]
          /\ skipped' = {} /\ next_thread' = next_thread /\ linked' = linked
      BY <2>2 DEF EnterSchedule
    <3>2. sched'.at = "skip" /\ sched'.prev = threads
      BY <3>1
    <3>3. sched' \in [at : {"off", "skip"}, prev : Threads \cup {NULL}]
      BY ONLY <1>0, <3>1, SMT
    <3> QED BY <1>0, <3>1, <3>2, <3>3 DEF Running
  <2> QED BY <2>1, <2>2
<1>2. TypeOK'
  <2>1. UNCHANGED <<creating, dbgstub, panicked>>
    OBVIOUS
  <2>2. /\ creating' \in [new : Threads \cup {NULL}, had_threads : BOOLEAN]
        /\ dbgstub' \in {"off", "paused", "running"} /\ panicked' \in BOOLEAN
    BY <2>1, Zenon DEF TypeOK
  <2> QED BY <1>0, <1>1, <2>2 DEF TypeOK
<1>3. PlaceInv' /\ QueueInv' /\ VictimInv'
  BY <1>1 DEF PlaceInv, QueueInv, ReapListIsComplete, VictimInv
<1>4. BootInv' /\ CreateInv'
  BY <1>0, <1>1 DEF BootInv, CreateInv
<1>5. RingInv'
  BY <1>0, <1>1 DEF RingInv, RingIsOneCycle
<1>6. SchedInv'
  <2> SUFFICES ASSUME sched'.at # "off" PROVE SchedInv'
    BY DEF SchedInv
  <2>1. /\ sched'.prev = threads /\ skipped' = {} /\ threads' = next_thread[threads]
        /\ linked' = linked /\ next_thread' = next_thread
    BY <1>1
  <2>2. \A t \in linked : next_thread[t] = next_thread[threads] => t = threads
    BY <1>0 DEF RingInv, RingIsOneCycle, OneCycle
  <2>3. next_thread[threads] \in linked
    BY <1>0
  <2> QED BY <1>0, <2>1, <2>2, <2>3 DEF SchedInv
<1>7. CpuInv'
  BY <1>0, <1>1 DEF CpuInv
<1>8. PanicInv'
  <2>1. dbgstub = "off" => sched'.at = "skip"
    <3>1. dbgstub = "off" => sched' = [at |-> "skip", prev |-> threads]
      BY DEF EnterSchedule
    <3> QED BY ONLY <3>1, SMT
  <2> QED BY <2>1 DEF PanicInv
<1> QED BY <1>2, <1>3, <1>4, <1>5, <1>6, <1>7, <1>8

LEMMA TimerInterruptInv ==
    ASSUME IInv, TimerInterrupt
    PROVE  IInv'
<1>1. /\ sleep_left' \in [Threads -> 0..Forever] /\ sleep_left'[Idle] = 0
  BY SchedulerAssumption, SMT DEF TimerInterrupt, IInv, TypeOK, RingInv, Forever, Threads, Kthreads
<1>2. /\ pc' = pc /\ pc[Boot] = "idle" /\ sched.at = "off" /\ EnterSchedule
      /\ UNCHANGED <<cpu, reap, thread_state, creating, dbgstub, panicked>>
  BY DEF TimerInterrupt, shouldSchedule
<1> QED BY <1>1, <1>2, EnterScheduleInv DEF IInv, TypeOK, PlaceInv

LEMMA DeviceInterruptInv ==
    ASSUME IInv, DeviceInterrupt
    PROVE  IInv'
<1>1. /\ pc' = pc /\ pc[Boot] = "idle" /\ sched.at = "off" /\ EnterSchedule
      /\ UNCHANGED <<cpu, reap, thread_state, sleep_left, creating, dbgstub, panicked>>
  BY DEF DeviceInterrupt, Ready, shouldSchedule
<1> QED BY <1>1, EnterScheduleInv DEF IInv, TypeOK, PlaceInv, RingInv

\* A thread other than kmain only runs once the machine is booted.
LEMMA ReadyThread ==
    ASSUME IInv, NEW s \in Threads \ {Idle}, Ready(s)
    PROVE  /\ threads = s /\ threads \in linked /\ pc[Boot] = "idle"
           /\ sched.at = "off" /\ s # NULL /\ s # Boot
<1>1. s # NULL /\ s # Boot /\ rsp = s /\ sched.at = "off"
  BY SchedulerAssumption DEF Ready
<1>2. pc[Boot] = "idle" /\ threads # NULL /\ threads \in linked
  BY <1>1 DEF IInv, BootInv, RingInv
<1> QED BY <1>1, <1>2 DEF IInv, CpuInv, Running, StackOf

LEMMA YieldInv ==
    ASSUME IInv, NEW s \in Threads \ {Idle}, NEW from, NEW to \in Labels,
           Yield(s, from, to), s = Reaper => to = from,
           s = Shell => to \in {"start", "bash"},
           s \in Procs => /\ to # "exit"
                          /\ to \in {"ran_after_exit", "quit"} =>
                                thread_state[s] = "REAPING"
    PROVE  IInv'
<1>1. pc[Boot] = "idle" /\ sched.at = "off" /\ s # Boot
  BY ReadyThread DEF Yield
<1>2. /\ pc[s] = from /\ pc' = [pc EXCEPT ![s] = to] /\ EnterSchedule
      /\ UNCHANGED <<cpu, reap, thread_state, sleep_left, creating, dbgstub, panicked>>
  BY DEF Yield, Goto
<1>3. /\ pc' \in [Stacks -> Labels] /\ pc'[Boot] = "idle"
      /\ pc'[Reaper] = pc[Reaper] /\ pc'[Shell] \in {"start", "link", "bash"}
      /\ pc'[Shell] = "link" => pc[Shell] = "link"
      /\ \A p \in Procs : pc'[p] \in {"exit", "ran_after_exit", "quit"} =>
                                thread_state[p] = "REAPING"
  BY <1>1, <1>2, SchedulerAssumption
  DEF IInv, TypeOK, PlaceInv, Stacks, Threads, Kthreads
<1> QED BY <1>1, <1>2, <1>3, EnterScheduleInv DEF IInv, TypeOK, RingInv

\* create_thread's allocation: memory that is free belongs to no thread.
LEMMA CreateAllocInv ==
    ASSUME IInv, NEW s \in Stacks, NEW t \in Threads, NEW label \in Labels,
           Ready(s), CreateAlloc(s, t, label),
           \/ /\ s = Shell /\ t \in Procs
              /\ pc[Shell] = "start" /\ label = "link"
           \/ /\ s = Boot
              /\ \/ pc[Boot] = "boot" /\ t = Idle /\ label = "link_idle"
                 \/ pc[Boot] = "make_reaper" /\ t = Reaper /\ label = "link_reaper"
                 \/ pc[Boot] = "make_shell" /\ t = Shell /\ label = "link_shell"
    PROVE  IInv'
<1> USE SchedulerAssumption
<1>0. s \in {Shell, Boot} /\ s # t /\ t # NULL /\ t # Boot
      /\ Shell # Boot /\ Reaper # Boot /\ Boot \notin Procs /\ Shell \notin Procs
      /\ Reaper \notin Procs /\ Reaper # Shell
      /\ Boot \in Stacks /\ Shell \in Stacks /\ Reaper \in Stacks /\ t \in Stacks
      /\ Procs \subseteq Stacks /\ Procs \subseteq Threads /\ sched.at = "off"
  BY DEF Stacks, Threads, Kthreads, Ready
<1>1. /\ t \notin linked /\ t \notin queued
      /\ pc[Reaper] \in Resources => t # victim
  <2>1. held[t] = {} /\ "stack" \in Full(t) /\ Resources # {}
    BY DEF CreateAlloc, Full, Resources
  <2>2. t \notin linked /\ t \notin queued
    BY <2>1 DEF IInv, RingInv, QueueInv
  <2>3. \A l \in Resources : Remaining(l) # {}
    BY DEF Remaining, Resources
  <2>4. pc[Reaper] \in Resources => t # victim
    BY <2>1, <2>3 DEF IInv, VictimInv
  <2> QED BY <2>2, <2>4
<1>2. /\ \A x \in Threads \ {t} : /\ next_thread'[x] = next_thread[x]
                                  /\ held'[x] = held[x]
                                  /\ thread_state'[x] = thread_state[x]
                                  /\ sleep_left'[x] = sleep_left[x]
                                  /\ krsp'[x] = krsp[x] /\ usaved'[x] = usaved[x]
      /\ held'[t] = Full(t) /\ thread_state'[t] = "RUNNING" /\ sleep_left'[t] = 0
      /\ krsp'[t] = t /\ usaved'[t] = t
  BY DEF CreateAlloc, IInv, TypeOK, Full
<1>3. /\ \A x \in Stacks \ {s, t} : pc'[x] = pc[x]
      /\ pc'[s] = label /\ pc'[t] = IF t \in Procs THEN "load" ELSE "start"
  BY <1>0 DEF CreateAlloc, IInv, TypeOK
<1>u. /\ UNCHANGED <<threads, linked, queued, victim, rsp, cr3, rsp0, uregs,
                     current_thread, threads_to_reap, sched, dbgstub, panicked>>
      /\ creating' = [new |-> t, had_threads |-> threads # NULL]
  BY DEF CreateAlloc
<1>4. linked \subseteq Threads /\ queued \subseteq Threads /\ Idle \in Threads
  BY DEF IInv, TypeOK, Threads, Kthreads
<1>5. TypeOK'
  <2>1. creating' \in [new : Threads \cup {NULL}, had_threads : BOOLEAN]
    BY Zenon DEF CreateAlloc
  <2>2. dbgstub' \in {"off", "paused", "running"} /\ panicked' \in BOOLEAN
    BY Zenon DEF CreateAlloc, IInv, TypeOK
  <2>3. thread_state' \in [Threads -> {"RUNNING", "REAPING"}]
        /\ sleep_left' \in [Threads -> 0..Forever]
        /\ next_thread' \in [Threads -> Threads \cup {NULL}]
    <3>1. /\ thread_state' = [thread_state EXCEPT ![t] = "RUNNING"]
          /\ sleep_left' = [sleep_left EXCEPT ![t] = 0]
          /\ next_thread' = [next_thread EXCEPT ![t] = NULL]
      BY Zenon DEF CreateAlloc
    <3>2. /\ thread_state \in [Threads -> {"RUNNING", "REAPING"}]
          /\ sleep_left \in [Threads -> 0..Forever]
          /\ next_thread \in [Threads -> Threads \cup {NULL}]
      BY Zenon DEF IInv, TypeOK
    <3>3. 0 \in 0..Forever
      BY SchedulerAssumption, SMT DEF Forever
    <3> QED BY <3>1, <3>2, <3>3, UpdatedAt
  <2>4. krsp' \in [Threads -> Stacks] /\ usaved' \in [Threads -> Stacks]
    BY <1>0 DEF CreateAlloc, IInv, TypeOK
  <2>5. held' \in [Threads -> SUBSET Resources]
    BY DEF CreateAlloc, IInv, TypeOK, Resources
  <2>6. pc' \in [Stacks -> Labels]
    BY <1>0 DEF CreateAlloc, IInv, TypeOK, Labels
  <2>7. UNCHANGED <<threads, linked, skipped, rsp, cr3, rsp0, uregs, current_thread,
                    threads_to_reap, queued, victim, sched>>
    BY DEF CreateAlloc
  <2> QED BY <2>1, <2>2, <2>3, <2>4, <2>5, <2>6, <2>7 DEF IInv, TypeOK
<1>6. RingInv'
  <2>1. OneCycle(linked', next_thread')
    <3>1. OneCycle(linked, next_thread)
      BY DEF IInv, RingInv, RingIsOneCycle
    <3>2. \A x \in linked : next_thread'[x] = next_thread[x]
      BY <1>1, <1>2, <1>4
    <3>3. OneCycle(linked, next_thread')
      BY ONLY <3>1, <3>2, CycleFrame, SMT
    <3> QED BY <1>u, <3>3
  <2> QED BY <1>1, <1>2, <1>4, <1>u, <2>1 DEF IInv, RingInv, RingIsOneCycle, Kthreads, Threads
<1>7. QueueInv'
  <2>1. OneList(threads_to_reap', queued', next_thread')
    <3>1. OneList(threads_to_reap, queued, next_thread)
      BY DEF IInv, QueueInv, ReapListIsComplete
    <3>2. \A x \in queued : next_thread'[x] = next_thread[x]
      BY <1>1, <1>2, <1>4
    <3>3. OneList(threads_to_reap, queued, next_thread')
      BY <3>1, <3>2, ListFrame
    <3> QED BY <1>u, <3>3
  <2> QED BY <1>1, <1>2, <1>4, <1>u, <2>1 DEF IInv, QueueInv, ReapListIsComplete
<1>8. SchedInv'
  BY <1>0, <1>u DEF SchedInv
<1>9. CpuInv'
  BY <1>0, <1>1, <1>2, <1>4, <1>u DEF IInv, CpuInv, Running
<1>10. PlaceInv'
  <2>1. PlaceInv
    BY DEF IInv
  <2>2. pc'[Boot] \in BootLabels
    BY <1>0, <1>3, <2>1 DEF PlaceInv, BootLabels
  <2>3. pc'[Reaper] \in {"start"} \cup Resources
    BY <1>0, <1>3, <2>1 DEF PlaceInv
  <2>4. pc'[Shell] \in {"start", "link", "bash"}
    BY <1>0, <1>3, <2>1 DEF PlaceInv
  <2>5. \A p \in Procs : pc'[p] \in {"exit", "ran_after_exit", "quit"} =>
                             thread_state'[p] = "REAPING"
    BY <1>0, <1>2, <1>3, <2>1 DEF PlaceInv
  <2> QED BY <1>u, <2>1, <2>2, <2>3, <2>4, <2>5 DEF PlaceInv
<1>11. VictimInv'
  <2>1. pc'[Reaper] \in Resources => pc'[Reaper] = pc[Reaper]
    BY <1>0, <1>3 DEF Resources
  <2> QED BY <1>1, <1>2, <1>u, <2>1 DEF IInv, VictimInv, Threads
<1>12. PanicInv'
  <2>1. \A p \in Procs : pc'[p] = pc[p] \/ pc'[p] = "load"
    BY <1>0, <1>3
  <2> QED BY <1>u, <2>1 DEF IInv, PanicInv
<1>13. BootInv'
  BY <1>0, <1>3, <1>u DEF IInv, BootInv, Ready
<1>14. CreateInv'
  <2>1. creating'.new = t /\ creating'.had_threads = (threads # NULL)
    BY <1>u, Zenon
  <2>2. pc'[Shell] = "link" => t \in Procs
    BY <1>0, <1>3 DEF IInv, BootInv
  <2>3. pc'[Reaper] \in Resources => pc[Reaper] \in Resources
    BY <1>0, <1>3 DEF Resources
  <2>5. /\ creating'.new \notin linked' \cup queued'
        /\ pc'[Reaper] \in Resources => creating'.new # victim'
        /\ held'[creating'.new] = Full(creating'.new)
        /\ thread_state'[creating'.new] = "RUNNING"
        /\ krsp'[creating'.new] = creating'.new
        /\ usaved'[creating'.new] = creating'.new
    BY <1>1, <1>2, <2>1, <2>3, <1>u
  <2> QED BY <2>1, <2>2, <1>u, <2>5, Zenon DEF CreateInv
<1> QED BY <1>5, <1>6, <1>7, <1>8, <1>9, <1>10, <1>11, <1>12, <1>13, <1>14 DEF IInv

\* create_thread's insertion under the lock.
LEMMA CreateLinkInv ==
    ASSUME IInv, NEW s \in Stacks, NEW label \in Labels,
           Ready(s), CreateLink(s, label),
           \/ s = Shell /\ pc[Shell] = "link" /\ label = "start"
           \/ /\ s = Boot
              /\ \/ pc[Boot] = "link_idle" /\ label = "make_reaper"
                 \/ pc[Boot] = "link_reaper" /\ label = "make_shell"
                 \/ pc[Boot] = "link_shell" /\ label = "idle"
    PROVE  IInv'
<1> USE SchedulerAssumption
<1> DEFINE n == creating.new
<1>0. s \in {Shell, Boot} /\ Shell # Boot /\ Reaper # Boot
      /\ Boot \notin Procs /\ Shell \notin Procs
      /\ Boot \in Stacks /\ Shell \in Stacks /\ Reaper \in Stacks
      /\ Reaper # Shell /\ Idle # Boot /\ NULL \notin Threads
      /\ Procs \subseteq Stacks /\ Procs \subseteq Threads
      /\ Kthreads \subseteq Threads /\ sched.at = "off"
      /\ linked \subseteq Threads /\ queued \subseteq Threads
  BY DEF Stacks, Threads, Kthreads, Ready, IInv, TypeOK
<1>1. /\ n \in Threads /\ n # NULL /\ n \notin linked /\ n \notin queued
      /\ threads = NULL <=> (s = Boot /\ pc[Boot] = "link_idle")
      /\ threads = NULL => n = Idle /\ linked = {}
      /\ threads # NULL => n # Idle /\ threads \in linked
  <2>1. n \in Threads
    BY <1>0 DEF IInv, BootInv, CreateInv, Threads, Kthreads
  <2>2. threads = NULL <=> (s = Boot /\ pc[Boot] = "link_idle")
    BY <1>0 DEF IInv, BootInv, Ready
  <2>3. n # NULL /\ n \notin linked /\ n \notin queued
    BY <1>0, <2>1 DEF IInv, CreateInv
  <2> QED BY <1>0, <2>1, <2>2, <2>3 DEF IInv, BootInv, RingInv
<1>2. /\ \A x \in Stacks \ {s} : pc'[x] = pc[x]
      /\ pc'[s] = label /\ pc' \in [Stacks -> Labels]
  BY DEF CreateLink, Goto, IInv, TypeOK
<1>3. /\ UNCHANGED <<skipped, cpu, reap, thread_state, sleep_left, sched,
                     dbgstub, panicked>>
      /\ linked' = linked \cup {n}
      /\ creating' = NotCreating /\ creating'.new = NULL
  BY DEF CreateLink, NotCreating
<1>4. /\ threads = NULL => /\ threads' = n
                           /\ next_thread' = [next_thread EXCEPT ![n] = n]
      /\ threads # NULL => /\ threads' = threads
                           /\ next_thread' = [next_thread EXCEPT
                                 ![n] = next_thread[threads], ![threads] = n]
  <2>1. creating.had_threads = (threads # NULL)
    BY <1>1, Zenon DEF IInv, CreateInv
  <2>2. CASE threads = NULL
    <3>1. ~creating.had_threads
      BY <2>1, <2>2, Zenon
    <3> QED BY <2>2, <3>1 DEF CreateLink
  <2>3. CASE threads # NULL
    <3>1. creating.had_threads
      BY <2>1, <2>3, Zenon
    <3> QED BY <2>3, <3>1 DEF CreateLink
  <2> QED BY <2>2, <2>3
<1>5. threads' \in linked' /\ threads' # NULL /\ threads' \in Threads
      /\ Idle \in linked'
  BY <1>0, <1>1, <1>3, <1>4 DEF IInv, RingInv
<1>6. TypeOK'
  <2>1. creating' \in [new : Threads \cup {NULL}, had_threads : BOOLEAN]
    BY <1>3, Zenon DEF NotCreating
  <2>2. dbgstub' \in {"off", "paused", "running"} /\ panicked' \in BOOLEAN
    BY <1>3, Zenon DEF IInv, TypeOK
  <2>3. next_thread' \in [Threads -> Threads \cup {NULL}]
    BY <1>0, <1>1, <1>4, SMT DEF IInv, TypeOK
  <2> QED BY <1>0, <1>1, <1>2, <1>3, <1>5, <2>1, <2>2, <2>3
          DEF IInv, TypeOK, cpu, reap
<1>7. OneCycle(linked', next_thread')
  <2>1. CASE threads = NULL
    <3>1. linked' = {n} /\ next_thread'[n] = n
      BY <1>1, <1>3, <1>4, <2>1 DEF IInv, TypeOK
    <3>2. OneCycle({n}, next_thread')
      BY <3>1, CycleSelf
    <3> QED BY <3>1, <3>2
  <2>2. CASE threads # NULL
    <3>1. /\ next_thread'[n] = next_thread[threads] /\ next_thread'[threads] = n
          /\ \A x \in linked \ {threads} : next_thread'[x] = next_thread[x]
      BY <1>0, <1>1, <1>4, <2>2 DEF IInv, TypeOK
    <3>2. OneCycle(linked, next_thread)
      BY DEF IInv, RingInv, RingIsOneCycle
    <3>3. OneCycle(linked \cup {n}, next_thread')
      <4> HIDE DEF n
      <4> QED BY <1>1, <2>2, <3>1, <3>2, CycleInsert
    <3> QED BY <1>3, <3>3
  <2> QED BY <2>1, <2>2
<1>8. RingInv'
  <2>1. held'[n] = Full(n)
    BY <1>1, <1>3 DEF IInv, CreateInv, reap
  <2> QED BY <1>3, <1>5, <1>7, <2>1 DEF IInv, RingInv, RingIsOneCycle, reap
<1>9. QueueInv'
  <2>1. \A x \in queued : next_thread'[x] = next_thread[x]
    BY <1>0, <1>1, <1>4, SMT DEF IInv, TypeOK, QueueInv, ReapListIsComplete
  <2>2. OneList(threads_to_reap, queued, next_thread)
    BY DEF IInv, QueueInv, ReapListIsComplete
  <2>3. OneList(threads_to_reap, queued, next_thread')
    BY <2>1, <2>2, ListFrame
  <2>4. OneList(threads_to_reap', queued', next_thread')
    BY <1>3, <2>3 DEF reap
  <2> QED BY <1>1, <1>3, <2>4 DEF IInv, QueueInv, ReapListIsComplete, reap
<1>10. SchedInv'
  BY <1>0, <1>3 DEF SchedInv
<1>11. CpuInv'
  <2>1. CASE threads = NULL
    <3>1. /\ rsp = Boot /\ cr3 = Boot /\ rsp0 = Boot /\ current_thread = NULL
          /\ linked' = {Idle} /\ threads' = Idle /\ sched'.at = "off"
      BY <1>0, <1>1, <1>3, <1>4, <2>1 DEF IInv, BootInv, Ready
    <3>2. Idle \notin Procs
      BY DEF Kthreads
    <3> QED BY <1>3, <3>1, <3>2 DEF CpuInv, Running, cpu, StackOf, Pagemap
  <2>2. CASE threads # NULL
    <3>1. krsp[n] = n /\ usaved[n] = n
      BY <1>1 DEF IInv, CreateInv
    <3>2. Running' = Running
      BY <1>0, <1>3, <1>4, <2>2 DEF Running
    <3> QED BY <1>1, <1>3, <1>4, <2>2, <3>1, <3>2 DEF IInv, CpuInv, cpu, StackOf
  <2> QED BY <2>1, <2>2
<1>12. PlaceInv'
  BY <1>0, <1>2, <1>3 DEF IInv, PlaceInv, BootLabels
<1>13. VictimInv'
  <2>1. pc'[Reaper] = pc[Reaper]
    BY <1>0, <1>2
  <2>2. pc[Reaper] \in Resources => victim # n
    BY <1>1 DEF IInv, CreateInv
  <2> QED BY <1>3, <2>1, <2>2 DEF IInv, VictimInv, reap
<1>14. PanicInv'
  <2>1. \A p \in Procs : pc'[p] = pc[p]
    BY <1>0, <1>2
  <2> QED BY <1>3, <2>1 DEF IInv, PanicInv, cpu
<1>15. BootInv'
  BY <1>0, <1>1, <1>2, <1>3, <1>4, <1>5 DEF IInv, BootInv, Ready, cpu, reap
<1>16. CreateInv'
  <2>1. pc'[Shell] # "link"
    BY <1>0, <1>2 DEF IInv, BootInv
  <2> QED BY <1>3, <2>1 DEF CreateInv
<1> QED BY <1>6, <1>8, <1>9, <1>10, <1>11, <1>12, <1>13, <1>14, <1>15, <1>16 DEF IInv

LEMMA SetSleepInv ==
    ASSUME IInv, NEW s \in Procs \cup {Shell}, NEW ms \in 0..Forever,
           NEW to \in Labels, Ready(s), SetSleep(s, ms, to),
           s = Shell => to = "bash", s \in Procs => to = "sleep"
    PROVE  IInv'
<1> USE SchedulerAssumption
<1>0. /\ threads = s /\ threads \in linked /\ sched.at = "off" /\ s # Boot
      /\ s # Idle /\ s # Reaper /\ s \in Stacks /\ s \in Threads
      /\ Boot \in Stacks /\ Reaper \in Stacks /\ Shell \in Stacks
      /\ Procs \subseteq Stacks /\ Idle \in Threads /\ Shell \notin Procs
      /\ pc[Boot] = "idle"
  <2>1. s \in Threads \ {Idle} /\ s # Reaper
    BY DEF Threads, Kthreads
  <2> QED BY <2>1, ReadyThread DEF Stacks, Threads, Kthreads
<1>1. /\ UNCHANGED <<ring, cpu, reap, thread_state, creating, sched, dbgstub,
                     panicked>>
      /\ sleep_left' \in [Threads -> 0..Forever] /\ sleep_left'[Idle] = sleep_left[Idle]
  BY <1>0 DEF SetSleep, IInv, TypeOK
<1>2. /\ \A x \in Stacks \ {s} : pc'[x] = pc[x]
      /\ pc'[s] = to /\ pc' \in [Stacks -> Labels]
  BY <1>0 DEF SetSleep, Goto, IInv, TypeOK
<1>3. TypeOK'
  <2>1. UNCHANGED <<creating, dbgstub, panicked>>
    BY <1>1
  <2>2. /\ creating' \in [new : Threads \cup {NULL}, had_threads : BOOLEAN]
        /\ dbgstub' \in {"off", "paused", "running"} /\ panicked' \in BOOLEAN
    BY <2>1, Zenon DEF IInv, TypeOK
  <2> QED BY <1>1, <1>2, <2>2 DEF IInv, TypeOK, ring, cpu, reap
<1>4. RingInv' /\ QueueInv' /\ SchedInv' /\ CpuInv'
  BY <1>0, <1>1 DEF IInv, RingInv, RingIsOneCycle, QueueInv, ReapListIsComplete,
                    SchedInv, CpuInv, Running, ring, cpu, reap
<1>5. PlaceInv'
  BY <1>0, <1>1, <1>2 DEF IInv, PlaceInv
<1>6. BootInv' /\ VictimInv'
  BY <1>0, <1>1, <1>2 DEF IInv, BootInv, VictimInv, ring, cpu, reap
<1>7. PanicInv'
  <2>1. \A p \in Procs : pc'[p] = pc[p] \/ pc'[p] = "sleep"
    BY <1>0, <1>2
  <2> QED BY <1>1, <2>1 DEF IInv, PanicInv, cpu
<1>8. CreateInv'
  <2>1. pc'[Shell] = "link" => pc[Shell] = "link"
    BY <1>0, <1>2
  <2>2. pc'[Reaper] = pc[Reaper]
    BY <1>0, <1>2
  <2> QED BY <1>1, <2>1, <2>2 DEF IInv, CreateInv, ring, cpu, reap
<1> QED BY <1>3, <1>4, <1>5, <1>6, <1>7, <1>8 DEF IInv

LEMMA SetReapingInv ==
    ASSUME IInv, NEW p \in Procs, NEW to \in {"quit", "exit"},
           Ready(p), SetReaping(p, to)
    PROVE  IInv'
<1> USE SchedulerAssumption
<1>0. /\ threads = p /\ threads \in linked /\ sched.at = "off" /\ p # Boot
      /\ p \notin Kthreads /\ p \in Stacks /\ p \in Threads
      /\ Boot \in Stacks /\ Reaper \in Stacks /\ Shell \in Stacks
      /\ Reaper # p /\ Shell # p /\ Kthreads \subseteq Threads
      /\ Procs \subseteq Stacks /\ Procs \subseteq Threads /\ pc[Boot] = "idle"
      /\ queued \subseteq Threads
  <2>1. p \in Threads \ {Idle} /\ p # Reaper
    BY DEF Threads, Kthreads
  <2> QED BY <2>1, ReadyThread DEF Stacks, Threads, Kthreads, IInv, TypeOK
<1>1. /\ UNCHANGED <<ring, cpu, reap, sleep_left, creating, sched, dbgstub,
                     panicked>>
      /\ thread_state' \in [Threads -> {"RUNNING", "REAPING"}]
      /\ thread_state'[p] = "REAPING"
      /\ \A x \in Threads \ {p} : thread_state'[x] = thread_state[x]
  BY <1>0 DEF SetReaping, IInv, TypeOK
<1>2. /\ \A x \in Stacks \ {p} : pc'[x] = pc[x]
      /\ pc'[p] = to /\ pc' \in [Stacks -> Labels]
  BY <1>0 DEF SetReaping, Goto, IInv, TypeOK, Labels
<1>3. TypeOK'
  <2>1. UNCHANGED <<creating, dbgstub, panicked>>
    BY <1>1
  <2>2. /\ creating' \in [new : Threads \cup {NULL}, had_threads : BOOLEAN]
        /\ dbgstub' \in {"off", "paused", "running"} /\ panicked' \in BOOLEAN
    BY <2>1, Zenon DEF IInv, TypeOK
  <2> QED BY <1>1, <1>2, <2>2 DEF IInv, TypeOK, ring, cpu, reap
<1>4. RingInv' /\ SchedInv' /\ CpuInv'
  BY <1>0, <1>1 DEF IInv, RingInv, RingIsOneCycle,
                    SchedInv, CpuInv, Running, ring, cpu, reap
<1>5. QueueInv'
  <2>1. \A t \in queued : thread_state'[t] = "REAPING"
    BY <1>0, <1>1 DEF IInv, QueueInv
  <2> QED BY <1>1, <2>1 DEF IInv, QueueInv, ReapListIsComplete, ring, reap
<1>6. PlaceInv'
  BY <1>0, <1>1, <1>2 DEF IInv, PlaceInv
<1>7. BootInv' /\ VictimInv'
  BY <1>0, <1>1, <1>2 DEF IInv, BootInv, VictimInv, ring, cpu, reap
<1>8. PanicInv'
  <2>1. \A q \in Procs : pc'[q] = pc[q] \/ pc'[q] # "ran_after_exit"
    BY <1>0, <1>2
  <2> QED BY <1>1, <2>1 DEF IInv, PanicInv, cpu
<1>9. CreateInv'
  <2>1. pc'[Shell] = pc[Shell] /\ pc'[Reaper] = pc[Reaper]
    BY <1>0, <1>2
  <2>2. creating.new # NULL => thread_state'[creating.new] = "RUNNING"
    BY <1>0, <1>1 DEF IInv, CreateInv, TypeOK
  <2> QED BY <1>1, <2>1, <2>2 DEF IInv, CreateInv, ring, cpu, reap
<1> QED BY <1>3, <1>4, <1>5, <1>6, <1>7, <1>8, <1>9 DEF IInv

LEMMA LoadStepInv ==
    ASSUME IInv, NEW p \in Procs, LoadStep(p)
    PROVE  IInv'
<1> USE SchedulerAssumption
<1>1. CASE SetReaping(p, "quit")
  BY <1>1, SetReapingInv DEF LoadStep
<1>2. ASSUME uregs' = p, Goto(p, "user"),
             UNCHANGED <<ring, reap, rsp, cr3, rsp0, usaved, krsp,
                         current_thread, thread_state, sleep_left, creating,
                         sched, dbgstub, panicked>>
      PROVE  IInv'
  <2>0. /\ threads = p /\ sched.at = "off" /\ p # Boot /\ threads # NULL
        /\ Boot \in Stacks /\ Reaper \in Stacks /\ Shell \in Stacks
        /\ Reaper # p /\ Shell # p /\ p \in Stacks /\ Procs \subseteq Stacks
    <3>1. p \in Threads \ {Idle} /\ p # Reaper
      BY DEF Threads, Kthreads
    <3> QED BY <3>1, ReadyThread DEF Stacks, Threads, Kthreads, LoadStep
  <2>1. /\ \A x \in Stacks \ {p} : pc'[x] = pc[x]
        /\ pc'[p] = "user" /\ pc' \in [Stacks -> Labels]
    BY <1>2, <2>0 DEF Goto, IInv, TypeOK, Labels
  <2>2. TypeOK'
    <3>1. /\ creating' \in [new : Threads \cup {NULL}, had_threads : BOOLEAN]
          /\ dbgstub' \in {"off", "paused", "running"} /\ panicked' \in BOOLEAN
      BY <1>2, Zenon DEF IInv, TypeOK
    <3> QED BY <1>2, <2>0, <2>1, <3>1 DEF IInv, TypeOK, ring, reap
  <2>3. RingInv' /\ SchedInv' /\ CpuInv' /\ QueueInv'
    BY <1>2, <2>0 DEF IInv, RingInv, RingIsOneCycle, SchedInv, CpuInv, Running,
                      QueueInv, ReapListIsComplete, ring, reap
  <2>4. PlaceInv' /\ BootInv' /\ VictimInv'
    BY <1>2, <2>0, <2>1 DEF IInv, PlaceInv, BootInv, VictimInv, ring, reap
  <2>5. PanicInv'
    <3>1. \A q \in Procs : pc'[q] = pc[q] \/ pc'[q] = "user"
      BY <2>0, <2>1
    <3> QED BY <1>2, <3>1 DEF IInv, PanicInv
  <2>6. CreateInv'
    <3>1. pc'[Shell] = pc[Shell] /\ pc'[Reaper] = pc[Reaper]
      BY <2>0, <2>1
    <3> QED BY <1>2, <3>1 DEF IInv, CreateInv, ring, reap
  <2> QED BY <2>2, <2>3, <2>4, <2>5, <2>6 DEF IInv
<1> QED BY <1>1, <1>2 DEF LoadStep

\* One free() of the reaper.
LEMMA FreeInv ==
    ASSUME IInv, NEW resource \in Resources,
           NEW to \in {"start"} \cup Resources,
           Ready(Reaper), Free(resource, resource, to),
           to \in Resources => Remaining(to) = Remaining(resource) \ {resource}
    PROVE  IInv'
<1> USE SchedulerAssumption
<1>0. /\ sched.at = "off" /\ Reaper # Boot /\ pc[Boot] = "idle"
      /\ Boot \in Stacks /\ Reaper \in Stacks /\ Shell \in Stacks
      /\ Reaper \notin Procs /\ Reaper # Shell
      /\ Procs \subseteq Stacks /\ Procs \subseteq Threads
      /\ linked \subseteq Threads /\ queued \subseteq Threads
  <2>1. Reaper \in Threads \ {Idle}
    BY DEF Threads, Kthreads
  <2> QED BY <2>1, ReadyThread DEF Stacks, Threads, Kthreads, IInv, TypeOK
<1>1. /\ pc[Reaper] = resource /\ victim \in Procs
      /\ victim \notin linked /\ victim \notin queued
      /\ thread_state[victim] = "REAPING"
      /\ held[victim] = Remaining(resource)
      /\ creating.new # NULL => creating.new # victim
  BY DEF Free, IInv, VictimInv, CreateInv
<1>2. /\ UNCHANGED <<ring, cpu, threads_to_reap, queued, victim,
                     thread_state, sleep_left, creating, sched, dbgstub, panicked>>
      /\ \A x \in Threads \ {victim} : held'[x] = held[x]
      /\ held'[victim] = held[victim] \ {resource}
      /\ held' \in [Threads -> SUBSET Resources]
  BY <1>0, <1>1 DEF Free, IInv, TypeOK
<1>3. /\ \A x \in Stacks \ {Reaper} : pc'[x] = pc[x]
      /\ pc'[Reaper] = to /\ pc' \in [Stacks -> Labels]
  BY <1>0 DEF Free, Goto, IInv, TypeOK, Labels
<1>4. TypeOK'
  <2>1. UNCHANGED <<creating, dbgstub, panicked>>
    BY <1>2
  <2>2. /\ creating' \in [new : Threads \cup {NULL}, had_threads : BOOLEAN]
        /\ dbgstub' \in {"off", "paused", "running"} /\ panicked' \in BOOLEAN
    BY <2>1, Zenon DEF IInv, TypeOK
  <2> QED BY <1>2, <1>3, <2>2 DEF IInv, TypeOK, ring, cpu
<1>5. RingInv'
  <2>1. \A t \in linked : held'[t] = Full(t)
    BY <1>0, <1>1, <1>2 DEF IInv, RingInv
  <2> QED BY <1>2, <2>1 DEF IInv, RingInv, RingIsOneCycle, ring
<1>6. QueueInv'
  <2>1. \A t \in queued : held'[t] = Resources
    BY <1>0, <1>1, <1>2 DEF IInv, QueueInv
  <2> QED BY <1>2, <2>1 DEF IInv, QueueInv, ReapListIsComplete, ring
<1>7. SchedInv' /\ CpuInv'
  BY <1>0, <1>2 DEF IInv, SchedInv, CpuInv, Running, ring, cpu
<1>8. PlaceInv' /\ BootInv'
  BY <1>0, <1>2, <1>3 DEF IInv, PlaceInv, BootInv, ring, cpu
<1>9. VictimInv'
  BY <1>1, <1>2, <1>3 DEF VictimInv, ring
<1>10. PanicInv'
  <2>1. \A q \in Procs : pc'[q] = pc[q]
    BY <1>0, <1>3
  <2> QED BY <1>2, <2>1 DEF IInv, PanicInv, cpu
<1>11. CreateInv'
  <2>1. pc'[Shell] = pc[Shell]
    BY <1>0, <1>3
  <2>2. creating.new # NULL => held'[creating.new] = Full(creating.new)
    BY <1>1, <1>2 DEF IInv, CreateInv, TypeOK
  <2> QED BY <1>1, <1>2, <2>1, <2>2 DEF IInv, CreateInv, ring, cpu
<1> QED BY <1>4, <1>5, <1>6, <1>7, <1>8, <1>9, <1>10, <1>11 DEF IInv

LEMMA GetNextThreadToReapInv ==
    ASSUME IInv, Ready(Reaper), GetNextThreadToReap
    PROVE  IInv'
<1> USE SchedulerAssumption
<1> DEFINE h == threads_to_reap
<1>0. /\ sched.at = "off" /\ Reaper # Boot /\ pc[Boot] = "idle"
      /\ Boot \in Stacks /\ Reaper \in Stacks /\ Shell \in Stacks
      /\ Reaper \notin Procs /\ Reaper # Shell
      /\ Procs \subseteq Stacks /\ Procs \subseteq Threads /\ NULL \notin Threads
      /\ linked \subseteq Threads /\ queued \subseteq Threads
  <2>1. Reaper \in Threads \ {Idle}
    BY DEF Threads, Kthreads
  <2> QED BY <2>1, ReadyThread DEF Stacks, Threads, Kthreads, IInv, TypeOK
<1>1. /\ h # NULL /\ h \in queued /\ h \notin linked /\ h \in Procs
      /\ OneList(h, queued, next_thread)
      /\ thread_state[h] = "REAPING" /\ held[h] = Resources
      /\ creating.new # NULL => creating.new # h
  <2>1. h # NULL /\ OneList(h, queued, next_thread) /\ queued \cap linked = {}
    BY DEF GetNextThreadToReap, IInv, QueueInv, ReapListIsComplete
  <2>2. h \in queued
    BY <2>1 DEF OneList
  <2> QED BY <2>1, <2>2 DEF IInv, QueueInv, CreateInv
<1>2. /\ UNCHANGED <<threads, linked, skipped, held, cpu, thread_state,
                     sleep_left, creating, sched, dbgstub, panicked>>
      /\ victim' = h /\ threads_to_reap' = next_thread[h]
      /\ queued' = queued \ {h}
      /\ next_thread' \in [Threads -> Threads \cup {NULL}]
      /\ \A x \in Threads \ {h} : next_thread'[x] = next_thread[x]
  BY <1>0, <1>1 DEF GetNextThreadToReap, IInv, TypeOK
<1>3. /\ \A x \in Stacks \ {Reaper} : pc'[x] = pc[x]
      /\ pc'[Reaper] = "pagemap" /\ pc' \in [Stacks -> Labels]
  BY <1>0 DEF GetNextThreadToReap, Goto, IInv, TypeOK, Labels, Resources
<1>4. TypeOK'
  <2>1. UNCHANGED <<creating, dbgstub, panicked>>
    BY <1>2
  <2>2. /\ creating' \in [new : Threads \cup {NULL}, had_threads : BOOLEAN]
        /\ dbgstub' \in {"off", "paused", "running"} /\ panicked' \in BOOLEAN
    BY <2>1, Zenon DEF IInv, TypeOK
  <2> QED BY <1>0, <1>1, <1>2, <1>3, <2>2 DEF IInv, TypeOK, cpu
<1>5. RingInv'
  <2>1. OneCycle(linked, next_thread)
    BY DEF IInv, RingInv, RingIsOneCycle
  <2>2. \A x \in linked : next_thread'[x] = next_thread[x]
    BY <1>0, <1>1, <1>2
  <2>3. OneCycle(linked, next_thread')
    BY <2>1, <2>2, CycleFrame
  <2>4. OneCycle(linked', next_thread')
    BY <1>2, <2>3
  <2> QED BY <1>2, <2>4 DEF IInv, RingInv, RingIsOneCycle
<1>6. QueueInv'
  <2>1. \A x \in queued \ {h} : next_thread'[x] = next_thread[x]
    BY <1>0, <1>2
  <2>2. OneList(next_thread[h], queued \ {h}, next_thread')
    <3> HIDE DEF h
    <3> QED BY <1>0, <1>1, <2>1, ListPop
  <2>3. OneList(threads_to_reap', queued', next_thread')
    BY <1>2, <2>2
  <2> QED BY <1>2, <2>3 DEF IInv, QueueInv, ReapListIsComplete
<1>7. SchedInv' /\ CpuInv'
  BY <1>0, <1>2 DEF IInv, SchedInv, CpuInv, Running, cpu
<1>8. PlaceInv' /\ BootInv'
  BY <1>0, <1>2, <1>3 DEF IInv, PlaceInv, BootInv, cpu, Resources
<1>9. VictimInv'
  BY <1>1, <1>2, <1>3 DEF VictimInv, Remaining
<1>10. PanicInv'
  <2>1. \A q \in Procs : pc'[q] = pc[q]
    BY <1>0, <1>3
  <2> QED BY <1>2, <2>1 DEF IInv, PanicInv, cpu
<1>11. CreateInv'
  <2>1. pc'[Shell] = pc[Shell]
    BY <1>0, <1>3
  <2> QED BY <1>1, <1>2, <2>1 DEF IInv, CreateInv, cpu
<1> QED BY <1>4, <1>5, <1>6, <1>7, <1>8, <1>9, <1>10, <1>11 DEF IInv

LEMMA KmainInv ==
    ASSUME IInv, Kmain
    PROVE  IInv'
<1>1. /\ Boot \in Stacks /\ Idle \in Threads /\ Reaper \in Threads
      /\ Shell \in Threads
      /\ {"link_idle", "link_reaper", "link_shell", "make_reaper",
          "make_shell", "idle"} \subseteq Labels
  BY DEF Stacks, Threads, Kthreads, Labels
<1> QED BY <1>1, CreateAllocInv, CreateLinkInv DEF Kmain

LEMMA ShellStepInv ==
    ASSUME IInv, ShellStep
    PROVE  IInv'
<1>1. /\ Shell \in Stacks /\ Shell \in Threads \ {Idle} /\ Procs \subseteq Threads
      /\ {"link", "start", "bash"} \subseteq Labels /\ Forever \in 0..Forever
      /\ Shell \notin Procs /\ Shell # Reaper
  BY SchedulerAssumption, SMT DEF Stacks, Threads, Kthreads, Labels, Forever
<1>2. ASSUME Ready(Shell), pc[Shell] = "start", NEW p \in Procs,
             CreateAlloc(Shell, p, "link")
      PROVE  IInv'
  BY <1>1, <1>2, CreateAllocInv
<1>3. CASE Ready(Shell) /\ pc[Shell] = "link" /\ CreateLink(Shell, "start")
  BY <1>1, <1>3, CreateLinkInv
<1>4. CASE Ready(Shell) /\ pc[Shell] = "start" /\ SetSleep(Shell, Forever, "bash")
  BY <1>1, <1>4, SetSleepInv
<1>5. CASE Yield(Shell, "start", "start") \/ Yield(Shell, "bash", "start")
  BY <1>1, <1>5, YieldInv
<1> QED BY <1>2, <1>3, <1>4, <1>5 DEF ShellStep

LEMMA ProcStepInv ==
    ASSUME IInv, NEW p \in Procs, ProcStep(p)
    PROVE  IInv'
<1>1. /\ p \in Threads \ {Idle} /\ p # Reaper /\ p # Shell
      /\ {"sleep", "user", "ran_after_exit", "quit"} \subseteq Labels
      /\ 0..MaxSleep \subseteq 0..Forever
  BY SchedulerAssumption, SMT DEF Threads, Kthreads, Labels, Forever
<1>2. ASSUME Ready(p), NEW ms \in 0..MaxSleep, SetSleep(p, ms, "sleep")
      PROVE  IInv'
  BY <1>1, <1>2, SetSleepInv
<1>3. CASE Ready(p) /\ SetReaping(p, "exit")
  BY <1>3, SetReapingInv
<1>4. CASE Yield(p, "sleep", "user")
  BY <1>1, <1>4, YieldInv
<1>5. ASSUME NEW from \in {"exit", "quit"}, NEW to \in {"ran_after_exit", "quit"},
             Yield(p, from, to)
      PROVE  IInv'
  <2>1. thread_state[p] = "REAPING"
    BY <1>5 DEF Yield, IInv, PlaceInv
  <2> QED BY <1>1, <1>5, <2>1, YieldInv
<1> QED BY <1>2, <1>3, <1>4, <1>5 DEF ProcStep

\* The debugger's flag and the panic are all that a step changes.
LEMMA FlagsInv ==
    ASSUME IInv, TypeOK', PanicInv',
           UNCHANGED <<ring, cpu, reap, thread_state, sleep_left, pc, creating,
                       sched>>
    PROVE  IInv'
<1>1. PlaceInv' /\ BootInv' /\ CreateInv'
  BY DEF IInv, PlaceInv, BootInv, CreateInv, ring, cpu, reap
<1>2. RingInv'
  BY DEF IInv, RingInv, RingIsOneCycle, ring, reap
<1>3. SchedInv' /\ CpuInv'
  BY DEF IInv, SchedInv, CpuInv, Running, ring, cpu
<1>4. QueueInv' /\ VictimInv'
  BY DEF IInv, QueueInv, ReapListIsComplete, VictimInv, ring, cpu, reap
<1> QED BY <1>1, <1>2, <1>3, <1>4 DEF IInv

\* sys_exit's panic is out of reach without the debugger.
LEMMA ExitPanicInv ==
    ASSUME IInv, NEW p \in Procs, ExitPanic(p)
    PROVE  IInv'
<1>1. dbgstub # "off"
  BY DEF ExitPanic, Ready, IInv, PanicInv
<1>2. UNCHANGED <<ring, cpu, reap, thread_state, sleep_left, pc, creating,
                  sched, dbgstub>> /\ panicked' = TRUE
  BY DEF ExitPanic
<1>3. TypeOK'
  <2>1. /\ creating' \in [new : Threads \cup {NULL}, had_threads : BOOLEAN]
        /\ dbgstub' \in {"off", "paused", "running"} /\ panicked' \in BOOLEAN
    BY <1>2, Zenon DEF IInv, TypeOK
  <2> QED BY <1>2, <2>1 DEF IInv, TypeOK, ring, cpu, reap
<1>4. PanicInv'
  BY <1>1, <1>2 DEF IInv, PanicInv
<1> QED BY <1>2, <1>3, <1>4, FlagsInv

LEMMA ReaperStepInv ==
    ASSUME IInv, ReaperStep
    PROVE  IInv'
<1>1. CASE Ready(Reaper) /\ GetNextThreadToReap
  BY <1>1, GetNextThreadToReapInv
<1>2. CASE Ready(Reaper) /\ Free("pagemap", "pagemap", "fds")
  BY <1>2, FreeInv DEF Resources, Remaining
<1>3. CASE Ready(Reaper) /\ Free("fds", "fds", "stack")
  BY <1>3, FreeInv DEF Resources, Remaining
<1>4. CASE Ready(Reaper) /\ Free("stack", "stack", "struct")
  BY <1>4, FreeInv DEF Resources, Remaining
<1>5. CASE Ready(Reaper) /\ Free("struct", "struct", "start")
  BY <1>5, FreeInv DEF Resources, Remaining
<1>6. CASE Yield(Reaper, "start", "start")
  <2>1. Reaper \in Threads \ {Idle} /\ "start" \in Labels /\ Reaper # Shell
        /\ Reaper \notin Procs
    BY SchedulerAssumption DEF Threads, Kthreads, Labels
  <2> QED BY <1>6, <2>1, YieldInv
<1> QED BY <1>1, <1>2, <1>3, <1>4, <1>5, <1>6 DEF ReaperStep

LEMMA DebuggerInv ==
    ASSUME IInv, Debugger
    PROVE  IInv'
<1>1. /\ UNCHANGED <<ring, cpu, reap, thread_state, sleep_left, pc, creating,
                     sched, panicked>> /\ dbgstub # "off"
      /\ dbgstub' \in {"paused", "running"}
  BY DEF Debugger
<1>2. TypeOK'
  <2>1. /\ creating' \in [new : Threads \cup {NULL}, had_threads : BOOLEAN]
        /\ dbgstub' \in {"off", "paused", "running"} /\ panicked' \in BOOLEAN
    BY <1>1, Zenon DEF IInv, TypeOK
  <2> QED BY <1>1, <2>1 DEF IInv, TypeOK, ring, cpu, reap
<1>3. PanicInv'
  BY <1>1 DEF IInv, PanicInv
<1> QED BY <1>1, <1>2, <1>3, FlagsInv

LEMMA StutterInv ==
    ASSUME IInv, UNCHANGED vars
    PROVE  IInv'
<1>1. TypeOK'
  <2>1. /\ creating' \in [new : Threads \cup {NULL}, had_threads : BOOLEAN]
        /\ dbgstub' \in {"off", "paused", "running"} /\ panicked' \in BOOLEAN
    BY Zenon DEF IInv, TypeOK, vars
  <2> QED BY <2>1 DEF IInv, TypeOK, vars, ring, cpu, reap
<1>2. PanicInv'
  BY DEF IInv, PanicInv, vars, cpu
<1>3. UNCHANGED <<ring, cpu, reap, thread_state, sleep_left, pc, creating, sched>>
  BY DEF vars
<1> QED BY <1>1, <1>2, <1>3, FlagsInv

LEMMA NextInv == IInv /\ [Next]_vars => IInv'
<1> SUFFICES ASSUME IInv, [Next]_vars PROVE IInv'
  OBVIOUS
<1>1. CASE Schedule
  BY <1>1, SkipSleeperInv, ReapNextInv, DispatchInv DEF Schedule
<1>2. CASE Kmain
  BY <1>2, KmainInv
<1>3. CASE ShellStep
  BY <1>3, ShellStepInv
<1>4. CASE ReaperStep
  BY <1>4, ReaperStepInv
<1>5. ASSUME NEW p \in Procs, LoadStep(p) \/ ProcStep(p) \/ ExitPanic(p)
      PROVE  IInv'
  BY <1>5, LoadStepInv, ProcStepInv, ExitPanicInv
<1>6. CASE TimerInterrupt
  BY <1>6, TimerInterruptInv
<1>7. CASE DeviceInterrupt
  BY <1>7, DeviceInterruptInv
<1>8. CASE Debugger
  BY <1>8, DebuggerInv
<1>9. CASE UNCHANGED vars
  BY <1>9, StutterInv
<1> QED
  BY <1>1, <1>2, <1>3, <1>4, <1>5, <1>6, <1>7, <1>8, <1>9 DEF Next, Halted

\* The invariant holds in every reachable state of the scheduler.
THEOREM InductiveInvariant == Spec => []IInv
BY InitInv, NextInv, PTL DEF Spec

-----------------------------------------------------------------------------
(* The properties *)

\* Every variable keeps its type.
THEOREM TypeCorrect == Spec => []TypeOK
<1>1. IInv => TypeOK
  BY DEF IInv
<1> QED BY <1>1, InductiveInvariant, PTL

\* get_current_thread() and the CPU-local current_thread name the caller.
THEOREM CurrentCorrect == Spec => []CurrentIsRunning
<1>1. IInv => CurrentIsRunning
  BY DEF IInv, CpuInv, Running, CurrentIsRunning
<1> QED BY <1>1, InductiveInvariant, PTL

\* create_thread and schedule() keep the ring one cycle, at any length.
THEOREM RingCorrect == Spec => []RingIsOneCycle
<1>1. IInv => RingIsOneCycle
  BY DEF IInv, RingInv
<1> QED BY <1>1, InductiveInvariant, PTL

\* schedule() and the reaper keep the reap list complete.
THEOREM ReapListCorrect == Spec => []ReapListIsComplete
<1>1. IInv => ReapListIsComplete
  BY DEF IInv, QueueInv
<1> QED BY <1>1, InductiveInvariant, PTL

\* The reaper frees nothing that the CPU or the ring still refers to.
THEOREM MemorySafe == Spec => []NothingInUseIsFreed
<1>1. ASSUME IInv PROVE NothingInUseIsFreed
  <2> USE SchedulerAssumption
  <2>1. \A t \in linked : {"stack", "struct"} \subseteq held[t]
                          /\ (t \in Procs => "pagemap" \in held[t])
    BY <1>1 DEF IInv, RingInv, Full, Resources
  <2>2. CASE threads = NULL
    <3>1. /\ rsp = Boot /\ cr3 = Boot /\ rsp0 = Boot /\ sched.prev = NULL
          /\ Boot \notin Threads /\ NULL \notin Threads
      BY <1>1, <2>2 DEF IInv, BootInv, PlaceInv
    <3> QED BY <2>1, <3>1 DEF NothingInUseIsFreed
  <2>3. CASE threads # NULL
    <3>1. /\ Running \in linked /\ rsp = StackOf(Running)
          /\ cr3 = Pagemap(Running) /\ rsp0 \in {Running, Boot}
          /\ sched.prev \in {NULL, Running}
      BY <1>1, <2>3 DEF IInv, CpuInv, RingInv, SchedInv, Running, PlaceInv
    <3>2. /\ rsp \in {Running, Boot}
          /\ cr3 = Boot \/ (cr3 = Running /\ Running \in Procs)
          /\ Boot \notin Threads /\ NULL \notin Threads
      BY <3>1 DEF StackOf, Pagemap
    <3>3. /\ rsp \in Threads => "stack" \in held[rsp]
          /\ rsp0 \in Threads => "stack" \in held[rsp0]
          /\ sched.prev \in Threads => "struct" \in held[sched.prev]
      BY <2>1, <3>1, <3>2
    <3>4. cr3 \in Threads => "pagemap" \in held[cr3]
      BY <2>1, <3>1, <3>2
    <3> QED BY <2>1, <3>3, <3>4 DEF NothingInUseIsFreed
  <2> QED BY <2>2, <2>3
<1> QED BY <1>1, InductiveInvariant, PTL

\* The reaper frees each resource of a process once, after its exit.
THEOREM FreedOnce == Spec => []ReaperFreesOnce
<1>1. IInv => ReaperFreesOnce
  BY DEF IInv, VictimInv, ReaperFreesOnce, Remaining, Resources
<1> QED BY <1>1, InductiveInvariant, PTL

\* The lazy save and restore of schedule() never mixes user registers.
THEOREM RegistersCorrect == Spec => []UserRegistersAreOwn
<1>1. ASSUME IInv PROVE UserRegistersAreOwn
  <2>1. SUFFICES ASSUME NEW p \in Procs, rsp = p, sched.at = "off"
                 PROVE  uregs = p
    BY DEF UserRegistersAreOwn
  <2>2. p \in Threads \ {Idle} /\ p # Boot
    BY SchedulerAssumption DEF Threads, Kthreads
  <2>3. threads # NULL /\ Running = threads
    BY <1>1, <2>1, <2>2 DEF IInv, BootInv, Running
  <2>4. threads = p
    BY <1>1, <2>1, <2>2, <2>3 DEF IInv, CpuInv, StackOf
  <2> QED BY <1>1, <2>1, <2>3, <2>4 DEF IInv, CpuInv
<1> QED BY <1>1, InductiveInvariant, PTL

\* Without the GDB stub, sys_exit's panic is unreachable.
THEOREM NoExitPanic == Spec => []ExitedNeverRuns
<1>1. IInv => ExitedNeverRuns
  BY DEF IInv, PanicInv, ExitedNeverRuns
<1> QED BY <1>1, InductiveInvariant, PTL

\* Only the end of schedule() moves the CPU to another stack, and the thread
\* it moves to has not exited.
LEMMA StackStep ==
    ASSUME IInv, [Next]_vars
    PROVE  \/ rsp' = rsp
           \/ /\ Dispatch /\ rsp' = StackOf(threads) /\ threads \in linked
              /\ thread_state[threads] = "RUNNING"
<1>1. CASE Dispatch
  <2>1. CASE threads = sched.prev
    BY <1>1, <2>1 DEF Dispatch, cpu
  <2>2. CASE threads # sched.prev
    BY <1>1, <2>2, InSchedule DEF Dispatch, SwitchTo, IInv, CpuInv, Running, TypeOK
  <2> QED BY <2>1, <2>2
<1>2. CASE SkipSleeper \/ ReapNext
  BY <1>2 DEF SkipSleeper, ReapNext, cpu
<1>3. CASE Kmain
  BY <1>3 DEF Kmain, CreateAlloc, CreateLink, cpu
<1>4. CASE ShellStep
  BY <1>4 DEF ShellStep, CreateAlloc, CreateLink, SetSleep, Yield, cpu
<1>5. CASE ReaperStep
  BY <1>5 DEF ReaperStep, GetNextThreadToReap, Free, Yield, cpu
<1>6. ASSUME NEW p \in Procs, LoadStep(p) \/ ProcStep(p) \/ ExitPanic(p)
      PROVE  rsp' = rsp
  BY <1>6 DEF LoadStep, ProcStep, ExitPanic, SetSleep, SetReaping, Yield, cpu
<1>7. CASE TimerInterrupt \/ DeviceInterrupt \/ Debugger \/ UNCHANGED vars
  BY <1>7 DEF TimerInterrupt, DeviceInterrupt, Debugger, cpu, vars
<1> QED BY <1>1, <1>2, <1>3, <1>4, <1>5, <1>6, <1>7 DEF Next, Schedule, Halted

\* A thread that has exited and lost the CPU never gets it back.
THEOREM ExitCorrect == Spec => ExitIsFinal
<1>1. ASSUME IInv, [Next]_vars
      PROVE  [\A t \in Threads : thread_state[t] = "REAPING" /\ rsp # t
                                    => rsp' # t]_vars
  <2>1. SUFFICES ASSUME NEW t \in Threads, thread_state[t] = "REAPING",
                        rsp # t, rsp' = t
                 PROVE  FALSE
    OBVIOUS
  <2>2. StackOf(threads) = t /\ thread_state[threads] = "RUNNING"
    BY <1>1, <2>1, StackStep
  <2>3. threads = t
    BY <2>2, SchedulerAssumption DEF StackOf
  <2> QED BY <2>1, <2>2, <2>3
<1> QED BY <1>1, InductiveInvariant, PTL DEF Spec, ExitIsFinal

\* schedule() takes only exited and sleeping threads off the ring.
THEOREM UnlinkCorrect == Spec => OnlyExitedOrAsleepUnlinked
<1>1. ASSUME IInv, [Next]_vars
      PROVE  [\A t \in linked \ linked' :
                \/ thread_state[t] = "REAPING" /\ threads_to_reap' = t
                \/ sleep_left[t] > 0]_vars
  <2>1. CASE ReapNext
    BY <1>1, <2>1 DEF ReapNext, IInv, SchedInv
  <2>2. ASSUME ~ReapNext PROVE linked \subseteq linked'
    <3>1. CASE SkipSleeper \/ Dispatch
      BY <3>1 DEF SkipSleeper, Dispatch, ring
    <3>2. CASE Kmain
      BY <3>2 DEF Kmain, CreateAlloc, CreateLink
    <3>3. CASE ShellStep
      BY <3>3 DEF ShellStep, CreateAlloc, CreateLink, SetSleep, Yield,
                  EnterSchedule, ring
    <3>4. CASE ReaperStep
      BY <3>4 DEF ReaperStep, GetNextThreadToReap, Free, Yield, EnterSchedule, ring
    <3>5. ASSUME NEW p \in Procs, LoadStep(p) \/ ProcStep(p) \/ ExitPanic(p)
          PROVE  linked \subseteq linked'
      BY <3>5 DEF LoadStep, ProcStep, ExitPanic, SetSleep, SetReaping, Yield,
                  EnterSchedule, ring
    <3>6. CASE TimerInterrupt \/ DeviceInterrupt \/ Debugger \/ UNCHANGED vars
      BY <3>6 DEF TimerInterrupt, DeviceInterrupt, Debugger, EnterSchedule, ring, vars
    <3> QED BY <1>1, <2>2, <3>1, <3>2, <3>3, <3>4, <3>5, <3>6
            DEF Next, Schedule, Halted
  <2> QED BY <2>1, <2>2
<1> QED BY <1>1, InductiveInvariant, PTL DEF Spec, OnlyExitedOrAsleepUnlinked

\* The thread ThreadLife calls running.
LEMMA LifeRunning ==
    ASSUME IInv, NEW p \in Procs, Ready(p) \/ Ready(Reaper) \/ Ready(Shell)
    PROVE  /\ Ready(p) => p \in linked /\ rsp = p /\ threads = p
           /\ Ready(Reaper) => rsp = Reaper
           /\ p # Boot /\ p # Reaper /\ p # Idle /\ Reaper # Boot
  BY SchedulerAssumption, ReadyThread DEF Ready, Threads, Kthreads

\* A step that leaves the memory and the state of every process and the stack
\* in use alone is a stutter of ThreadLife.
LEMMA LifeStutter ==
    ASSUME UNCHANGED <<rsp, held, thread_state>>
    PROVE  UNCHANGED Life!lifeVars
BY DEF Life!lifeVars, Phase

\* schedule() and the exit paths implement the life of a process.
LEMMA LifeStep ==
    ASSUME IInv, [Next]_vars
    PROVE  [Life!Next]_(Life!lifeVars)
<1> USE SchedulerAssumption
<1> DEFINE phase == [p \in Procs |-> Phase(p)]
<1>1. CASE Dispatch
  <2>1. CASE rsp' = rsp
    BY <1>1, <2>1, LifeStutter DEF Dispatch, reap
  <2>2. CASE rsp' # rsp
    <3>1. /\ rsp' = StackOf(threads) /\ threads \in linked /\ threads \in Threads
          /\ thread_state[threads] = "RUNNING" /\ held[threads] # {}
          /\ UNCHANGED <<held, thread_state>>
      <4>1. /\ rsp' = StackOf(threads) /\ threads \in linked
            /\ thread_state[threads] = "RUNNING"
        BY <2>2, StackStep
      <4>2. threads \in Threads /\ held[threads] = Full(threads)
        BY <4>1 DEF IInv, TypeOK, RingInv
      <4>3. "stack" \in Full(threads)
        BY DEF Full, Resources
      <4> QED BY <1>1, <4>1, <4>2, <4>3 DEF Dispatch, reap
    <3>2. (IF rsp' = Boot THEN Idle ELSE rsp') = threads
      BY <3>1 DEF StackOf
    <3>3. threads \in Procs => phase[threads] = "alive"
      BY <3>1 DEF Phase
    <3>4. phase' = phase
      BY <3>1 DEF Phase
    <3>5. Life!Run(threads)
      BY <3>1, <3>2, <3>3, <3>4 DEF Life!Run, Threads
    <3> QED BY <3>1, <3>5 DEF Life!Next, Threads
  <2> QED BY <2>1, <2>2
<1>2. CASE SkipSleeper \/ ReapNext
  BY <1>2, LifeStutter DEF SkipSleeper, ReapNext, cpu, reap
<1>3. ASSUME NEW s, NEW t \in Threads, NEW label, CreateAlloc(s, t, label)
      PROVE  [Life!Next]_(Life!lifeVars)
  <2>1. UNCHANGED rsp /\ held[t] = {} /\ held'[t] # {} /\ thread_state'[t] = "RUNNING"
        /\ \A x \in Threads \ {t} : held'[x] = held[x] /\ thread_state'[x] = thread_state[x]
    BY <1>3 DEF CreateAlloc, IInv, TypeOK, Resources
  <2>2. \A p \in Procs \ {t} : Phase(p)' = Phase(p)
    BY <2>1 DEF Phase, Threads
  <2>3. CASE t \in Procs
    <3>1. Phase(t) = "none" /\ Phase(t)' = "alive"
      BY <2>1 DEF Phase
    <3>2. phase[t] = "none" /\ phase' = [phase EXCEPT ![t] = "alive"]
      BY <2>2, <2>3, <3>1
    <3>3. Life!Start(t)
      BY <2>1, <3>2 DEF Life!Start
    <3> QED BY <2>3, <3>3 DEF Life!Next
  <2>4. CASE t \notin Procs
    <3>1. phase' = phase
      BY <2>2, <2>4
    <3> QED BY <2>1, <3>1 DEF Life!lifeVars
  <2> QED BY <2>3, <2>4
<1>4. ASSUME NEW p \in Procs, NEW to, Ready(p), SetReaping(p, to)
      PROVE  [Life!Next]_(Life!lifeVars)
  <2>1. /\ rsp = p /\ threads = p /\ p \in linked /\ p # Boot
        /\ UNCHANGED <<rsp, held>>
    BY <1>4, LifeRunning DEF SetReaping, cpu, reap
  <2>2. /\ held[p] = Resources /\ thread_state'[p] = "REAPING"
        /\ \A x \in Threads \ {p} : thread_state'[x] = thread_state[x]
        /\ thread_state[p] \in {"RUNNING", "REAPING"} /\ p \in Threads
    BY <1>4, <2>1 DEF SetReaping, IInv, TypeOK, RingInv, Full, Threads
  <2>3. \A q \in Procs \ {p} : Phase(q)' = Phase(q)
    BY <2>1, <2>2 DEF Phase, Threads
  <2>4. CASE thread_state[p] = "RUNNING"
    <3>1. Phase(p) = "alive" /\ Phase(p)' = "exited"
      BY <2>1, <2>2, <2>4 DEF Phase, Resources
    <3>2. phase[p] = "alive" /\ phase' = [phase EXCEPT ![p] = "exited"]
      BY <2>3, <3>1
    <3>3. Life!Exit(p)
      BY <2>1, <3>2 DEF Life!Exit
    <3> QED BY <3>3 DEF Life!Next
  <2>5. CASE thread_state[p] = "REAPING"
    <3>1. phase' = phase
      BY <2>1, <2>2, <2>3, <2>5 DEF Phase
    <3> QED BY <2>1, <3>1 DEF Life!lifeVars
  <2> QED BY <2>2, <2>4, <2>5
<1>5. ASSUME NEW resource \in Resources, NEW to, Ready(Reaper),
             Free(resource, resource, to)
      PROVE  [Life!Next]_(Life!lifeVars)
  <2>0. victim \in Procs
    BY <1>5 DEF Free, IInv, VictimInv
  <2>1. PICK v \in Procs : v = victim
    BY <2>0
  <2>2. /\ thread_state[v] = "REAPING" /\ held[v] = Remaining(resource)
        /\ UNCHANGED <<rsp, thread_state>> /\ rsp = Reaper
        /\ Reaper # v /\ Reaper # Boot
    BY <1>5, <2>1, LifeRunning DEF Free, IInv, VictimInv, cpu
  <2>3. /\ held'[v] = held[v] \ {resource}
        /\ \A x \in Threads \ {v} : held'[x] = held[x]
    BY <1>5, <2>1 DEF Free, IInv, TypeOK, Threads
  <2>4. \A q \in Procs \ {v} : Phase(q)' = Phase(q)
    BY <2>2, <2>3 DEF Phase, Threads
  <2>5. CASE resource = "pagemap"
    <3>1. held[v] = Resources /\ held'[v] = {"fds", "stack", "struct"}
      BY <2>2, <2>3, <2>5 DEF Remaining, Resources
    <3>2. Phase(v) = "exited" /\ Phase(v)' = "collected"
      BY <2>2, <3>1 DEF Phase, Resources
    <3>3. phase[v] = "exited" /\ phase' = [phase EXCEPT ![v] = "collected"]
      BY <2>4, <3>2
    <3>4. Life!Collect(v)
      BY <2>2, <3>3 DEF Life!Collect
    <3> QED BY <3>4 DEF Life!Next
  <2>6. CASE resource = "struct"
    <3>1. held[v] = {"struct"} /\ held'[v] = {}
      BY <2>2, <2>3, <2>6 DEF Remaining
    <3>2. Phase(v) = "collected" /\ Phase(v)' = "none"
      BY <2>2, <3>1 DEF Phase
    <3>3. phase[v] = "collected" /\ phase' = [phase EXCEPT ![v] = "none"]
      BY <2>4, <3>2
    <3>4. Life!Release(v)
      BY <2>2, <3>3 DEF Life!Release
    <3> QED BY <3>4 DEF Life!Next
  <2>7. CASE resource \in {"fds", "stack"}
    <3>1. /\ "struct" \in held[v] /\ "struct" \in held'[v]
          /\ "pagemap" \notin held[v] /\ "pagemap" \notin held'[v]
      BY <2>2, <2>3, <2>7, SMT DEF Remaining
    <3>2. Phase(v)' = Phase(v)
      BY <2>2, <3>1 DEF Phase
    <3>3. phase' = phase
      BY <2>4, <3>2
    <3> QED BY <2>2, <3>3 DEF Life!lifeVars
  <2> QED BY <2>5, <2>6, <2>7 DEF Resources
<1>6. CASE Kmain
  <2>1. {Idle, Reaper, Shell} \subseteq Threads
    BY DEF Threads, Kthreads
  <2>2. ASSUME NEW s, NEW label, CreateLink(s, label)
        PROVE  [Life!Next]_(Life!lifeVars)
    BY <2>2, LifeStutter DEF CreateLink, cpu, reap
  <2> QED BY <1>3, <1>6, <2>1, <2>2 DEF Kmain
<1>7. CASE ShellStep
  <2>1. ASSUME NEW p \in Procs, CreateAlloc(Shell, p, "link")
        PROVE  [Life!Next]_(Life!lifeVars)
    BY <1>3, <2>1 DEF Threads
  <2>2. CASE \/ CreateLink(Shell, "start") \/ SetSleep(Shell, Forever, "bash")
             \/ Yield(Shell, "start", "start") \/ Yield(Shell, "bash", "start")
    BY <2>2, LifeStutter DEF CreateLink, SetSleep, Yield, cpu, reap
  <2> QED BY <1>7, <2>1, <2>2 DEF ShellStep
<1>8. CASE ReaperStep
  <2>1. CASE GetNextThreadToReap \/ Yield(Reaper, "start", "start")
    BY <2>1, LifeStutter DEF GetNextThreadToReap, Yield, cpu, reap
  <2> QED BY <1>5, <1>8, <2>1 DEF ReaperStep, Resources
<1>9. ASSUME NEW p \in Procs, LoadStep(p) \/ ProcStep(p) \/ ExitPanic(p)
      PROVE  [Life!Next]_(Life!lifeVars)
  <2>1. CASE Ready(p) /\ (SetReaping(p, "quit") \/ SetReaping(p, "exit"))
    BY <1>4, <2>1
  <2>2. CASE ~(Ready(p) /\ (SetReaping(p, "quit") \/ SetReaping(p, "exit")))
    <3>1. UNCHANGED <<rsp, held, thread_state>>
      BY <1>9, <2>2 DEF LoadStep, ProcStep, ExitPanic, SetSleep, Yield, cpu, reap
    <3> QED BY <3>1, LifeStutter
  <2> QED BY <2>1, <2>2
<1>10. CASE TimerInterrupt \/ DeviceInterrupt \/ Debugger \/ UNCHANGED vars
  BY <1>10, LifeStutter DEF TimerInterrupt, DeviceInterrupt, Debugger, cpu, reap, vars
<1> QED BY <1>1, <1>2, <1>6, <1>7, <1>8, <1>9, <1>10 DEF Next, Schedule, Halted

\* The scheduler, the exit paths and the reaper implement ThreadLife.
THEOREM LifeRefinement == Spec => ImplementsThreadLife
<1>1. Init => Life!Init
  BY SMT DEF Init, Life!Init, Phase, Threads
<1>2. IInv /\ [Next]_vars => [Life!Next]_(Life!lifeVars)
  BY LifeStep
<1> QED BY <1>1, <1>2, InductiveInvariant, PTL
        DEF Spec, ImplementsThreadLife, Life!Spec
=============================================================================
