----------------------------- MODULE LinksProofs -----------------------------
(* What inserting, cutting, pushing and popping do to the shapes of Links. *)
EXTENDS Links, TLAPS

\* A cycle depends on the successors of its members only.
LEMMA CycleFrame ==
    ASSUME NEW L, NEW f, NEW g, OneCycle(L, f), \A t \in L : g[t] = f[t]
    PROVE  OneCycle(L, g)
BY DEF OneCycle

\* The first create_thread: a thread that points to itself.
LEMMA CycleSelf ==
    ASSUME NEW f, NEW n, f[n] = n
    PROVE  OneCycle({n}, f)
BY DEF OneCycle

\* create_thread's insertion behind t.
LEMMA CycleInsert ==
    ASSUME NEW L, NEW f, NEW g, NEW t \in L, NEW n, n \notin L,
           OneCycle(L, f),
           g[n] = f[t], g[t] = n, \A x \in L \ {t} : g[x] = f[x]
    PROVE  OneCycle(L \cup {n}, g)
<1>1. \A x \in L \cup {n} : g[x] \in L \cup {n}
  BY DEF OneCycle
<1>2. \A x, y \in L \cup {n} : g[x] = g[y] => x = y
  BY DEF OneCycle
<1>3. ASSUME NEW C \in SUBSET (L \cup {n}), C # {}, \A x \in C : g[x] \in C
      PROVE  C = L \cup {n}
  <2>1. n \in C
    <3>1. SUFFICES ASSUME n \notin C PROVE FALSE
      OBVIOUS
    <3>2. t \notin C /\ C \in SUBSET L
      BY <1>3, <3>1
    <3>3. \A x \in C : f[x] \in C
      BY <1>3, <3>2
    <3>4. C = L
      BY <1>3, <3>2, <3>3 DEF OneCycle
    <3> QED BY <3>2, <3>4
  <2> DEFINE D == C \ {n}
  <2>2. f[t] \in D
    BY <1>3, <2>1 DEF OneCycle
  <2>3. \A x \in D : f[x] \in D
    BY <1>3, <2>2 DEF OneCycle
  <2>4. D = L
    <3>1. D \in SUBSET L /\ D # {}
      BY <2>2
    <3> QED BY <2>3, <3>1 DEF OneCycle
  <2> QED BY <2>1, <2>4
<1> QED BY <1>1, <1>2, <1>3 DEF OneCycle

\* schedule()'s cut: prev is linked past t, and the stretch S between the two
\* goes with it.
LEMMA CycleCut ==
    ASSUME NEW L, NEW f, NEW g, NEW S, S \subseteq L,
           NEW prev \in L, NEW t \in L,
           prev # t, prev \notin S, t \notin S,
           OneCycle(L, f),
           \A x \in L : f[x] \in S \cup {t} => x \in S \cup {prev},
           \A x \in S \cup {prev} : f[x] \in S \cup {t},
           g[prev] = f[t],
           \A x \in L \ (S \cup {t, prev}) : g[x] = f[x]
    PROVE  OneCycle(L \ (S \cup {t}), g)
<1> DEFINE K == L \ (S \cup {t})
<1>0. f[t] \in K
  BY DEF OneCycle
<1>1. \A x \in K : g[x] \in K
  BY <1>0 DEF OneCycle
<1>2. \A x, y \in K : g[x] = g[y] => x = y
  BY DEF OneCycle
<1>3. ASSUME NEW C \in SUBSET K, C # {}, \A x \in C : g[x] \in C
      PROVE  C = K
  <2>1. prev \in C
    <3>1. SUFFICES ASSUME prev \notin C PROVE FALSE
      OBVIOUS
    <3>2. \A x \in C : f[x] \in C
      BY <1>3, <3>1
    <3>3. C = L
      <4>1. C \in SUBSET L
        OBVIOUS
      <4> QED BY <1>3, <3>2, <4>1 DEF OneCycle
    <3> QED BY <3>1, <3>3
  <2> DEFINE D == C \cup S \cup {t}
  <2>2. \A x \in D : f[x] \in D
    BY <1>3, <2>1
  <2>3. D = L
    <3>1. D \in SUBSET L /\ D # {}
      OBVIOUS
    <3> QED BY <2>2, <3>1 DEF OneCycle
  <2> QED BY <2>3
<1> QED BY <1>1, <1>2, <1>3 DEF OneCycle

\* A list depends on the successors of its members only.
LEMMA ListFrame ==
    ASSUME NEW h, NEW Q, NEW f, NEW g, OneList(h, Q, f),
           \A t \in Q : g[t] = f[t]
    PROVE  OneList(h, Q, g)
BY DEF OneList

\* schedule() pushes t.
LEMMA ListPush ==
    ASSUME NEW h, NEW Q, NEW f, NEW g, NEW t, t # NULL, t \notin Q,
           OneList(h, Q, f), g[t] = h, \A x \in Q : g[x] = f[x]
    PROVE  OneList(t, Q \cup {t}, g)
<1>1. \A x \in Q \cup {t} : g[x] \in (Q \cup {t}) \cup {NULL} /\ g[x] # t
  BY DEF OneList
<1>2. \A x, y \in Q \cup {t} : g[x] = g[y] /\ g[x] # NULL => x = y
  BY DEF OneList
<1>3. ASSUME NEW C \in SUBSET (Q \cup {t}), t \in C,
             \A x \in C : g[x] \in C \cup {NULL}
      PROVE  C = Q \cup {t}
  <2>1. CASE h = NULL
    <3>1. Q = {}
      BY <2>1 DEF OneList
    <3> QED BY <1>3, <3>1
  <2>2. CASE h # NULL
    <3> DEFINE D == C \ {t}
    <3>1. h \in D /\ D \in SUBSET Q
      BY <1>3, <2>2 DEF OneList
    <3>2. \A x \in D : f[x] \in D \cup {NULL}
      BY <1>1, <1>3, <3>1
    <3>3. D = Q
      BY <3>1, <3>2 DEF OneList
    <3> QED BY <1>3, <3>3
  <2> QED BY <2>1, <2>2
<1> QED BY <1>1, <1>2, <1>3 DEF OneList

\* get_next_thread_to_reap pops the head.
LEMMA ListPop ==
    ASSUME NEW h, NEW Q, NEW f, NEW g, h # NULL, NULL \notin Q,
           OneList(h, Q, f), \A x \in Q \ {h} : g[x] = f[x]
    PROVE  OneList(f[h], Q \ {h}, g)
<1>1. \A x \in Q \ {h} : g[x] \in (Q \ {h}) \cup {NULL} /\ (g[x] # f[h] \/ f[h] = NULL)
  BY DEF OneList
<1>2. \A x, y \in Q \ {h} : g[x] = g[y] /\ g[x] # NULL => x = y
  BY DEF OneList
<1>3. CASE f[h] = NULL
  <2>1. {h} \in SUBSET Q
    BY DEF OneList
  <2>2. Q = {h}
    BY <1>3, <2>1 DEF OneList
  <2> QED BY <1>3, <2>2 DEF OneList
<1>4. CASE f[h] # NULL
  <2>1. f[h] \in Q \ {h}
    BY <1>4 DEF OneList
  <2>2. ASSUME NEW C \in SUBSET (Q \ {h}), f[h] \in C,
               \A x \in C : g[x] \in C \cup {NULL}
        PROVE  C = Q \ {h}
    <3> DEFINE D == C \cup {h}
    <3>1. h \in D /\ D \in SUBSET Q
      BY DEF OneList
    <3>2. \A x \in D : f[x] \in D \cup {NULL}
      BY <2>2
    <3>3. D = Q
      BY <3>1, <3>2 DEF OneList
    <3> QED BY <3>3
  <2> QED BY <1>1, <1>2, <1>4, <2>1, <2>2 DEF OneList
<1> QED BY <1>3, <1>4
\* A list of one.
LEMMA ListOne ==
    ASSUME NEW p, p # NULL, NEW f, f[p] = NULL
    PROVE  OneList(p, {p}, f)
BY DEF OneList

\* allocate_with_slab links a new slab p behind the last one, s.
LEMMA ListAppend ==
    ASSUME NEW h, NEW Q, NEW f, NEW g, NEW s \in Q, NEW p, p # NULL, p \notin Q,
           NULL \notin Q, OneList(h, Q, f), f[s] = NULL,
           g[s] = p, g[p] = NULL, \A x \in Q \ {s} : g[x] = f[x]
    PROVE  OneList(h, Q \cup {p}, g)
<1>0. h \in Q /\ h # NULL
  BY DEF OneList
<1>1. \A x \in Q \cup {p} : g[x] \in (Q \cup {p}) \cup {NULL} /\ g[x] # h
  BY <1>0 DEF OneList
<1>2. \A x, y \in Q \cup {p} : g[x] = g[y] /\ g[x] # NULL => x = y
  BY DEF OneList
<1>3. ASSUME NEW C \in SUBSET (Q \cup {p}), h \in C,
             \A x \in C : g[x] \in C \cup {NULL}
      PROVE  C = Q \cup {p}
  <2> DEFINE D == C \ {p}
  <2>1. h \in D /\ D \in SUBSET Q
    BY <1>0, <1>3
  <2>2. \A x \in D : f[x] \in D \cup {NULL}
    BY <1>3, <2>1 DEF OneList
  <2>3. D = Q
    BY <2>1, <2>2 DEF OneList
  <2> QED BY <1>3, <2>3
<1> QED BY <1>0, <1>1, <1>2, <1>3 DEF OneList
=============================================================================
