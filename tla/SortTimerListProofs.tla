------------------------ MODULE SortTimerListProofs -------------------------
(***************************************************************************)
(* SortTimerList's properties for every finite set of timers and every set *)
(* of times: the pointers always make one list in the order of expire,     *)
(* and the list is a queue of timers as TimerQueue describes one.          *)
(*                                                                         *)
(* The list is a sequence of timers the pointers agree with (Chain).  The  *)
(* operations insert a timer into the sequence or cut one out of it; that  *)
(* the timers a loop comes to are the sequence's is shown with the least   *)
(* place where they would not be.                                          *)
(***************************************************************************)
EXTENDS SortTimerList, FiniteSetTheorems, WellFoundedInduction, TLAPS

(* The n timers p[1], ..., p[n] are what the pointers link: hd and tl are  *)
(* the first and the last, nx and pv lead to the neighbours.               *)
Chain(n, p, hd, tl, nx, pv) ==
  /\ n \in Nat /\ p \in [1..n -> Timers]
  /\ \A i, j \in 1..n : p[i] = p[j] => i = j
  /\ hd = IF n = 0 THEN NULL ELSE p[1]
  /\ n > 0 => tl = p[n]
  /\ \A i \in 1..n : nx[p[i]] = IF i = n THEN NULL ELSE p[i + 1]
  /\ \A i \in 1..n : pv[p[i]] = IF i = 1 THEN NULL ELSE p[i - 1]

(* They are in the order of e.                                             *)
Ascending(n, p, e) == \A i, j \in 1..n : i < j => e[p[i]] <= e[p[j]]

Among(n, p) == {p[i] : i \in 1..n}

(* p is the list.                                                          *)
IsList(n, p) ==
  Chain(n, p, head, tail, next, prev) /\ Ascending(n, p, expire)

ListInv == TypeOK /\ \E n, p : IsList(n, p)

(* p with t in place m, and without the timer in place m.                  *)
Insert(n, p, m, t) ==
  [i \in 1..n + 1 |-> IF i < m THEN p[i] ELSE IF i = m THEN t ELSE p[i - 1]]

Cut(n, p, m) == [i \in 1..n - 1 |-> IF i < m THEN p[i] ELSE p[i + 1]]
-----------------------------------------------------------------------------
(* Sequences of timers                                                     *)

(* A set of numbers that is not empty has a least one: < is well-founded.  *)
LEMMA LeastNumber ==
  ASSUME NEW S, S \subseteq Nat, S # {}
  PROVE  \E i \in S : \A j \in S : i <= j
<1> DEFINE R == OpToRel(<, Nat)
<1>1. PICK i \in S : \A j \in S : <<j, i>> \notin R
  <2>1. IsWellFoundedOn(R, Nat)
    BY NatLessThanWellFounded
  <2> HIDE DEF R
  <2> QED  BY <2>1, WFMin
<1>2. \A j \in S : ~ (j < i)
  BY <1>1 DEF OpToRel
<1> HIDE DEF R
<1> QED  BY <1>2

(* A list is no longer than there are timers.                              *)
LEMMA ChainIsShort ==
  ASSUME NEW n, NEW p, NEW hd, NEW tl, NEW nx, NEW pv,
         Chain(n, p, hd, tl, nx, pv)
  PROVE  n <= Cardinality(Timers) /\ Cardinality(Timers) \in Nat
<1>1. n \in Nat /\ p \in Injection(1..n, Timers)
  BY DEF Chain, Injection, IsInjective
<1>2. Cardinality(1..n) = n
  BY <1>1, FS_Interval
<1> QED
  BY <1>1, <1>2, FS_Injection, FS_CardinalityType, ListAssumption

(* A loop that starts at a timer of the list comes to those after it, and  *)
(* to NULL.                                                                *)
LEMMA WalkIs ==
  ASSUME NEW n, NEW p, NEW hd, NEW tl, NEW nx, NEW pv,
         Chain(n, p, hd, tl, nx, pv), NEW j \in 1..n + 1,
         NEW s, s = IF j <= n THEN p[j] ELSE NULL
  PROVE  /\ DOMAIN Walk(nx, s) = 0..Cardinality(Timers)
         /\ \A k \in 0..Cardinality(Timers) :
              Walk(nx, s)[k] = IF j + k <= n THEN p[j + k] ELSE NULL
<1> DEFINE D == 0..Cardinality(Timers)
           step(f) == [k \in D |->
             IF k = 0 THEN s
             ELSE IF f[k - 1] = NULL THEN NULL ELSE nx[f[k - 1]]]
           w  == [k \in D |-> IF j + k <= n THEN p[j + k] ELSE NULL]
           at == CHOOSE f : f = step(f)
<1>0. /\ n \in Nat /\ j \in Nat /\ j > 0 /\ D \subseteq Nat
      /\ \A i \in 1..n : p[i] \in Timers /\ p[i] # NULL
      /\ \A i \in 1..n : nx[p[i]] = IF i = n THEN NULL ELSE p[i + 1]
  BY ChainIsShort, ListAssumption DEF Chain
<1>1. ASSUME NEW f, f = step(f), NEW k \in D, k # 0
      PROVE  f[k] = IF f[k - 1] = NULL THEN NULL ELSE nx[f[k - 1]]
  BY <1>1
<1>2. ASSUME NEW f, f = step(f) PROVE f[0] = s
  <2>1. 0 \in D
    BY ChainIsShort
  <2> QED  BY <1>2, <2>1
<1>3. w = step(w)
  <2> SUFFICES ASSUME NEW k \in D PROVE w[k] = step(w)[k]
    OBVIOUS
  <2>1. CASE k = 0
    BY <1>0, <2>1
  <2>2. CASE k # 0 /\ j + k - 1 <= n
    <3>1. k - 1 \in D /\ w[k - 1] = p[j + k - 1] /\ j + k - 1 \in 1..n
      BY <1>0, <2>2, ChainIsShort
    <3>2. nx[p[j + k - 1]] = w[k]
      BY <1>0, <2>2, <3>1
    <3> QED  BY <1>0, <2>2, <3>1, <3>2
  <2>3. CASE k # 0 /\ ~(j + k - 1 <= n)
    <3>1. k - 1 \in D /\ w[k - 1] = NULL /\ w[k] = NULL
      BY <1>0, <2>3, ChainIsShort
    <3> QED  BY <2>3, <3>1
  <2> QED  BY <2>1, <2>2, <2>3
<1>4. at = step(at)
  <2> HIDE DEF step, w
  <2> QED  BY <1>3
<1>5. \A k \in D : at[k] = w[k]
  <2> DEFINE Bad == {k \in D : at[k] # w[k]}
  <2> SUFFICES ASSUME Bad # {} PROVE FALSE
    OBVIOUS
  <2>1. PICK k \in Bad : \A l \in Bad : k <= l
    <3>1. Bad \subseteq Nat
      BY <1>0
    <3> HIDE DEF Bad
    <3> QED  BY <3>1, LeastNumber
  <2> HIDE DEF at, w, step
  <2>2. k # 0
    BY <1>2, <1>3, <1>4, <2>1
  <2>3. k - 1 \in D /\ k - 1 \notin Bad
    BY <1>0, <2>1, <2>2, ChainIsShort
  <2>4. at[k - 1] = w[k - 1]
    BY <2>3
  <2>5. at[k] = w[k]
    BY <1>1, <1>3, <1>4, <2>1, <2>2, <2>4
  <2> QED  BY <2>1, <2>5
<1>6. DOMAIN at = D
  <2>1. DOMAIN step(at) = D
    OBVIOUS
  <2> HIDE DEF step, at
  <2> QED  BY <1>4, <2>1
<1>7. Walk(nx, s) = at
  BY DEF Walk
<1> HIDE DEF at
<1> QED  BY <1>5, <1>6, <1>7

(* The timers reached from the head are those of the list.                 *)
LEMMA ReachedIs ==
  ASSUME NEW n, NEW p, NEW hd, NEW tl, NEW nx, NEW pv,
         Chain(n, p, hd, tl, nx, pv)
  PROVE  Reached(nx, hd) = Among(n, p)
<1> DEFINE C  == Cardinality(Timers)
           at == Walk(nx, hd)
<1>a. /\ n \in Nat /\ hd = IF n = 0 THEN NULL ELSE p[1]
      /\ \A i \in 1..n : p[i] \in Timers /\ p[i] # NULL
  BY ListAssumption DEF Chain
<1>1. n <= C /\ C \in Nat
  BY ChainIsShort
<1>2. /\ DOMAIN at = 0..C
      /\ \A k \in 0..C : at[k] = IF 1 + k <= n THEN p[1 + k] ELSE NULL
  <2>1. 1 \in 1..n + 1 /\ hd = IF 1 <= n THEN p[1] ELSE NULL
    BY <1>a
  <2> QED  BY <2>1, WalkIs
<1>3. Reached(nx, hd) = {at[k] : k \in DOMAIN at} \ {NULL}
  BY DEF Reached
<1> HIDE DEF at, C
<1>4. ASSUME NEW u \in Among(n, p) PROVE u \in Reached(nx, hd)
  <2>1. PICK i \in 1..n : u = p[i]
    BY DEF Among
  <2>2. i - 1 \in 0..C /\ at[i - 1] = u /\ u # NULL
    BY <1>a, <1>1, <1>2, <2>1
  <2>3. i - 1 \in DOMAIN at
    BY <1>2, <2>2
  <2> QED  BY <1>3, <2>2, <2>3
<1>5. ASSUME NEW u \in Reached(nx, hd) PROVE u \in Among(n, p)
  <2>1. PICK k \in 0..C : u = at[k] /\ u # NULL
    BY <1>2, <1>3
  <2>2. 1 + k \in 1..n /\ u = p[1 + k]
    BY <1>a, <1>1, <1>2, <2>1
  <2> QED  BY <2>2 DEF Among
<1> QED  BY <1>4, <1>5

(* The timers of a list with one more, and with one less.                  *)
LEMMA InsertIs ==
  ASSUME NEW n \in Nat, NEW p \in [1..n -> Timers],
         NEW m \in 1..n + 1, NEW t \in Timers
  PROVE  /\ Insert(n, p, m, t) \in [1..n + 1 -> Timers]
         /\ Insert(n, p, m, t)[m] = t
         /\ \A i \in 1..n : i < m => Insert(n, p, m, t)[i] = p[i]
         /\ \A i \in 1..n + 1 : i > m => /\ i - 1 \in 1..n
                                         /\ Insert(n, p, m, t)[i] = p[i - 1]
         /\ Among(n + 1, Insert(n, p, m, t)) = Among(n, p) \cup {t}
<1> DEFINE q == Insert(n, p, m, t)
<1>1. ASSUME NEW i \in 1..n + 1
      PROVE  /\ q[i] = IF i < m THEN p[i] ELSE IF i = m THEN t ELSE p[i - 1]
             /\ i < m => i \in 1..n
             /\ i > m => i - 1 \in 1..n
  BY DEF Insert
<1>2. q \in [1..n + 1 -> Timers]
  BY <1>1 DEF Insert
<1>3. m \in 1..n + 1 /\ m \in Nat /\ \A i \in 1..n : i \in 1..n + 1
  OBVIOUS
<1> HIDE DEF q
<1>4. q[m] = t
  BY <1>1, <1>3
<1>5. \A i \in 1..n : i < m => q[i] = p[i]
  BY <1>1, <1>3
<1>6. \A i \in 1..n + 1 : i > m => i - 1 \in 1..n /\ q[i] = p[i - 1]
  BY <1>1, <1>3
<1>7. ASSUME NEW u \in Among(n, p) PROVE u \in Among(n + 1, q)
  <2>1. PICK i \in 1..n : u = p[i]
    BY DEF Among
  <2>2. CASE i < m
    BY <1>3, <1>5, <2>1, <2>2 DEF Among
  <2>3. CASE ~(i < m)
    <3>1. i + 1 \in 1..n + 1 /\ i + 1 > m /\ i + 1 - 1 = i
      BY <2>3
    <3>2. q[i + 1] = u
      BY <1>6, <2>1, <3>1
    <3> QED  BY <3>1, <3>2 DEF Among
  <2> QED  BY <2>2, <2>3
<1>8. t \in Among(n + 1, q)
  BY <1>3, <1>4 DEF Among
<1>9. ASSUME NEW u \in Among(n + 1, q) PROVE u \in Among(n, p) \cup {t}
  <2>1. PICK i \in 1..n + 1 : u = q[i]
    BY DEF Among
  <2> QED  BY <1>1, <2>1 DEF Among
<1> QED  BY <1>2, <1>4, <1>5, <1>6, <1>7, <1>8, <1>9 DEF q

(* The last of these facts, by itself.                                     *)
LEMMA InsertAmong ==
  ASSUME NEW n \in Nat, NEW p \in [1..n -> Timers],
         NEW m \in 1..n + 1, NEW t \in Timers
  PROVE  Among(n + 1, Insert(n, p, m, t)) = Among(n, p) \cup {t}
BY InsertIs

(* The same of Cut.                                                        *)
LEMMA CutIs ==
  ASSUME NEW n \in Nat, NEW p \in [1..n -> Timers], NEW m \in 1..n,
         \A i, j \in 1..n : p[i] = p[j] => i = j
  PROVE  /\ n - 1 \in Nat
         /\ Cut(n, p, m) \in [1..n - 1 -> Timers]
         /\ \A i \in 1..n - 1 : i \in 1..n /\ i + 1 \in 1..n
         /\ \A i \in 1..n - 1 : i < m => Cut(n, p, m)[i] = p[i]
         /\ \A i \in 1..n - 1 : i >= m => Cut(n, p, m)[i] = p[i + 1]
         /\ Among(n - 1, Cut(n, p, m)) = Among(n, p) \ {p[m]}
<1> DEFINE q == Cut(n, p, m)
<1>0. n - 1 \in Nat /\ \A i \in 1..n - 1 : i \in 1..n /\ i + 1 \in 1..n
  OBVIOUS
<1>1. ASSUME NEW i \in 1..n - 1
      PROVE  q[i] = IF i < m THEN p[i] ELSE p[i + 1]
  BY DEF Cut
<1>2. q \in [1..n - 1 -> Timers]
  BY <1>0, <1>1 DEF Cut
<1> HIDE DEF q
<1>3. \A i \in 1..n - 1 : i < m => q[i] = p[i]
  BY <1>1
<1>4. \A i \in 1..n - 1 : i >= m => q[i] = p[i + 1]
  BY <1>1
<1>5. ASSUME NEW u \in Among(n, p) \ {p[m]} PROVE u \in Among(n - 1, q)
  <2>1. PICK i \in 1..n : u = p[i]
    BY DEF Among
  <2>2. CASE i < m
    <3>1. i \in 1..n - 1
      BY <2>2
    <3> QED  BY <1>3, <2>1, <2>2, <3>1 DEF Among
  <2>3. CASE i > m
    <3>1. i - 1 \in 1..n - 1 /\ i - 1 >= m /\ i - 1 + 1 = i
      BY <2>3
    <3>2. q[i - 1] = u
      BY <1>4, <2>1, <3>1
    <3> QED  BY <3>1, <3>2 DEF Among
  <2> QED  BY <2>1, <2>2, <2>3
<1>6. ASSUME NEW u \in Among(n - 1, q) PROVE u \in Among(n, p) \ {p[m]}
  <2>1. PICK i \in 1..n - 1 : u = q[i]
    BY DEF Among
  <2>2. CASE i < m
    BY <1>0, <1>3, <2>1, <2>2 DEF Among
  <2>3. CASE i >= m
    <3>1. u = p[i + 1] /\ i + 1 \in 1..n /\ i + 1 # m
      BY <1>0, <1>4, <2>1, <2>3
    <3> QED  BY <3>1 DEF Among
  <2> QED  BY <2>2, <2>3
<1> QED  BY <1>0, <1>2, <1>3, <1>4, <1>5, <1>6 DEF q

(* Pointers that differ from a list's where t goes in make the list with   *)
(* t in it.                                                                *)
LEMMA InsertLinks ==
  ASSUME NEW n, NEW p, NEW hd, NEW tl, NEW nx, NEW pv,
         Chain(n, p, hd, tl, nx, pv),
         NEW t \in Timers, t \notin Among(n, p), NEW m \in 1..n + 1,
         NEW ny, NEW py,
         ny[t] = IF m = n + 1 THEN NULL ELSE p[m],
         \A i \in 1..n : ny[p[i]] = IF i = m - 1 THEN t ELSE nx[p[i]],
         py[t] = IF m = 1 THEN NULL ELSE p[m - 1],
         \A i \in 1..n : py[p[i]] = IF i = m THEN t ELSE pv[p[i]],
         NEW hy, hy = IF m = 1 THEN t ELSE hd,
         NEW ty, ty = IF m = n + 1 THEN t ELSE tl
  PROVE  Chain(n + 1, Insert(n, p, m, t), hy, ty, ny, py)
<1> DEFINE q == Insert(n, p, m, t)
<1>0. /\ n \in Nat /\ p \in [1..n -> Timers] /\ n + 1 \in Nat
      /\ m \in Nat /\ m > 0 /\ m <= n + 1
  BY DEF Chain
<1>1. /\ q \in [1..n + 1 -> Timers] /\ q[m] = t
      /\ \A i \in 1..n : i < m => q[i] = p[i]
      /\ \A i \in 1..n + 1 : i > m => i - 1 \in 1..n /\ q[i] = p[i - 1]
  <2>1. q \in [1..n + 1 -> Timers] /\ q[m] = t
    BY <1>0, InsertIs
  <2>2. \A i \in 1..n + 1 :
          q[i] = IF i < m THEN p[i] ELSE IF i = m THEN t ELSE p[i - 1]
    BY DEF Insert
  <2> HIDE DEF q
  <2> QED  BY <1>0, <2>1, <2>2
<1> HIDE DEF q
<1>2. \A i \in 1..n + 1 : \/ i = m
                          \/ i < m /\ i \in 1..n /\ i # n + 1
                          \/ i > m /\ i # 1
  BY <1>0
<1>3. \A i \in 1..n : p[i] # t
  BY DEF Among
<1>4. \A i, j \in 1..n + 1 : q[i] = q[j] => i = j
  <2> SUFFICES ASSUME NEW i \in 1..n + 1, NEW j \in 1..n + 1, q[i] = q[j]
               PROVE  i = j
    OBVIOUS
  <2>1. \A k, l \in 1..n : p[k] = p[l] => k = l
    BY DEF Chain
  <2> QED  BY <1>0, <1>1, <1>2, <1>3, <2>1
<1>5. hy = IF n + 1 = 0 THEN NULL ELSE q[1]
  <2>1. hd = IF n = 0 THEN NULL ELSE p[1]
    BY DEF Chain
  <2> QED  BY <1>0, <1>1, <2>1
<1>6. n + 1 > 0 => ty = q[n + 1]
  <2>1. n > 0 => tl = p[n]
    BY DEF Chain
  <2> QED  BY <1>0, <1>1, <2>1
<1>7. ASSUME NEW i \in 1..n + 1
      PROVE  ny[q[i]] = IF i = n + 1 THEN NULL ELSE q[i + 1]
  <2>1. \A k \in 1..n : nx[p[k]] = IF k = n THEN NULL ELSE p[k + 1]
    BY DEF Chain
  <2>2. CASE i = m
    BY <1>0, <1>1, <2>2
  <2>3. CASE i < m
    <3>1. i \in 1..n /\ q[i] = p[i] /\ i # n + 1
      BY <1>0, <1>1, <2>3
    <3>2. CASE i = m - 1
      BY <1>0, <1>1, <3>1, <3>2
    <3>3. CASE i # m - 1
      <4>1. i + 1 < m /\ i + 1 \in 1..n /\ i # n
        BY <1>0, <2>3, <3>1, <3>3
      <4> QED  BY <1>1, <2>1, <3>1, <3>3, <4>1
    <3> QED  BY <3>2, <3>3
  <2>4. CASE i > m
    <3>1. i - 1 \in 1..n /\ q[i] = p[i - 1] /\ i - 1 # m - 1
      BY <1>0, <1>1, <2>4
    <3>2. ny[q[i]] = nx[p[i - 1]]
      BY <3>1
    <3>3. CASE i = n + 1
      BY <1>0, <2>1, <3>1, <3>2, <3>3
    <3>4. CASE i # n + 1
      <4>1. i + 1 \in 1..n + 1 /\ i + 1 > m /\ i + 1 - 1 = i
            /\ i - 1 # n /\ i - 1 + 1 = i
        BY <1>0, <2>4, <3>4
      <4>2. q[i + 1] = p[i]
        BY <1>1, <4>1
      <4> QED  BY <2>1, <3>1, <3>2, <3>4, <4>1, <4>2
    <3> QED  BY <3>3, <3>4
  <2> QED  BY <1>0, <2>2, <2>3, <2>4
<1>8. ASSUME NEW i \in 1..n + 1
      PROVE  py[q[i]] = IF i = 1 THEN NULL ELSE q[i - 1]
  <2>1. \A k \in 1..n : pv[p[k]] = IF k = 1 THEN NULL ELSE p[k - 1]
    BY DEF Chain
  <2>2. CASE i = m
    <3>1. CASE m = 1
      BY <1>1, <2>2, <3>1
    <3>2. CASE m # 1
      <4>1. m - 1 \in 1..n /\ m - 1 < m
        BY <1>0, <3>2
      <4> QED  BY <1>1, <2>2, <3>2, <4>1
    <3> QED  BY <3>1, <3>2
  <2>3. CASE i < m
    <3>1. i \in 1..n /\ q[i] = p[i] /\ i # m
      BY <1>0, <1>1, <2>3
    <3>2. py[q[i]] = pv[p[i]]
      BY <3>1
    <3>3. i # 1 => i - 1 \in 1..n /\ i - 1 < m
      BY <1>0, <2>3, <3>1
    <3> QED  BY <1>1, <2>1, <3>1, <3>2, <3>3
  <2>4. CASE i > m
    <3>1. i - 1 \in 1..n /\ q[i] = p[i - 1] /\ i # 1
      BY <1>0, <1>1, <2>4
    <3>2. CASE i - 1 = m
      BY <1>0, <1>1, <3>1, <3>2
    <3>3. CASE i - 1 # m
      <4>1. i - 1 > m /\ i - 1 \in 1..n + 1 /\ i - 1 # 1
        BY <1>0, <2>4, <3>1, <3>3
      <4>2. q[i - 1] = p[i - 1 - 1] /\ py[q[i]] = pv[p[i - 1]]
        BY <1>1, <3>1, <3>3, <4>1
      <4> QED  BY <2>1, <3>1, <4>1, <4>2
    <3> QED  BY <3>2, <3>3
  <2> QED  BY <1>0, <2>2, <2>3, <2>4
<1> QED  BY <1>0, <1>1, <1>4, <1>5, <1>6, <1>7, <1>8 DEF Chain, q

(* hy, ty, ny and py differ from a list's pointers around the timer in     *)
(* place m: they lead past it.                                             *)
LeadPast(n, p, m, hd, tl, nx, pv, hy, ty, ny, py) ==
  /\ hy = IF m > 1 THEN hd ELSE IF n = 1 THEN NULL ELSE p[2]
  /\ n > 1 => ty = IF m < n THEN tl ELSE p[n - 1]
  /\ \A i \in 1..n : i # m =>
       ny[p[i]] = IF i = m - 1 THEN IF m = n THEN NULL ELSE p[m + 1]
                  ELSE nx[p[i]]
  /\ \A i \in 1..n : i # m =>
       py[p[i]] = IF i = m + 1 THEN IF m = 1 THEN NULL ELSE p[m - 1]
                  ELSE pv[p[i]]

(* Then they make the list without it.                                     *)
LEMMA CutLinks ==
  ASSUME NEW n, NEW p, NEW hd, NEW tl, NEW nx, NEW pv,
         Chain(n, p, hd, tl, nx, pv), NEW m \in 1..n,
         NEW hy, NEW ty, NEW ny, NEW py,
         LeadPast(n, p, m, hd, tl, nx, pv, hy, ty, ny, py)
  PROVE  Chain(n - 1, Cut(n, p, m), hy, ty, ny, py)
<1> DEFINE q == Cut(n, p, m)
<1>a. /\ hy = IF m > 1 THEN hd ELSE IF n = 1 THEN NULL ELSE p[2]
      /\ n > 1 => ty = IF m < n THEN tl ELSE p[n - 1]
  BY DEF LeadPast
<1>b. \A i \in 1..n : i # m =>
        ny[p[i]] = IF i = m - 1 THEN IF m = n THEN NULL ELSE p[m + 1]
                   ELSE nx[p[i]]
  BY DEF LeadPast
<1>c. \A i \in 1..n : i # m =>
        py[p[i]] = IF i = m + 1 THEN IF m = 1 THEN NULL ELSE p[m - 1]
                   ELSE pv[p[i]]
  BY DEF LeadPast
<1>0. /\ n \in Nat /\ p \in [1..n -> Timers] /\ n - 1 \in Nat
      /\ m \in Nat /\ m > 0 /\ m <= n
      /\ \A i, j \in 1..n : p[i] = p[j] => i = j
  BY DEF Chain
<1>1. /\ q \in [1..n - 1 -> Timers]
      /\ \A i \in 1..n - 1 : i \in 1..n /\ i + 1 \in 1..n
      /\ \A i \in 1..n - 1 : i < m => q[i] = p[i]
      /\ \A i \in 1..n - 1 : i >= m => q[i] = p[i + 1]
  BY <1>0, CutIs
<1> HIDE DEF q
<1>2. \A i \in 1..n - 1 : i < m \/ i >= m
  BY <1>0
<1>3. \A i, j \in 1..n - 1 : q[i] = q[j] => i = j
  BY <1>0, <1>1, <1>2
<1>4. hy = IF n - 1 = 0 THEN NULL ELSE q[1]
  <2>1. hd = IF n = 0 THEN NULL ELSE p[1]
    BY DEF Chain
  <2> QED  BY <1>0, <1>1, <1>a, <2>1
<1>5. n - 1 > 0 => ty = q[n - 1]
  <2>1. n > 0 => tl = p[n]
    BY DEF Chain
  <2>2. n - 1 > 0 => n - 1 \in 1..n - 1 /\ n - 1 + 1 = n
    BY <1>0
  <2> QED  BY <1>0, <1>1, <1>a, <2>1, <2>2
<1>6. ASSUME NEW i \in 1..n - 1
      PROVE  ny[q[i]] = IF i = n - 1 THEN NULL ELSE q[i + 1]
  <2>1. \A k \in 1..n : nx[p[k]] = IF k = n THEN NULL ELSE p[k + 1]
    BY DEF Chain
  <2>2. CASE i < m
    <3>1. i \in 1..n /\ q[i] = p[i] /\ i # m /\ i # n
      BY <1>0, <1>1, <2>2
    <3>2. CASE i = m - 1
      <4>1. i # n - 1 => i + 1 \in 1..n - 1 /\ i + 1 >= m
                         /\ i + 1 + 1 = m + 1 /\ m # n
        BY <1>0, <3>2
      <4>2. i = n - 1 => m = n
        BY <1>0, <3>2
      <4> QED  BY <1>1, <1>b, <3>1, <3>2, <4>1, <4>2
    <3>3. CASE i # m - 1
      <4>1. i + 1 < m /\ i + 1 \in 1..n - 1 /\ i # n - 1
        BY <1>0, <2>2, <3>1, <3>3
      <4> QED  BY <1>1, <1>b, <2>1, <3>1, <3>3, <4>1
    <3> QED  BY <3>2, <3>3
  <2>3. CASE i >= m
    <3>1. i + 1 \in 1..n /\ q[i] = p[i + 1] /\ i + 1 # m /\ i + 1 # m - 1
      BY <1>0, <1>1, <2>3
    <3>2. ny[q[i]] = IF i + 1 = n THEN NULL ELSE p[i + 1 + 1]
      BY <1>b, <2>1, <3>1
    <3>3. i # n - 1 => i + 1 \in 1..n - 1 /\ i + 1 >= m /\ i + 1 # n
      BY <1>0, <2>3
    <3>4. i = n - 1 => i + 1 = n
      BY <1>0
    <3> QED  BY <1>1, <3>2, <3>3, <3>4
  <2> QED  BY <1>2, <2>2, <2>3
<1>7. ASSUME NEW i \in 1..n - 1
      PROVE  py[q[i]] = IF i = 1 THEN NULL ELSE q[i - 1]
  <2>1. \A k \in 1..n : pv[p[k]] = IF k = 1 THEN NULL ELSE p[k - 1]
    BY DEF Chain
  <2>2. CASE i < m
    <3>1. i \in 1..n /\ q[i] = p[i] /\ i # m /\ i # m + 1
      BY <1>0, <1>1, <2>2
    <3>2. i # 1 => i - 1 \in 1..n - 1 /\ i - 1 < m
      BY <1>0, <2>2
    <3> QED  BY <1>1, <1>c, <2>1, <3>1, <3>2
  <2>3. CASE i >= m
    <3>1. i + 1 \in 1..n /\ q[i] = p[i + 1] /\ i + 1 # m
      BY <1>0, <1>1, <2>3
    <3>2. CASE i = m
      <4>1. m # 1 => m - 1 \in 1..n - 1 /\ m - 1 < m
        BY <1>0, <3>2
      <4> QED  BY <1>1, <1>c, <3>1, <3>2, <4>1
    <3>3. CASE i # m
      <4>1. i - 1 \in 1..n - 1 /\ i - 1 >= m /\ i - 1 + 1 = i
            /\ i + 1 # m + 1 /\ i + 1 # 1 /\ i + 1 - 1 = i /\ i # 1
        BY <1>0, <2>3, <3>3
      <4>2. q[i - 1] = p[i] /\ py[q[i]] = pv[p[i + 1]]
        BY <1>1, <1>c, <3>1, <4>1
      <4> QED  BY <2>1, <3>1, <4>1, <4>2
    <3> QED  BY <3>2, <3>3
  <2> QED  BY <1>2, <2>2, <2>3
<1> QED  BY <1>0, <1>1, <1>3, <1>4, <1>5, <1>6, <1>7 DEF Chain, q

(* A timer that goes in where it is due keeps the order.                   *)
LEMMA InsertAscends ==
  ASSUME NEW n \in Nat, NEW p \in [1..n -> Timers], NEW e \in [Timers -> Int],
         Ascending(n, p, e), NEW t \in Timers, NEW m \in 1..n + 1,
         \A i \in 1..n : i < m => e[p[i]] <= e[t],
         m <= n => e[t] <= e[p[m]]
  PROVE  Ascending(n + 1, Insert(n, p, m, t), e)
<1> DEFINE q == Insert(n, p, m, t)
<1>1. \A i \in 1..n + 1 :
        q[i] = IF i < m THEN p[i] ELSE IF i = m THEN t ELSE p[i - 1]
  BY DEF Insert
<1> HIDE DEF q
<1>2. \A i \in 1..n : i >= m => e[t] <= e[p[i]]
  <2> SUFFICES ASSUME NEW i \in 1..n, i >= m PROVE e[t] <= e[p[i]]
    OBVIOUS
  <2>1. m \in 1..n /\ e[t] <= e[p[m]] /\ p[m] \in Timers /\ p[i] \in Timers
    OBVIOUS
  <2>2. m = i \/ e[p[m]] <= e[p[i]]
    BY <2>1 DEF Ascending
  <2>3. e[t] \in Int /\ e[p[m]] \in Int /\ e[p[i]] \in Int
    BY <2>1
  <2> QED  BY <2>1, <2>2, <2>3
<1> SUFFICES ASSUME NEW i \in 1..n + 1, NEW j \in 1..n + 1, i < j
             PROVE  e[q[i]] <= e[q[j]]
  BY DEF Ascending, q
<1>3. CASE j < m
  <2>1. i \in 1..n /\ j \in 1..n /\ q[i] = p[i] /\ q[j] = p[j]
    BY <1>1, <1>3
  <2> QED  BY <2>1 DEF Ascending
<1>4. CASE j = m
  <2>1. i \in 1..n /\ i < m /\ q[i] = p[i] /\ q[j] = t
    BY <1>1, <1>4
  <2> QED  BY <2>1
<1>5. CASE j > m
  <2>1. j - 1 \in 1..n /\ j - 1 >= m /\ q[j] = p[j - 1]
    BY <1>1, <1>5
  <2>2. CASE i < m
    <3>1. i \in 1..n /\ i < j - 1 /\ q[i] = p[i]
      BY <1>1, <1>5, <2>2
    <3> QED  BY <2>1, <3>1 DEF Ascending
  <2>3. CASE i = m
    BY <1>1, <1>2, <2>1, <2>3
  <2>4. CASE i > m
    <3>1. i - 1 \in 1..n /\ i - 1 < j - 1 /\ q[i] = p[i - 1]
      BY <1>1, <2>4
    <3> QED  BY <2>1, <3>1 DEF Ascending
  <2> QED  BY <2>2, <2>3, <2>4
<1> QED  BY <1>3, <1>4, <1>5

(* Without one of them the timers are still in order.                      *)
LEMMA CutAscends ==
  ASSUME NEW n \in Nat, NEW p, NEW e, Ascending(n, p, e), NEW m \in 1..n
  PROVE  Ascending(n - 1, Cut(n, p, m), e)
<1> DEFINE q == Cut(n, p, m)
<1>1. \A i \in 1..n - 1 : /\ q[i] = IF i < m THEN p[i] ELSE p[i + 1]
                          /\ i \in 1..n /\ i + 1 \in 1..n
  BY DEF Cut
<1> HIDE DEF q
<1> SUFFICES ASSUME NEW i \in 1..n - 1, NEW j \in 1..n - 1, i < j
             PROVE  e[q[i]] <= e[q[j]]
  BY DEF Ascending, q
<1>2. i < j + 1 /\ i + 1 < j + 1
  OBVIOUS
<1>3. ~(i >= m /\ j < m)
  OBVIOUS
<1> QED  BY <1>1, <1>2, <1>3 DEF Ascending
-----------------------------------------------------------------------------
(* The operations                                                          *)

(* The private add_timer puts t, which is not due before lst_head, where   *)
(* it is due.                                                              *)
LEMMA AddAfterInserts ==
  ASSUME NEW n, NEW p, NEW hd, NEW nx, NEW pv,
         Chain(n, p, hd, tail, nx, pv), tail \in Pointers,
         nx \in [Timers -> Pointers], pv \in [Timers -> Pointers],
         expire' \in [Timers -> Int], Ascending(n, p, expire'),
         NEW t \in Timers \ Among(n, p), NEW j \in 1..n,
         expire'[p[j]] <= expire'[t],
         AddAfter(t, p[j], nx, pv)
  PROVE  /\ next' \in [Timers -> Pointers] /\ prev' \in [Timers -> Pointers]
         /\ tail' \in Pointers
         /\ \E q : /\ Chain(n + 1, q, hd, tail', next', prev')
                   /\ Ascending(n + 1, q, expire')
                   /\ Among(n + 1, q) = Among(n, p) \cup {t}
<1> DEFINE C    == Cardinality(Timers)
           at   == Walk(nx, p[j])
           stop == {k \in DOMAIN at \ {0} : at[k] = NULL \/ Before(t, at[k])}
           k    == CHOOSE i \in stop : \A l \in stop : i <= l
           tmp  == at[k]
           m    == j + k
<1>0. /\ n \in Nat /\ p \in [1..n -> Timers] /\ NULL \notin Timers
      /\ \A i, l \in 1..n : p[i] = p[l] => i = l
      /\ \A i \in 1..n : p[i] \in Timers /\ p[i] # t /\ p[i] # NULL
  BY ListAssumption DEF Chain, Among
<1>1. n <= C /\ C \in Nat
  BY ChainIsShort
<1>2. /\ DOMAIN at = 0..C
      /\ \A i \in 0..C : at[i] = IF j + i <= n THEN p[j + i] ELSE NULL
  <2>1. j \in 1..n + 1 /\ p[j] = IF j <= n THEN p[j] ELSE NULL
    BY <1>0
  <2> QED  BY <2>1, WalkIs
<1> HIDE DEF at, C
<1>3. k \in stop /\ \A l \in stop : k <= l
  <2>1. n - j + 1 \in 0..C /\ n - j + 1 # 0 /\ ~(j + (n - j + 1) <= n)
    BY <1>0, <1>1
  <2>2. n - j + 1 \in stop
    BY <1>2, <2>1
  <2>3. stop \subseteq Nat
    BY <1>1, <1>2
  <2> HIDE DEF stop
  <2>4. \E i \in stop : \A l \in stop : i <= l
    BY <2>2, <2>3, LeastNumber
  <2> QED  BY <2>4
<1>4. k \in 1..C /\ (at[k] = NULL \/ Before(t, at[k]))
  BY <1>1, <1>2, <1>3
<1>5. \A l \in 1..C : l < k => ~(at[l] = NULL \/ Before(t, at[l]))
  <2> SUFFICES ASSUME NEW l \in 1..C, l < k,
                      at[l] = NULL \/ Before(t, at[l])
               PROVE  FALSE
    OBVIOUS
  <2>1. l \in stop
    BY <1>1, <1>2
  <2> HIDE DEF k, stop
  <2> QED  BY <1>1, <1>3, <1>4, <2>1
<1>6. /\ next' = [nx EXCEPT ![at[k - 1]] = t, ![t] = tmp]
      /\ prev' = [u \in Timers |-> IF u = t THEN at[k - 1]
                                   ELSE IF u = tmp THEN t ELSE pv[u]]
      /\ tail' = NewTail(t, tmp)
  BY DEF AddAfter, at
<1> HIDE DEF k, stop
<1>7. \A l \in 1..C : l < k =>
        j + l \in 1..n /\ expire'[p[j + l]] <= expire'[t]
  <2> SUFFICES ASSUME NEW l \in 1..C, l < k
               PROVE  j + l \in 1..n /\ expire'[p[j + l]] <= expire'[t]
    OBVIOUS
  <2>1. at[l] # NULL /\ ~Before(t, at[l]) /\ l \in 0..C
    BY <1>1, <1>5
  <2>2. j + l \in 1..n /\ at[l] = p[j + l]
    BY <1>1, <1>2, <2>1
  <2>3. ~(expire'[t] < expire'[p[j + l]])
    BY <2>1, <2>2 DEF Before
  <2>4. expire'[t] \in Int /\ expire'[p[j + l]] \in Int
    BY <1>0, <2>2
  <2> QED  BY <2>2, <2>3, <2>4
<1>8. m \in 2..n + 1 /\ m - 1 \in 1..n /\ at[k - 1] = p[m - 1]
  <2>1. CASE k = 1
    <3>1. k - 1 \in 0..C /\ j + (k - 1) = j /\ j <= n
      BY <1>1, <2>1
    <3> QED  BY <1>0, <1>2, <2>1, <3>1
  <2>2. CASE k # 1
    <3>1. k - 1 \in 1..C /\ k - 1 \in 0..C /\ k - 1 < k
      BY <1>1, <1>4, <2>2
    <3>2. j + (k - 1) \in 1..n
      BY <1>7, <3>1
    <3>3. j + (k - 1) = m - 1
      BY <1>1, <1>4
    <3> QED  BY <1>0, <1>1, <1>2, <1>4, <3>1, <3>2, <3>3
  <2> QED  BY <2>1, <2>2
<1>9. tmp = IF m = n + 1 THEN NULL ELSE p[m]
  <2>1. k \in 0..C
    BY <1>1, <1>4
  <2> QED  BY <1>0, <1>2, <1>8, <2>1
<1>10. m <= n => expire'[t] <= expire'[p[m]]
  <2> SUFFICES ASSUME m <= n PROVE expire'[t] <= expire'[p[m]]
    OBVIOUS
  <2>1. tmp = p[m] /\ p[m] \in Timers /\ tmp # NULL
    BY <1>0, <1>8, <1>9
  <2>2. expire'[t] < expire'[p[m]]
    BY <1>4, <2>1 DEF Before
  <2> QED  BY <2>1, <2>2
<1>11. \A i \in 1..n : i < m => expire'[p[i]] <= expire'[t]
  <2> SUFFICES ASSUME NEW i \in 1..n, i < m
               PROVE  expire'[p[i]] <= expire'[t]
    OBVIOUS
  <2>1. CASE i <= j
    <3>1. i = j \/ expire'[p[i]] <= expire'[p[j]]
      BY <2>1 DEF Ascending
    <3>2. /\ expire'[p[i]] \in Int /\ expire'[p[j]] \in Int
          /\ expire'[t] \in Int
      BY <1>0
    <3> QED  BY <3>1, <3>2
  <2>2. CASE i > j
    <3>1. i - j \in 1..C /\ i - j < k /\ j + (i - j) = i
      BY <1>0, <1>1, <1>4, <2>2
    <3> QED  BY <1>7, <3>1
  <2> QED  BY <2>1, <2>2
<1> HIDE DEF m, tmp
<1> DEFINE q == Insert(n, p, m, t)
<1>12. tmp \in Pointers /\ at[k - 1] \in Timers /\ at[k - 1] # t /\ t # NULL
  BY <1>0, <1>8, <1>9 DEF Pointers
<1>13. /\ next' \in [Timers -> Pointers] /\ prev' \in [Timers -> Pointers]
       /\ tail' \in Pointers
  BY <1>6, <1>12 DEF NewTail, Pointers
<1>14. Ascending(n + 1, q, expire')
  <2>1. m \in 1..n + 1
    BY <1>8
  <2> QED  BY <1>0, <1>10, <1>11, <2>1, InsertAscends
<1>15. Chain(n + 1, q, hd, tail', next', prev')
  <2>1. m \in 1..n + 1 /\ m # 1 /\ m \in Nat
    BY <1>0, <1>8
  <2>2. next'[t] = IF m = n + 1 THEN NULL ELSE p[m]
    BY <1>6, <1>9, <1>12
  <2>3. \A i \in 1..n : next'[p[i]] = IF i = m - 1 THEN t ELSE nx[p[i]]
    BY <1>0, <1>6, <1>8, <1>12
  <2>4. prev'[t] = IF m = 1 THEN NULL ELSE p[m - 1]
    BY <1>6, <1>8, <2>1
  <2>5. \A i \in 1..n : prev'[p[i]] = IF i = m THEN t ELSE pv[p[i]]
    <3> SUFFICES ASSUME NEW i \in 1..n
                 PROVE  prev'[p[i]] = IF i = m THEN t ELSE pv[p[i]]
      OBVIOUS
    <3>1. p[i] = tmp <=> i = m
      <4>1. CASE m = n + 1
        BY <1>0, <1>9, <4>1
      <4>2. CASE m # n + 1
        <5>1. m \in 1..n /\ tmp = p[m]
          BY <1>0, <1>8, <1>9, <4>2
        <5> QED  BY <1>0, <5>1
      <4> QED  BY <4>1, <4>2
    <3>2. prev'[p[i]] = IF p[i] = tmp THEN t ELSE pv[p[i]]
      BY <1>0, <1>6
    <3> QED  BY <3>1, <3>2
  <2>6. hd = IF m = 1 THEN t ELSE hd
    BY <2>1
  <2>7. tail' = IF m = n + 1 THEN t ELSE tail
    <3>1. tmp = NULL <=> m = n + 1
      BY <1>0, <1>8, <1>9
    <3> QED  BY <1>6, <3>1 DEF NewTail
  <2>8. t \in Timers /\ t \notin Among(n, p)
    OBVIOUS
  <2> HIDE DEF q
  <2> QED  BY <2>1, <2>2, <2>3, <2>4, <2>5, <2>6, <2>7, <2>8, InsertLinks
           DEF q
<1>16. Among(n + 1, q) = Among(n, p) \cup {t}
  <2>1. /\ m \in 1..n + 1 /\ t \in Timers
        /\ n \in Nat /\ p \in [1..n -> Timers]
    BY <1>0, <1>8
  <2> QED  BY <2>1, InsertAmong
<1> HIDE DEF q
<1> QED  BY <1>13, <1>14, <1>15, <1>16

(* What a list says of its timers.                                         *)
LEMMA ListFacts ==
  ASSUME TypeOK, NEW n, NEW p, IsList(n, p)
  PROVE  /\ n \in Nat /\ p \in [1..n -> Timers] /\ NULL \notin Timers
         /\ \A i \in 1..n : p[i] \in Timers /\ p[i] # NULL
         /\ \A i, j \in 1..n : p[i] = p[j] => i = j
         /\ head = NULL <=> n = 0
         /\ n > 0 => head = p[1] /\ tail = p[n] /\ 1 \in 1..n /\ n \in 1..n
         /\ \A i \in 1..n : next[p[i]] = IF i = n THEN NULL ELSE p[i + 1]
         /\ \A i \in 1..n : prev[p[i]] = IF i = 1 THEN NULL ELSE p[i - 1]
         /\ Ascending(n, p, expire) /\ expire \in [Timers -> Int]
         /\ InList = Among(n, p)
<1>1. InList = Among(n, p)
  BY ReachedIs DEF IsList, InList
<1>2. /\ n \in Nat /\ p \in [1..n -> Timers] /\ NULL \notin Timers
      /\ \A i \in 1..n : p[i] \in Timers /\ p[i] # NULL
  BY ListAssumption DEF IsList, Chain
<1>3. n > 0 => 1 \in 1..n /\ n \in 1..n
  BY <1>2
<1>4. expire \in [Timers -> Int]
  <2>1. expire \in [Timers -> Times] /\ Times \subseteq Int
    BY ListAssumption DEF TypeOK
  <2> QED  BY <2>1
<1> QED  BY <1>1, <1>2, <1>3, <1>4 DEF IsList, Chain

(* add_timer puts a new timer into the list.                               *)
LEMMA AddKeeps ==
  ASSUME TypeOK, NEW n, NEW p, IsList(n, p),
         NEW t \in Timers \ Among(n, p), NEW e \in Times, AddTimer(t, e)
  PROVE  /\ TypeOK'
         /\ \E q : IsList(n + 1, q)' /\ Among(n + 1, q) = Among(n, p) \cup {t}
<1> DEFINE nx == [next EXCEPT ![t] = NULL]
           pv == [prev EXCEPT ![t] = NULL]
<1>0. /\ n \in Nat /\ p \in [1..n -> Timers] /\ NULL \notin Timers
      /\ \A i \in 1..n : p[i] \in Timers /\ p[i] # NULL /\ p[i] # t
      /\ head = NULL <=> n = 0
      /\ n > 0 => head = p[1] /\ tail = p[n] /\ 1 \in 1..n /\ n \in 1..n
      /\ 1 \in 1..n + 1
  BY ListFacts DEF Among
<1>1. /\ expire' = [expire EXCEPT ![t] = e] /\ e \in Int
      /\ expire \in [Timers -> Int] /\ expire' \in [Timers -> Times]
      /\ expire' \in [Timers -> Int] /\ expire'[t] = e
  <2>1. expire' = [expire EXCEPT ![t] = e] /\ expire \in [Timers -> Times]
    BY DEF AddTimer, TypeOK
  <2>2. Times \subseteq Int
    BY ListAssumption
  <2>3. expire' \in [Timers -> Times] /\ expire'[t] = e
    BY <2>1
  <2> QED  BY <2>1, <2>2, <2>3
<1>2. Ascending(n, p, expire')
  <2>1. \A i \in 1..n : expire'[p[i]] = expire[p[i]]
    BY <1>0, <1>1
  <2> QED  BY <2>1 DEF IsList, Ascending
<1>3. nx \in [Timers -> Pointers] /\ pv \in [Timers -> Pointers]
  BY DEF TypeOK, Pointers
<1>4. \A i \in 1..n : nx[p[i]] = next[p[i]] /\ pv[p[i]] = prev[p[i]]
  BY <1>0 DEF TypeOK
<1>a. nx[t] = NULL /\ pv[t] = NULL
  BY DEF TypeOK
<1>5. CASE head = NULL \/ (head # NULL /\ e < expire[head])
  <2> DEFINE q == Insert(n, p, 1, t)
  <2>1. /\ head' = t /\ tail' = IF 1 = n + 1 THEN t ELSE tail
        /\ next' = [nx EXCEPT ![t] = head]
        /\ prev' = [u \in Timers |-> IF u = head THEN t ELSE pv[u]]
    <3>1. CASE head = NULL
      <4>1. next' = nx /\ prev' = pv /\ head' = t /\ tail' = t /\ n = 0
        BY <1>0, <3>1 DEF AddTimer
      <4>2. nx = [nx EXCEPT ![t] = head]
        BY <1>a, <3>1
      <4>3. pv = [u \in Timers |-> IF u = head THEN t ELSE pv[u]]
        BY <1>0, <1>3, <3>1
      <4> HIDE DEF nx, pv
      <4> QED  BY <4>1, <4>2, <4>3
    <3>2. CASE head # NULL /\ e < expire[head]
      <4>1. /\ next' = [nx EXCEPT ![t] = head]
            /\ prev' = [pv EXCEPT ![head] = t]
            /\ head' = t /\ tail' = tail /\ n # 0 /\ head \in Timers
        BY <1>0, <1>1, <3>2 DEF AddTimer
      <4>2. [pv EXCEPT ![head] = t]
              = [u \in Timers |-> IF u = head THEN t ELSE pv[u]]
        BY <1>3, <4>1
      <4> HIDE DEF nx, pv
      <4> QED  BY <1>0, <4>1, <4>2
    <3> QED  BY <1>5, <3>1, <3>2
  <2> HIDE DEF nx, pv
  <2>2. head = IF 1 = n + 1 THEN NULL ELSE p[1]
    BY <1>0
  <2>3. Chain(n + 1, q, head', tail', next', prev')
    <3>1. next'[t] = IF 1 = n + 1 THEN NULL ELSE p[1]
      BY <1>3, <2>1, <2>2
    <3>2. \A i \in 1..n : next'[p[i]] = IF i = 1 - 1 THEN t ELSE next[p[i]]
      BY <1>0, <1>3, <1>4, <2>1
    <3>3. prev'[t] = IF 1 = 1 THEN NULL ELSE p[1 - 1]
      <4>1. t # head
        BY <1>0
      <4> QED  BY <1>a, <2>1, <4>1
    <3>4. \A i \in 1..n : prev'[p[i]] = IF i = 1 THEN t ELSE prev[p[i]]
      <4>1. \A i \in 1..n : p[i] = head <=> i = 1
        <5>1. \A i, j \in 1..n : p[i] = p[j] => i = j
          BY ListFacts
        <5> QED  BY <1>0, <5>1
      <4> QED  BY <1>0, <1>4, <2>1, <4>1
    <3>5. head' = IF 1 = 1 THEN t ELSE head
      BY <2>1
    <3>6. t \in Timers /\ t \notin Among(n, p)
          /\ Chain(n, p, head, tail, next, prev)
      BY DEF IsList
    <3>7. tail' = IF 1 = n + 1 THEN t ELSE tail
      BY <2>1
    <3> HIDE DEF q
    <3> QED  BY <1>0, <3>1, <3>2, <3>3, <3>4, <3>5, <3>6, <3>7, InsertLinks
             DEF q
  <2>4. Ascending(n + 1, q, expire')
    <3>1. 1 <= n => expire'[t] <= expire'[p[1]]
      <4>1. n # 0 => e < expire[p[1]] /\ p[1] \in Timers /\ p[1] # t
        BY <1>0, <1>5
      <4> QED  BY <1>0, <1>1, <4>1
    <3>2. \A i \in 1..n : i < 1 => expire'[p[i]] <= expire'[t]
      BY <1>0
    <3> QED  BY <1>0, <1>1, <1>2, <3>1, <3>2, InsertAscends
  <2>5. Among(n + 1, q) = Among(n, p) \cup {t}
    <3>1. t \in Timers
      OBVIOUS
    <3> QED  BY <1>0, <3>1, InsertIs
  <2>6. TypeOK'
    <3>1. head' \in Pointers /\ tail' \in Pointers
      BY <2>1 DEF TypeOK, Pointers
    <3>2. next' \in [Timers -> Pointers] /\ prev' \in [Timers -> Pointers]
      BY <1>3, <2>1 DEF TypeOK, Pointers
    <3>3. cur' \in Times \cup {Never}
      BY DEF TypeOK, AddTimer
    <3> QED  BY <1>1, <3>1, <3>2, <3>3 DEF TypeOK, Pointers
  <2> HIDE DEF q
  <2> QED  BY <2>3, <2>4, <2>5, <2>6 DEF IsList
<1>6. CASE head # NULL /\ ~(e < expire[head])
  <2>1. /\ AddAfter(t, p[1], nx, pv) /\ head' = head /\ n > 0 /\ 1 \in 1..n
        /\ head = p[1]
    BY <1>0, <1>6 DEF AddTimer
  <2> HIDE DEF nx, pv
  <2>2. Chain(n, p, head, tail, nx, pv)
    BY <1>4 DEF IsList, Chain
  <2>3. expire'[p[1]] <= expire'[t]
    <3>1. p[1] \in Timers /\ p[1] # t /\ ~(e < expire[p[1]])
      BY <1>0, <1>6, <2>1
    <3> QED  BY <1>1, <3>1
  <2>4. tail \in Pointers /\ expire' \in [Timers -> Int] /\ 1 \in 1..n
        /\ AddAfter(t, p[1], nx, pv)
    BY <1>1, <2>1 DEF TypeOK
  <2>5. /\ next' \in [Timers -> Pointers] /\ prev' \in [Timers -> Pointers]
        /\ tail' \in Pointers
        /\ \E q : /\ Chain(n + 1, q, head, tail', next', prev')
                  /\ Ascending(n + 1, q, expire')
                  /\ Among(n + 1, q) = Among(n, p) \cup {t}
    BY <1>2, <1>3, <2>2, <2>3, <2>4, AddAfterInserts
  <2>6. TypeOK'
    <3>1. cur' \in Times \cup {Never} /\ head' \in Pointers
      BY <2>1 DEF TypeOK, AddTimer
    <3> QED  BY <1>1, <2>5, <3>1 DEF TypeOK, Pointers
  <2> QED  BY <2>1, <2>5, <2>6 DEF IsList
<1> QED  BY <1>5, <1>6

(* del_timer takes the timer out of the list.                              *)
LEMMA DelKeeps ==
  ASSUME TypeOK, NEW n, NEW p, IsList(n, p),
         NEW t \in Among(n, p), DelTimer(t)
  PROVE  /\ TypeOK'
         /\ \E q : IsList(n - 1, q)' /\ Among(n - 1, q) = Among(n, p) \ {t}
<1>0. /\ n \in Nat /\ p \in [1..n -> Timers] /\ NULL \notin Timers
      /\ \A i \in 1..n : p[i] \in Timers /\ p[i] # NULL
      /\ \A i, j \in 1..n : p[i] = p[j] => i = j
  BY ListFacts
<1>1. PICK m \in 1..n : t = p[m]
  BY DEF Among
<1>a. n > 0 /\ head = p[1] /\ tail = p[n] /\ 1 \in 1..n /\ n \in 1..n
  BY <1>0, ListFacts
<1>2. /\ t = head <=> m = 1
      /\ t = tail <=> m = n
  BY <1>0, <1>1, <1>a
<1>3. /\ next[t] = IF m = n THEN NULL ELSE p[m + 1]
      /\ prev[t] = IF m = 1 THEN NULL ELSE p[m - 1]
  BY <1>1, ListFacts
<1>4. /\ m # n => m + 1 \in 1..n
      /\ m # 1 => m - 1 \in 1..n
  BY <1>0
<1>5. /\ UNCHANGED <<expire, cur>>
      /\ head' = IF m > 1 THEN head ELSE IF n = 1 THEN NULL ELSE p[2]
      /\ n > 1 => tail' = IF m < n THEN tail ELSE p[n - 1]
      /\ tail' \in Pointers
      /\ next' = [u \in Timers |->
                    IF m > 1 /\ u = p[m - 1] THEN next[t] ELSE next[u]]
      /\ prev' = [u \in Timers |->
                    IF m < n /\ u = p[m + 1] THEN prev[t] ELSE prev[u]]
  <2>0. /\ m \in Nat /\ m > 0 /\ m <= n
        /\ next = [u \in Timers |-> next[u]]
        /\ prev = [u \in Timers |-> prev[u]]
        /\ tail \in Pointers /\ \A i \in 1..n : p[i] \in Pointers
        /\ NULL \in Pointers
    BY <1>0 DEF TypeOK, Pointers
  <2>1. CASE m = 1 /\ m = n
    <3>1. /\ head' = NULL /\ tail' = NULL
          /\ UNCHANGED <<next, prev, expire, cur>>
      BY <1>2, <2>1 DEF DelTimer
    <3> QED  BY <2>0, <2>1, <3>1
  <2>2. CASE m = 1 /\ m # n
    <3>1. /\ head' = next[t] /\ prev' = [prev EXCEPT ![next[t]] = NULL]
          /\ UNCHANGED <<tail, next, expire, cur>>
      BY <1>2, <2>2 DEF DelTimer
    <3>2. next[t] = p[2] /\ n > 1 /\ prev[t] = NULL /\ m < n /\ ~(m > 1)
      BY <1>0, <1>3, <2>0, <2>2
    <3>3. prev' = [u \in Timers |-> IF u = p[2] THEN NULL ELSE prev[u]]
      BY <2>0, <3>1, <3>2
    <3>4. n # 1 /\ m + 1 = 2 /\ n > 1 /\ m < n /\ ~(m > 1)
      BY <2>2, <3>2
    <3>5. /\ head' = p[2] /\ tail' = tail /\ UNCHANGED <<expire, cur>>
          /\ next' = [u \in Timers |-> next[u]]
      BY <2>0, <3>1, <3>2
    <3>6. prev' = [u \in Timers |-> IF u = p[m + 1] THEN prev[t]
                                   ELSE prev[u]]
      BY <3>2, <3>3, <3>4
    <3>7. prev' = [u \in Timers |-> IF m < n /\ u = p[m + 1] THEN prev[t]
                                   ELSE prev[u]]
      BY <3>4, <3>6
    <3>8. next' = [u \in Timers |-> IF m > 1 /\ u = p[m - 1] THEN next[t]
                                   ELSE next[u]]
      BY <3>4, <3>5
    <3> QED  BY <2>0, <3>4, <3>5, <3>7, <3>8
  <2>3. CASE m # 1 /\ m = n
    <3>1. /\ tail' = prev[t] /\ next' = [next EXCEPT ![prev[t]] = NULL]
          /\ UNCHANGED <<head, prev, expire, cur>>
      BY <1>2, <2>3 DEF DelTimer
    <3>2. next[t] = NULL /\ prev[t] = p[m - 1] /\ m > 1 /\ ~(m < n)
      BY <1>3, <2>0, <2>3
    <3>3. next' = [u \in Timers |->
                     IF u = p[m - 1] THEN NULL ELSE next[u]]
      BY <2>0, <3>1, <3>2
    <3> QED  BY <1>4, <2>0, <2>3, <3>1, <3>2, <3>3
  <2>4. CASE m # 1 /\ m # n
    <3>1. /\ next' = [next EXCEPT ![prev[t]] = next[t]]
          /\ prev' = [prev EXCEPT ![next[t]] = prev[t]]
          /\ UNCHANGED <<head, tail, expire, cur>>
      BY <1>2, <2>4 DEF DelTimer
    <3>2. next[t] = p[m + 1] /\ prev[t] = p[m - 1] /\ m > 1 /\ m < n
      BY <1>0, <1>3, <2>0, <2>4
    <3>3. /\ next' = [u \in Timers |->
                        IF u = p[m - 1] THEN next[t] ELSE next[u]]
          /\ prev' = [u \in Timers |->
                        IF u = p[m + 1] THEN prev[t] ELSE prev[u]]
      BY <2>0, <3>1, <3>2
    <3> QED  BY <2>0, <2>4, <3>1, <3>2, <3>3
  <2> QED  BY <2>1, <2>2, <2>3, <2>4
<1> DEFINE q == Cut(n, p, m)
<1>6. Chain(n - 1, q, head', tail', next', prev')
  <2>1. \A i \in 1..n : i # m =>
          next'[p[i]] = IF i = m - 1 THEN IF m = n THEN NULL ELSE p[m + 1]
                        ELSE next[p[i]]
    BY <1>0, <1>3, <1>4, <1>5
  <2>2. \A i \in 1..n : i # m =>
          prev'[p[i]] = IF i = m + 1 THEN IF m = 1 THEN NULL ELSE p[m - 1]
                        ELSE prev[p[i]]
    BY <1>0, <1>3, <1>4, <1>5
  <2>3. Chain(n, p, head, tail, next, prev)
    BY DEF IsList
  <2>4. /\ head' = IF m > 1 THEN head ELSE IF n = 1 THEN NULL ELSE p[2]
        /\ n > 1 => tail' = IF m < n THEN tail ELSE p[n - 1]
    BY <1>5
  <2>5. LeadPast(n, p, m, head, tail, next, prev, head', tail', next', prev')
    BY <2>1, <2>2, <2>4 DEF LeadPast
  <2> QED  BY <2>3, <2>5, CutLinks
<1>7. Ascending(n - 1, q, expire')
  <2>1. Ascending(n, p, expire')
    BY <1>5 DEF IsList
  <2> QED  BY <1>0, <2>1, CutAscends
<1>8. Among(n - 1, q) = Among(n, p) \ {t}
  BY <1>0, <1>1, CutIs
<1>9. TypeOK'
  <2>1. next[t] \in Pointers /\ prev[t] \in Pointers
    BY <1>0, <1>1 DEF TypeOK
  <2>2. /\ next' \in [Timers -> Pointers] /\ prev' \in [Timers -> Pointers]
    BY <1>5, <2>1 DEF TypeOK
  <2>3. head' \in Pointers
    <3>1. 2 \in 1..n \/ n = 1
      BY <1>0, <1>a
    <3> QED  BY <1>0, <1>5, <3>1 DEF TypeOK, Pointers
  <2> QED  BY <1>5, <2>2, <2>3 DEF TypeOK, Pointers
<1> HIDE DEF q
<1> QED  BY <1>6, <1>7, <1>8, <1>9 DEF IsList

(* One turn of tick's loop takes the first timer out of the list.          *)
LEMMA PopKeeps ==
  ASSUME TypeOK, NEW n, NEW p, IsList(n, p), TickPop
  PROVE  /\ TypeOK' /\ head \in Among(n, p)
         /\ \E q : /\ IsList(n - 1, q)'
                   /\ Among(n - 1, q) = Among(n, p) \ {head}
<1>0. /\ n \in Nat /\ p \in [1..n -> Timers] /\ NULL \notin Timers
      /\ \A i \in 1..n : p[i] \in Timers /\ p[i] # NULL
      /\ \A i, j \in 1..n : p[i] = p[j] => i = j
  BY ListFacts
<1>1. n > 0 /\ head = p[1] /\ tail = p[n] /\ 1 \in 1..n
  BY <1>0, ListFacts DEF TickPop, Due
<1>2. next[head] = IF n = 1 THEN NULL ELSE p[2]
  <2>1. \A i \in 1..n : next[p[i]] = IF i = n THEN NULL ELSE p[i + 1]
    BY ListFacts
  <2> QED  BY <1>1, <2>1
<1>3. /\ head' = next[head] /\ UNCHANGED <<tail, next, expire, cur>>
      /\ prev' = [u \in Timers |-> IF u = next[head] THEN NULL ELSE prev[u]]
  BY DEF TickPop
<1> DEFINE q == Cut(n, p, 1)
<1>4. Chain(n - 1, q, head', tail', next', prev')
  <2>1. \A i \in 1..n : i # 1 =>
          next'[p[i]] = IF i = 1 - 1 THEN IF 1 = n THEN NULL ELSE p[1 + 1]
                        ELSE next[p[i]]
    BY <1>3
  <2>2. \A i \in 1..n : i # 1 =>
          prev'[p[i]] = IF i = 1 + 1 THEN IF 1 = 1 THEN NULL ELSE p[1 - 1]
                        ELSE prev[p[i]]
    <3> SUFFICES ASSUME NEW i \in 1..n, i # 1
                 PROVE  prev'[p[i]] = IF i = 2 THEN NULL ELSE prev[p[i]]
      OBVIOUS
    <3>1. 2 \in 1..n /\ n # 1
      BY <1>0
    <3>2. p[i] = next[head] <=> i = 2
      BY <1>0, <1>2, <3>1
    <3> QED  BY <1>0, <1>3, <3>2
  <2>3. Chain(n, p, head, tail, next, prev)
    BY DEF IsList
  <2>4. /\ head' = IF 1 > 1 THEN head ELSE IF n = 1 THEN NULL ELSE p[2]
        /\ n > 1 => tail' = IF 1 < n THEN tail ELSE p[n - 1]
    BY <1>2, <1>3
  <2>5. LeadPast(n, p, 1, head, tail, next, prev, head', tail', next', prev')
    BY <2>1, <2>2, <2>4 DEF LeadPast
  <2> QED  BY <1>1, <2>3, <2>5, CutLinks
<1>5. Ascending(n - 1, q, expire')
  <2>1. Ascending(n, p, expire')
    BY <1>3 DEF IsList
  <2> QED  BY <1>0, <1>1, <2>1, CutAscends
<1>6. Among(n - 1, q) = Among(n, p) \ {head}
  BY <1>0, <1>1, CutIs
<1>7. TypeOK'
  <2>1. next[head] \in Pointers
    BY <1>0, <1>1 DEF TypeOK
  <2> QED  BY <1>3, <2>1 DEF TypeOK, Pointers
<1>8. head \in Among(n, p)
  BY <1>1 DEF Among
<1> HIDE DEF q
<1> QED  BY <1>4, <1>5, <1>6, <1>7, <1>8 DEF IsList

(* adjust_timer leaves the timer in the list, where it is due now.         *)
LEMMA AdjustKeeps ==
  ASSUME TypeOK, NEW n, NEW p, IsList(n, p),
         NEW t \in Among(n, p), NEW e \in Times, e >= expire[t],
         AdjustTimer(t, e)
  PROVE  TypeOK' /\ \E q : IsList(n, q)' /\ Among(n, q) = Among(n, p)
<1>0. /\ n \in Nat /\ p \in [1..n -> Timers] /\ NULL \notin Timers
      /\ \A i \in 1..n : p[i] \in Timers /\ p[i] # NULL
      /\ \A i, j \in 1..n : p[i] = p[j] => i = j
  BY ListFacts
<1>1. PICK m \in 1..n : t = p[m]
  BY DEF Among
<1>2. n > 0 /\ head = p[1] /\ tail = p[n] /\ 1 \in 1..n /\ n \in 1..n
  BY <1>0, ListFacts
<1>3. /\ next[t] = IF m = n THEN NULL ELSE p[m + 1]
      /\ prev[t] = IF m = 1 THEN NULL ELSE p[m - 1]
  BY <1>1, ListFacts
<1>4. /\ m # n => m + 1 \in 1..n /\ m < n
      /\ m # 1 => m - 1 \in 1..n /\ m > 1
      /\ t \in Timers
  BY <1>0, <1>1
<1>5. /\ expire' = [expire EXCEPT ![t] = e] /\ e \in Int
      /\ expire \in [Timers -> Int] /\ expire' \in [Timers -> Times]
      /\ expire' \in [Timers -> Int] /\ expire'[t] = e
  <2>1. expire' = [expire EXCEPT ![t] = e] /\ expire \in [Timers -> Times]
    BY DEF AdjustTimer, TypeOK
  <2>2. Times \subseteq Int
    BY ListAssumption
  <2>3. expire' \in [Timers -> Times] /\ expire'[t] = e
    BY <1>4, <2>1
  <2> QED  BY <2>1, <2>2, <2>3
<1>6. \A i \in 1..n : i # m => expire'[p[i]] = expire[p[i]]
  BY <1>0, <1>1, <1>5
<1>7. CASE StaysPut(t, e)
  <2>1. UNCHANGED links /\ UNCHANGED cur
    BY <1>7 DEF AdjustTimer
  <2>2. Ascending(n, p, expire')
    <3> SUFFICES ASSUME NEW i \in 1..n, NEW j \in 1..n, i < j
                 PROVE  expire'[p[i]] <= expire'[p[j]]
      BY DEF Ascending
    <3>1. /\ \A k \in 1..n : expire[p[k]] \in Int
          /\ \A k, l \in 1..n : k < l => expire[p[k]] <= expire[p[l]]
      BY <1>0, <1>5, ListFacts DEF Ascending
    <3>2. CASE i # m /\ j # m
      BY <1>6, <3>1, <3>2
    <3>3. CASE j = m
      <4>1. i # m /\ expire'[p[j]] = e /\ expire[p[i]] <= expire[p[j]]
        BY <1>1, <1>5, <3>1, <3>3
      <4> QED  BY <1>1, <1>5, <1>6, <3>1, <3>3, <4>1
    <3>4. CASE i = m
      <4>1. j # m /\ m # n /\ expire'[p[i]] = e
        BY <1>1, <1>5, <3>4
      <4>2. next[t] = p[m + 1] /\ m + 1 \in 1..n
        BY <1>3, <1>4, <4>1
      <4>3. e < expire[p[m + 1]]
        BY <1>0, <1>7, <4>2 DEF StaysPut
      <4>4. m + 1 = j \/ expire[p[m + 1]] <= expire[p[j]]
        BY <3>1, <3>4, <4>2
      <4> QED  BY <1>5, <1>6, <3>1, <4>1, <4>2, <4>3, <4>4
    <3> QED  BY <3>2, <3>3, <3>4
  <2>3. TypeOK'
    BY <1>5, <2>1 DEF TypeOK, Pointers, links
  <2> QED  BY <2>1, <2>2, <2>3 DEF IsList, links
<1>8. CASE ~StaysPut(t, e)
  <2> DEFINE q  == Cut(n, p, m)
             nx == IF m = 1 THEN [next EXCEPT ![t] = NULL]
                            ELSE [next EXCEPT ![prev[t]] = next[t]]
             pv == IF m = 1 THEN [prev EXCEPT ![next[t]] = NULL]
                            ELSE [prev EXCEPT ![next[t]] = prev[t]]
  <2>1. m < n /\ next[t] = p[m + 1] /\ m + 1 \in 1..n
        /\ ~(e < expire[p[m + 1]])
    BY <1>3, <1>4, <1>8 DEF StaysPut
  <2>2. t = head <=> m = 1
    BY <1>0, <1>1, <1>2
  <2>3. /\ AddAfter(t, p[m + 1], nx, pv) /\ UNCHANGED cur
        /\ head' = IF m > 1 THEN head ELSE p[2]
    <3>1. CASE m = 1
      BY <1>8, <2>1, <2>2, <3>1 DEF AdjustTimer
    <3>2. CASE m # 1
      BY <1>4, <1>8, <2>1, <2>2, <3>2 DEF AdjustTimer
    <3> QED  BY <3>1, <3>2
  <2>4. nx \in [Timers -> Pointers] /\ pv \in [Timers -> Pointers]
    <3>1. next[t] \in Pointers /\ prev[t] \in Pointers /\ NULL \in Pointers
      BY <1>4 DEF TypeOK, Pointers
    <3> QED  BY <3>1 DEF TypeOK
  <2>5. \A i \in 1..n : i # m =>
          nx[p[i]] = IF i = m - 1 THEN IF m = n THEN NULL ELSE p[m + 1]
                     ELSE next[p[i]]
    <3> SUFFICES ASSUME NEW i \in 1..n, i # m
                 PROVE  nx[p[i]] = IF i = m - 1 THEN p[m + 1]
                                   ELSE next[p[i]]
      BY <2>1
    <3>1. p[i] # t /\ p[i] \in Timers /\ next \in [Timers -> Pointers]
      BY <1>0, <1>1 DEF TypeOK
    <3>2. CASE m = 1
      BY <3>1, <3>2
    <3>3. CASE m # 1
      <4>1. prev[t] = p[m - 1] /\ m - 1 \in 1..n
        BY <1>3, <1>4, <3>3
      <4>2. p[i] = p[m - 1] <=> i = m - 1
        BY <1>0, <4>1
      <4> QED  BY <2>1, <3>1, <3>3, <4>1, <4>2
    <3> QED  BY <3>2, <3>3
  <2>6. \A i \in 1..n : i # m =>
          pv[p[i]] = IF i = m + 1 THEN IF m = 1 THEN NULL ELSE p[m - 1]
                     ELSE prev[p[i]]
    <3> SUFFICES ASSUME NEW i \in 1..n, i # m
                 PROVE  pv[p[i]] = IF i = m + 1 THEN prev[t] ELSE prev[p[i]]
      BY <1>3
    <3>1. p[i] \in Timers /\ prev \in [Timers -> Pointers]
      BY <1>0 DEF TypeOK
    <3>2. p[i] = p[m + 1] <=> i = m + 1
      BY <1>0, <2>1
    <3>3. m = 1 => prev[t] = NULL
      BY <1>3
    <3> QED  BY <2>1, <3>1, <3>2, <3>3
  <2> HIDE DEF nx, pv
  <2>7. Chain(n - 1, q, head', tail, nx, pv)
    <3>1. /\ head' = IF m > 1 THEN head ELSE IF n = 1 THEN NULL ELSE p[2]
          /\ n > 1 => tail = IF m < n THEN tail ELSE p[n - 1]
      BY <2>1, <2>3
    <3>2. Chain(n, p, head, tail, next, prev)
      BY DEF IsList
    <3>3. LeadPast(n, p, m, head, tail, next, prev, head', tail, nx, pv)
      BY <2>5, <2>6, <3>1 DEF LeadPast
    <3> QED  BY <3>2, <3>3, CutLinks
  <2>8. /\ n - 1 \in Nat /\ q \in [1..n - 1 -> Timers]
        /\ Among(n - 1, q) = Among(n, p) \ {t}
    BY <1>0, <1>1, CutIs
  <2>9. q[m] = p[m + 1] /\ m \in 1..n - 1
    BY <1>0, <2>1 DEF Cut
  <2>10. Ascending(n - 1, q, expire')
    <3>1. Ascending(n - 1, q, expire)
      BY <1>0, CutAscends DEF IsList
    <3>2. \A i \in 1..n - 1 : expire'[q[i]] = expire[q[i]]
      <4>1. \A i \in 1..n - 1 : q[i] \in Timers /\ q[i] # t
        <5> HIDE DEF q
        <5>1. \A i \in 1..n - 1 : q[i] \in Among(n - 1, q)
          BY DEF Among
        <5> QED  BY <2>8, <5>1
      <4> HIDE DEF q
      <4> QED  BY <1>5, <4>1
    <3> HIDE DEF q
    <3> QED  BY <3>1, <3>2 DEF Ascending
  <2> HIDE DEF q
  <2>11. expire'[q[m]] <= expire'[t]
    <3>1. expire'[p[m + 1]] = expire[p[m + 1]] /\ expire[p[m + 1]] \in Int
      <4>1. m + 1 # m
        OBVIOUS
      <4> QED  BY <1>0, <1>5, <1>6, <2>1, <4>1
    <3> QED  BY <1>5, <2>1, <2>9, <3>1
  <2>12. /\ next' \in [Timers -> Pointers] /\ prev' \in [Timers -> Pointers]
         /\ tail' \in Pointers
         /\ \E r : /\ Chain(n - 1 + 1, r, head', tail', next', prev')
                   /\ Ascending(n - 1 + 1, r, expire')
                   /\ Among(n - 1 + 1, r) = Among(n - 1, q) \cup {t}
    <3>1. tail \in Pointers /\ t \in Timers \ Among(n - 1, q)
      BY <1>4, <2>8 DEF TypeOK
    <3>2. AddAfter(t, q[m], nx, pv) /\ m \in 1..n - 1
          /\ expire' \in [Timers -> Int]
      BY <1>5, <2>3, <2>9
    <3> QED  BY <2>4, <2>7, <2>10, <2>11, <3>1, <3>2, AddAfterInserts
  <2>13. n - 1 + 1 = n /\ Among(n - 1, q) \cup {t} = Among(n, p)
    BY <1>0, <2>8
  <2>14. head' \in Pointers
    <3>1. m = 1 => 2 \in 1..n
      BY <2>1
    <3> QED  BY <1>0, <2>3, <3>1 DEF TypeOK, Pointers
  <2>15. TypeOK'
    BY <1>5, <2>3, <2>12, <2>14 DEF TypeOK, Pointers
  <2> QED  BY <2>12, <2>13, <2>15 DEF IsList
<1> QED  BY <1>7, <1>8
-----------------------------------------------------------------------------
(* The specification                                                       *)

(* The list is empty at the start.                                         *)
LEMMA InitIsList == Init => ListInv
<1> SUFFICES ASSUME Init PROVE ListInv
  OBVIOUS
<1>1. (CHOOSE e \in Times : TRUE) \in Times
  BY ListAssumption
<1>2. TypeOK
  BY <1>1 DEF Init, TypeOK, Pointers
<1>3. IsList(0, [i \in 1..0 |-> NULL])
  BY DEF Init, IsList, Chain, Ascending
<1> QED  BY <1>2, <1>3 DEF ListInv

(* A step keeps the list a list, and the timers in it change as those of a *)
(* queue of timers may.                                                    *)
LEMMA StepKeeps ==
  ASSUME ListInv, [Next]_vars
  PROVE  /\ ListInv'
         /\ [TQ!Next \/ \E t \in Timers : TQ!Delete(t)]_(TQ!tqVars)
<1> DEFINE Always == [t \in Timers |-> TRUE]
           Step   == \/ UNCHANGED <<InList, expire>>
                     \/ \E t \in Timers :
                          \/ TQ!Remove(t) \/ TQ!Delete(t)
                          \/ \E e \in Times : TQ!Add(t, e) \/ TQ!Postpone(t, e)
<1> USE DEF ListInv
<1>0. PICK n, p : TypeOK /\ IsList(n, p)
  OBVIOUS
<1>1. InList = Among(n, p) /\ Among(n, p) \subseteq Timers
  BY <1>0, ListFacts DEF Among
<1>2. ASSUME NEW k, NEW q, TypeOK', IsList(k, q)'
      PROVE  ListInv' /\ InList' = Among(k, q)
  <2>1. Chain(k, q, head', tail', next', prev')
    BY <1>2 DEF IsList
  <2>2. Reached(next', head') = Among(k, q)
    BY <2>1, ReachedIs
  <2> QED  BY <1>2, <2>2 DEF InList
<1>3. ListInv' /\ Step
  <2>1. CASE UNCHANGED vars
    <3>1. TypeOK' /\ IsList(n, p)'
      BY <1>0, <2>1 DEF vars, links, TypeOK, Pointers, IsList
    <3>2. UNCHANGED expire
      BY <2>1 DEF vars
    <3> QED  BY <1>1, <1>2, <3>1, <3>2
  <2>2. ASSUME NEW t \in Timers \ InList, NEW e \in Times, AddTimer(t, e)
        PROVE  ListInv' /\ Step
    <3>1. PICK q : TypeOK' /\ IsList(n + 1, q)'
                   /\ Among(n + 1, q) = Among(n, p) \cup {t}
      BY <1>0, <1>1, <2>2, AddKeeps
    <3>2. ListInv' /\ InList' = InList \cup {t}
      BY <1>1, <1>2, <3>1
    <3>3. Always = [Always EXCEPT ![t] = TRUE]
      OBVIOUS
    <3>4. expire' = [expire EXCEPT ![t] = e]
      BY <2>2 DEF AddTimer
    <3>5. TQ!Add(t, e)
      BY <2>2, <3>2, <3>3, <3>4 DEF TQ!Add
    <3> QED  BY <3>2, <3>5
  <2>3. ASSUME NEW t \in InList, NEW e \in Times, e >= expire[t],
               AdjustTimer(t, e)
        PROVE  ListInv' /\ Step
    <3>1. PICK q : TypeOK' /\ IsList(n, q)' /\ Among(n, q) = Among(n, p)
      BY <1>0, <1>1, <2>3, AdjustKeeps
    <3>2. ListInv' /\ InList' = InList
      BY <1>1, <1>2, <3>1
    <3>3. expire' = [expire EXCEPT ![t] = e]
      BY <2>3 DEF AdjustTimer
    <3>4. TQ!Postpone(t, e) /\ t \in Timers
      BY <1>1, <2>3, <3>2, <3>3 DEF TQ!Postpone
    <3> QED  BY <3>2, <3>4
  <2>4. ASSUME NEW t \in InList, DelTimer(t) PROVE ListInv' /\ Step
    <3>1. PICK q : TypeOK' /\ IsList(n - 1, q)'
                   /\ Among(n - 1, q) = Among(n, p) \ {t}
      BY <1>0, <1>1, <2>4, DelKeeps
    <3>2. ListInv' /\ InList' = InList \ {t}
      BY <1>1, <1>2, <3>1
    <3>3. UNCHANGED expire
      BY <2>4 DEF DelTimer
    <3>4. TQ!Delete(t) /\ t \in Timers
      BY <1>1, <2>4, <3>2, <3>3 DEF TQ!Delete
    <3> QED  BY <3>2, <3>4
  <2>5. ASSUME NEW now \in Times, TickStart(now) PROVE ListInv' /\ Step
    <3>1. TypeOK' /\ IsList(n, p)' /\ UNCHANGED expire
      BY <1>0, <2>5 DEF TickStart, links, TypeOK, Pointers, IsList
    <3> QED  BY <1>1, <1>2, <3>1
  <2>6. CASE TickPop
    <3>1. TypeOK' /\ head \in Among(n, p)
      BY <1>0, <2>6, PopKeeps
    <3>2. PICK q : /\ IsList(n - 1, q)'
                   /\ Among(n - 1, q) = Among(n, p) \ {head}
      BY <1>0, <2>6, PopKeeps
    <3>3. ListInv' /\ InList' = InList \ {head} /\ head \in Timers
      BY <1>1, <1>2, <3>1, <3>2
    <3>4. \A u \in InList : expire[head] <= expire[u]
      <4> SUFFICES ASSUME NEW u \in InList PROVE expire[head] <= expire[u]
        OBVIOUS
      <4>1. PICK i \in 1..n : u = p[i]
        BY <1>1 DEF Among
      <4>2. n > 0 /\ head = p[1] /\ 1 \in 1..n
        BY <1>0, <4>1, ListFacts
      <4>3. i = 1 \/ expire[p[1]] <= expire[p[i]]
        <5>1. Ascending(n, p, expire) /\ n \in Nat
          BY <1>0, ListFacts
        <5> QED  BY <4>2, <5>1 DEF Ascending
      <4>4. expire[head] \in Int
        BY <1>0, <3>3, ListFacts
      <4> QED  BY <4>1, <4>2, <4>3, <4>4
    <3>5. UNCHANGED expire
      BY <2>6 DEF TickPop
    <3>6. TQ!Remove(head)
      BY <1>1, <3>1, <3>3, <3>4, <3>5 DEF TQ!Remove
    <3> QED  BY <3>3, <3>6
  <2>7. CASE TickEnd
    <3>1. TypeOK' /\ IsList(n, p)' /\ UNCHANGED expire
      BY <1>0, <2>7 DEF TickEnd, links, TypeOK, Pointers, IsList
    <3> QED  BY <1>1, <1>2, <3>1
  <2> QED  BY <2>1, <2>2, <2>3, <2>4, <2>5, <2>6, <2>7 DEF Next
<1>4. CASE UNCHANGED <<InList, expire>>
  BY <1>3, <1>4 DEF TQ!tqVars
<1>5. CASE \E t \in Timers :
             \/ TQ!Remove(t) \/ TQ!Delete(t)
             \/ \E e \in Times : TQ!Add(t, e) \/ TQ!Postpone(t, e)
  BY <1>3, <1>5 DEF TQ!Next
<1> QED  BY <1>3, <1>4, <1>5

(* Whatever add_timer, adjust_timer, del_timer and tick do, the pointers   *)
(* make one list, in the order of expire.                                  *)
THEOREM ListInvariant == Spec => []ListInv
<1>1. ListInv /\ [Next]_vars => ListInv'
  BY StepKeeps
<1> QED  BY <1>1, InitIsList, PTL DEF Spec

(* No operation of sort_timer_lst loses a timer or leaves a pointer to one *)
(* that is freed.                                                          *)
THEOREM ListIsLinked == Spec => []Linked
<1>1. ASSUME ListInv PROVE Linked
  <2>0. PICK n, p : TypeOK /\ IsList(n, p)
    BY <1>1 DEF ListInv
  <2>1. /\ InList = Among(n, p) /\ n \in Nat
        /\ head = NULL <=> n = 0
        /\ n > 0 => head = p[1] /\ tail = p[n] /\ 1 \in 1..n /\ n \in 1..n
        /\ \A i \in 1..n : next[p[i]] = IF i = n THEN NULL ELSE p[i + 1]
        /\ \A i \in 1..n : prev[p[i]] = IF i = 1 THEN NULL ELSE p[i - 1]
    BY <2>0, ListFacts
  <2>2. ASSUME head # NULL
        PROVE  prev[head] = NULL /\ tail \in InList /\ next[tail] = NULL
    BY <2>1, <2>2 DEF Among
  <2>3. ASSUME NEW t \in InList, next[t] # NULL PROVE prev[next[t]] = t
    <3>1. PICK i \in 1..n : t = p[i]
      BY <2>1 DEF Among
    <3>2. next[t] = p[i + 1] /\ i + 1 \in 1..n /\ i + 1 # 1
          /\ i + 1 - 1 = i
      BY <2>1, <2>3, <3>1
    <3> QED  BY <2>1, <3>1, <3>2
  <2> QED  BY <2>0, <2>2, <2>3 DEF Linked
<1> QED  BY <1>1, ListInvariant, PTL

(* Each timer is due no later than the next one.                           *)
THEOREM ListIsSorted == Spec => []Sorted
<1>1. ASSUME ListInv PROVE Sorted
  <2>0. PICK n, p : TypeOK /\ IsList(n, p)
    BY <1>1 DEF ListInv
  <2>1. /\ InList = Among(n, p) /\ n \in Nat /\ Ascending(n, p, expire)
        /\ \A i \in 1..n : next[p[i]] = IF i = n THEN NULL ELSE p[i + 1]
    BY <2>0, ListFacts
  <2>2. ASSUME NEW t \in InList, next[t] # NULL
        PROVE  expire[t] <= expire[next[t]]
    <3>1. PICK i \in 1..n : t = p[i]
      BY <2>1 DEF Among
    <3>2. next[t] = p[i + 1] /\ i + 1 \in 1..n /\ i < i + 1
      BY <2>1, <2>2, <3>1
    <3> QED  BY <2>1, <3>1, <3>2 DEF Ascending
  <2> QED  BY <2>2 DEF Sorted
<1> QED  BY <1>1, ListInvariant, PTL

(* sort_timer_lst is a queue of timers: it holds those added and not       *)
(* removed, and tick takes one that is due first.                          *)
THEOREM ListIsTimerQueue == Spec => ImplementsTimerQueue
<1>1. ASSUME Init PROVE TQ!Init
  <2>1. ListInv
    BY <1>1, InitIsList
  <2>2. PICK n, p : TypeOK /\ IsList(n, p)
    BY <2>1 DEF ListInv
  <2>3. InList = Among(n, p) /\ Among(n, p) \subseteq Timers
    BY <2>2, ListFacts DEF Among
  <2> QED  BY <2>2, <2>3 DEF TQ!Init, TypeOK
<1>2. ListInv /\ [Next]_vars
        => [TQ!Next \/ \E t \in Timers : TQ!Delete(t)]_(TQ!tqVars)
  BY StepKeeps
<1> QED
  BY <1>1, <1>2, ListInvariant, PTL
     DEF Spec, ImplementsTimerQueue, TQ!DeletingSpec
=============================================================================
