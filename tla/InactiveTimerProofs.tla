------------------------ MODULE InactiveTimerProofs ------------------------
(***************************************************************************)
(* The heap of timers, and the server that closes inactive connections     *)
(* with it, for every capacity, number of descriptors, timers and seconds. *)
(*                                                                         *)
(* First TimeHeap's properties: the heap stays in order, every timer in it *)
(* knows its place, and it is a queue of timers as TimerQueue describes    *)
(* one.  The sifting loops are recursive functions along the places of the *)
(* heap.  That such a function exists, and what it returns, follows from   *)
(* the least place where it would not: LeastNumber stands for the          *)
(* induction.  A loop then shifts the timers along its path, which is a    *)
(* permutation (RotatedPermutes) and restores the order (DownOrders,       *)
(* UpOrders).                                                              *)
(*                                                                         *)
(* Then InactiveTimer's: no connection is closed early or by a timer that  *)
(* is not its own, the heap is used as its proofs assume, and the alarms   *)
(* come.                                                                   *)
(***************************************************************************)
EXTENDS InactiveTimer, SequenceTheorems, FiniteSetTheorems,
        WellFoundedInduction, TLAPS
-----------------------------------------------------------------------------
(* The sifting loops walk from a place to the next as long as a condition  *)
(* holds.  D are the places, go those where a loop goes on, next[i] is the *)
(* place after i, and r numbers the places so that it is smaller there.    *)

(* A set of numbers that is not empty has a least one: < is well-founded.  *)
LEMMA LeastNumber ==
  ASSUME NEW S, S \subseteq Nat, S # {}
  PROVE  \E i \in S : \A j \in S : i <= j
<1> DEFINE R == OpToRel(<, Nat)
<1>1. PICK i \in S : \A j \in S : <<j, i>> \notin R
  <2>1. IsWellFoundedOn(R, Nat)
    BY NatLessThanWellFounded
  <2> HIDE DEF R
  <2> QED  BY <2>1, WFMin
<1>2. \A j \in S : ~ (j < i)
  BY <1>1 DEF OpToRel
<1> HIDE DEF R
<1> QED  BY <1>2

(* The step of the recursion.                                              *)
Walk(D, go, next, f) ==
  [i \in D |-> IF i \in go THEN <<i>> \o f[next[i]] ELSE <<i>>]

Solvable(D, go, next) == \E f : f = Walk(D, go, next, f)

(* The recursion has a solution.                                           *)
LEMMA WalkExists ==
  ASSUME NEW D, NEW n \in Nat, NEW r \in [D -> 0..n - 1],
         NEW go \in SUBSET D, NEW next,
         \A i \in go : next[i] \in D /\ r[next[i]] < r[i]
  PROVE  Solvable(D, go, next)
<1> DEFINE Upto(m, f) ==
             \A i \in D : r[i] < m => f[i] = Walk(D, go, next, f)[i]
           S == {m \in Nat : ~ \E f : DOMAIN f = D /\ Upto(m, f)}
<1>1. S = {}
  <2> SUFFICES ASSUME S # {} PROVE FALSE
    OBVIOUS
  <2>1. PICK m \in S : \A j \in S : m <= j
    <3> HIDE DEF S
    <3> QED  BY LeastNumber DEF S
  <2>2. m # 0
    <3>1. Upto(0, [i \in D |-> 0])
      OBVIOUS
    <3> QED  BY <3>1
  <2>3. m - 1 \in Nat /\ m - 1 \notin S
    BY <2>1, <2>2
  <2>4. PICK f : DOMAIN f = D /\ Upto(m - 1, f)
    BY <2>3
  <2> DEFINE g == [i \in D |->
                     IF r[i] = m - 1 THEN Walk(D, go, next, f)[i] ELSE f[i]]
  <2>5. \A i \in D : r[i] < m - 1 => g[i] = f[i]
    OBVIOUS
  <2>6. ASSUME NEW i \in D, r[i] < m PROVE g[i] = Walk(D, go, next, f)[i]
    <3>1. CASE r[i] = m - 1
      BY <3>1
    <3>2. CASE r[i] # m - 1
      BY <2>1, <2>4, <2>6, <3>2
    <3> QED  BY <3>1, <3>2
  <2> HIDE DEF g
  <2>7. ASSUME NEW i \in D, r[i] < m
        PROVE  Walk(D, go, next, f)[i] = Walk(D, go, next, g)[i]
    <3>1. CASE i \in go
      <4>1. next[i] \in D /\ r[next[i]] < m - 1
        BY <2>1, <2>7, <3>1
      <4>2. g[next[i]] = f[next[i]]
        BY <2>5, <4>1
      <4> QED  BY <4>2 DEF Walk
    <3>2. CASE i \notin go
      BY <3>2 DEF Walk
    <3> QED  BY <3>1, <3>2
  <2>8. Upto(m, g)
    BY <2>6, <2>7
  <2>9. DOMAIN g = D
    BY DEF g
  <2> QED  BY <2>1, <2>8, <2>9
<1>2. PICK f : DOMAIN f = D /\ Upto(n, f)
  BY <1>1
<1> DEFINE g == Walk(D, go, next, f)
<1>3. \A i \in D : f[i] = g[i]
  BY <1>2
<1>4. g = Walk(D, go, next, g)
  BY <1>3 DEF Walk
<1> QED  BY <1>4 DEF Solvable

(* What the solution is: from i on along next until a place not in go.     *)
IsWalk(D, go, next, p, i) ==
  /\ p \in Seq(D) /\ Len(p) > 0 /\ p[1] = i
  /\ \A k \in 1..Len(p) - 1 : p[k] \in go /\ p[k + 1] = next[p[k]]
  /\ p[Len(p)] \notin go

(* The solution walks from every place.                                    *)
LEMMA WalkIs ==
  ASSUME NEW D, NEW n \in Nat, NEW r \in [D -> 0..n - 1],
         NEW go \in SUBSET D, NEW next,
         \A i \in go : next[i] \in D /\ r[next[i]] < r[i],
         NEW f, f = Walk(D, go, next, f), NEW i \in D
  PROVE  IsWalk(D, go, next, f[i], i)
<1> DEFINE S == {r[j] : j \in {j \in D : ~IsWalk(D, go, next, f[j], j)}}
<1>1. S = {}
  <2> SUFFICES ASSUME S # {} PROVE FALSE
    OBVIOUS
  <2>1. PICK m \in S : \A j \in S : m <= j
    <3>1. S \subseteq Nat
      OBVIOUS
    <3> HIDE DEF S
    <3> QED  BY <3>1, LeastNumber
  <2>2. PICK j \in D : r[j] = m /\ ~IsWalk(D, go, next, f[j], j)
    OBVIOUS
  <2>3. <<j>> \in Seq(D) /\ Len(<<j>>) = 1 /\ <<j>>[1] = j
    OBVIOUS
  <2>4. CASE j \notin go
    <3>1. f[j] = <<j>>
      BY <2>4 DEF Walk
    <3> QED  BY <2>2, <2>3, <2>4, <3>1 DEF IsWalk
  <2>5. CASE j \in go
    <3> DEFINE c == next[j]
               q == f[c]
               p == <<j>> \o q
    <3>1. c \in D /\ r[c] < r[j]
      BY <2>5
    <3>2. IsWalk(D, go, next, q, c)
      <4> SUFFICES ASSUME ~IsWalk(D, go, next, q, c) PROVE FALSE
        OBVIOUS
      <4>1. r[c] \in S
        BY <3>1
      <4> HIDE DEF S
      <4> QED  BY <2>1, <2>2, <3>1, <4>1
    <3>3. f[j] = p
      BY <2>5 DEF Walk
    <3> HIDE DEF c, q
    <3>4. q \in Seq(D) /\ Len(q) \in Nat /\ Len(q) > 0
      BY <3>2, LenProperties DEF IsWalk
    <3>5. /\ p \in Seq(D) /\ Len(p) = 1 + Len(q)
          /\ \A k \in 1..1 + Len(q) :
               p[k] = IF k <= 1 THEN <<j>>[k] ELSE q[k - 1]
      <4>1. /\ p \in Seq(D) /\ Len(p) = Len(<<j>>) + Len(q)
            /\ \A k \in 1..Len(<<j>>) + Len(q) :
                 p[k] = IF k <= Len(<<j>>) THEN <<j>>[k] ELSE q[k - Len(<<j>>)]
        BY <2>3, <3>4, ConcatProperties
      <4> HIDE DEF p
      <4> QED  BY <2>3, <4>1
    <3> HIDE DEF p
    <3>6. p[1] = j /\ p[Len(p)] = q[Len(q)]
      BY <2>3, <3>4, <3>5
    <3>7. ASSUME NEW k \in 1..Len(p) - 1
          PROVE  p[k] \in go /\ p[k + 1] = next[p[k]]
      <4>1. CASE k = 1
        <5>1. p[2] = q[1]
          BY SMTT(30), <3>4, <3>5
        <5> QED  BY SMTT(30), <2>5, <3>2, <3>6, <4>1, <5>1 DEF IsWalk, c
      <4>2. CASE k # 1
        <5> DEFINE m1 == k + 1
        <5>0. /\ k - 1 \in 1..Len(q) - 1 /\ m1 - 1 = k
              /\ k \in 1..1 + Len(q) /\ m1 \in 1..1 + Len(q)
              /\ ~(k <= 1) /\ ~(m1 <= 1)
          BY <3>4, <3>5, <4>2
        <5> HIDE DEF m1
        <5>a. p[k] = q[k - 1] /\ p[m1] = q[m1 - 1]
          BY <3>5, <5>0
        <5>1. k - 1 \in 1..Len(q) - 1 /\ p[k] = q[k - 1] /\ p[k + 1] = q[k]
          BY <5>0, <5>a DEF m1
        <5>2. q[k - 1] \in go /\ q[k - 1 + 1] = next[q[k - 1]]
          BY <3>2, <5>1 DEF IsWalk
        <5> QED  BY <5>1, <5>2
      <4> QED  BY <4>1, <4>2
    <3>8. p[Len(p)] \notin go
      BY <3>2, <3>6 DEF IsWalk
    <3>9. IsWalk(D, go, next, p, j)
      BY <3>4, <3>5, <3>6, <3>7, <3>8 DEF IsWalk
    <3> QED  BY <2>2, <3>3, <3>9
  <2> QED  BY <2>4, <2>5
<1> QED  BY <1>1

(* Along a walk r only decreases: no place is visited twice.               *)
LEMMA WalkDescends ==
  ASSUME NEW D, NEW n \in Nat, NEW r \in [D -> 0..n - 1],
         NEW go \in SUBSET D, NEW next,
         \A i \in go : next[i] \in D /\ r[next[i]] < r[i],
         NEW p, NEW h, IsWalk(D, go, next, p, h)
  PROVE  \A k, l \in 1..Len(p) : k < l => r[p[l]] < r[p[k]]
<1>1. p \in Seq(D) /\ Len(p) \in Nat /\ \A k \in 1..Len(p) : p[k] \in D
  BY LenProperties, ElementOfSeq DEF IsWalk
<1> DEFINE Bad == {l \in 1..Len(p) :
                     \E k \in 1..Len(p) : k < l /\ ~(r[p[l]] < r[p[k]])}
<1>2. Bad = {}
  <2> SUFFICES ASSUME Bad # {} PROVE FALSE
    OBVIOUS
  <2>1. PICK l \in Bad : \A j \in Bad : l <= j
    <3>1. Bad \subseteq Nat
      BY <1>1
    <3> HIDE DEF Bad
    <3> QED  BY <3>1, LeastNumber
  <2>2. PICK k \in 1..Len(p) : k < l /\ ~(r[p[l]] < r[p[k]])
    OBVIOUS
  <2>3. l - 1 \in 1..Len(p) - 1 /\ l \in 1..Len(p) /\ l - 1 \in 1..Len(p)
    BY <1>1, <2>2
  <2>4. p[l - 1] \in go /\ p[l] = next[p[l - 1]]
    <3>1. p[l - 1] \in go /\ p[l - 1 + 1] = next[p[l - 1]]
      BY <2>3 DEF IsWalk
    <3> QED  BY <2>3, <3>1
  <2>5. r[p[l]] < r[p[l - 1]]
    BY <2>4
  <2>6. l - 1 \notin Bad
    <3> HIDE DEF Bad
    <3> QED  BY <2>1, <2>3
  <2>7. k = l - 1 \/ r[p[l - 1]] < r[p[k]]
    BY <2>2, <2>3, <2>6
  <2>8. r[p[l]] \in Int /\ r[p[l - 1]] \in Int /\ r[p[k]] \in Int
    <3>1. \A i \in D : r[i] \in Int
      OBVIOUS
    <3>2. p[l] \in D /\ p[l - 1] \in D /\ p[k] \in D
      BY <1>1, <2>2, <2>3
    <3> QED  BY <3>1, <3>2
  <2> QED  BY SMTT(30), <2>2, <2>5, <2>7, <2>8
<1> QED  BY <1>2
-----------------------------------------------------------------------------
(* What the paths are, and what moving the timers along one does.          *)

DownGo(a, n, e, hole) ==
  {i \in 0..n - 1 : 2 * i + 1 <= n - 1 /\ e[a[Child(a, n, e, i)]] < e[a[hole]]}

DownNext(a, n, e) == [i \in 0..n - 1 |-> Child(a, n, e, i)]

UpGo(a, e, d, hole) == {i \in 0..hole : i > 0 /\ e[a[(i - 1) \div 2]] > d}

UpNext(hole) == [i \in 0..hole |-> (i - 1) \div 2]

(* percolate_down goes from a place to a child of it.                      *)
LEMMA DownPathIs ==
  ASSUME NEW n \in Nat, NEW a, NEW e, NEW hole \in 0..n - 1
  PROVE  IsWalk(0..n - 1, DownGo(a, n, e, hole), DownNext(a, n, e),
                DownPath(a, n, e, hole), hole)
<1> DEFINE D    == 0..n - 1
           go   == DownGo(a, n, e, hole)
           next == DownNext(a, n, e)
           r    == [i \in D |-> n - 1 - i]
           step(f) == [i \in 0..n - 1 |->
             LET c == Child(a, n, e, i)
             IN  IF 2 * i + 1 <= n - 1 /\ e[a[c]] < e[a[hole]]
                 THEN <<i>> \o f[c] ELSE <<i>>]
           down == CHOOSE f : f = step(f)
<1>1. r \in [D -> 0..n - 1] /\ go \in SUBSET D
  BY DEF DownGo
<1>2. \A i \in go : next[i] \in D /\ r[next[i]] < r[i]
  <2> SUFFICES ASSUME NEW i \in go PROVE next[i] \in D /\ r[next[i]] < r[i]
    OBVIOUS
  <2>1. i \in D /\ 2 * i + 1 <= n - 1
    BY DEF DownGo
  <2>2. \/ Child(a, n, e, i) = 2 * i + 2 /\ 2 * i + 2 <= n - 1
        \/ Child(a, n, e, i) = 2 * i + 1
    BY <2>1 DEF Child
  <2>3. Child(a, n, e, i) \in D /\ Child(a, n, e, i) > i
    BY <2>1, <2>2
  <2> QED  BY <2>1, <2>3 DEF DownNext
<1>3. \A f : step(f) = Walk(D, go, next, f)
  BY DEF Walk, DownGo, DownNext
<1>4. Solvable(D, go, next)
  <2> HIDE DEF D, go, next, r
  <2> QED  BY <1>1, <1>2, WalkExists
<1>5. DownPath(a, n, e, hole) = down[hole]
  BY DEF DownPath
<1> HIDE DEF step
<1>6. down = step(down)
  BY <1>3, <1>4 DEF Solvable
<1>7. down = Walk(D, go, next, down)
  BY <1>3, <1>6
<1> HIDE DEF down, D, go, next, r
<1>8. hole \in D
  BY DEF D
<1>9. IsWalk(D, go, next, down[hole], hole)
  BY <1>1, <1>2, <1>7, <1>8, WalkIs
<1> QED  BY <1>5, <1>9 DEF D, go, next

(* add_timer goes from a place to its parent.                              *)
LEMMA UpPathIs ==
  ASSUME NEW a, NEW e, NEW d, NEW hole \in Nat
  PROVE  IsWalk(0..hole, UpGo(a, e, d, hole), UpNext(hole),
                UpPath(a, e, d, hole), hole)
<1> DEFINE D    == 0..hole
           n    == hole + 1
           go   == UpGo(a, e, d, hole)
           next == UpNext(hole)
           r    == [i \in D |-> i]
           step(f) == [i \in 0..hole |->
             IF i > 0 /\ e[a[(i - 1) \div 2]] > d
             THEN <<i>> \o f[(i - 1) \div 2] ELSE <<i>>]
           up   == CHOOSE f : f = step(f)
<1>1. n \in Nat /\ r \in [D -> 0..n - 1] /\ go \in SUBSET D
  BY DEF UpGo
<1>2. \A i \in go : next[i] \in D /\ r[next[i]] < r[i]
  <2> SUFFICES ASSUME NEW i \in go PROVE next[i] \in D /\ r[next[i]] < r[i]
    OBVIOUS
  <2>1. i \in D /\ i > 0
    BY DEF UpGo
  <2>2. (i - 1) \div 2 \in D /\ (i - 1) \div 2 < i
    BY <2>1
  <2> QED  BY <2>1, <2>2 DEF UpNext
<1>3. \A f : step(f) = Walk(D, go, next, f)
  BY DEF Walk, UpGo, UpNext
<1>4. Solvable(D, go, next)
  <2> HIDE DEF D, go, next, r, n
  <2> QED  BY <1>1, <1>2, WalkExists
<1>5. UpPath(a, e, d, hole) = up[hole]
  BY DEF UpPath
<1> HIDE DEF step
<1>6. up = step(up)
  BY <1>3, <1>4 DEF Solvable
<1>7. up = Walk(D, go, next, up)
  BY <1>3, <1>6
<1> HIDE DEF up, D, go, next, r, n
<1>8. hole \in D
  BY DEF D
<1>9. IsWalk(D, go, next, up[hole], hole)
  BY <1>1, <1>2, <1>7, <1>8, WalkIs
<1> QED  BY <1>5, <1>9 DEF D, go, next

Holes(path) == {path[k] : k \in 1..Len(path)}

NoTwice(path) == \A k, l \in 1..Len(path) : k < l => path[k] # path[l]

(* b is a with the timers in the holes after the first moved into the one  *)
(* before, and t in the last.                                              *)
Slid(a, t, path, b) ==
  /\ DOMAIN b = DOMAIN a \cup Holes(path)
  /\ \A i \in DOMAIN a \ Holes(path) : b[i] = a[i]
  /\ \A k \in 1..Len(path) - 1 : b[path[k]] = a[path[k + 1]]
  /\ b[path[Len(path)]] = t

(* Slide does that.                                                        *)
LEMMA SlideIs ==
  ASSUME NEW D, NEW path \in Seq(D), Len(path) > 0,
         NoTwice(path), NEW a, NEW t, NEW b, b = Slide(a, path, t)
  PROVE  Slid(a, t, path, b)
<1> DEFINE H   == Holes(path)
           at  == [i \in H |-> CHOOSE k \in 1..Len(path) : path[k] = i]
<1>1. Len(path) \in Nat
  BY LenProperties
<1>2. b = [i \in DOMAIN a \cup DOMAIN at |->
             IF i \notin DOMAIN at THEN a[i]
             ELSE IF at[i] = Len(path) THEN t ELSE a[path[at[i] + 1]]]
  BY DEF Slide, Holes
<1>3. ASSUME NEW k \in 1..Len(path) PROVE path[k] \in H /\ at[path[k]] = k
  <2>1. path[k] \in H
    BY DEF Holes
  <2>2. \A l \in 1..Len(path) : path[l] = path[k] => l = k
    BY <1>1 DEF NoTwice
  <2> QED  BY <2>1, <2>2
<1>4. DOMAIN at = H
  OBVIOUS
<1> HIDE DEF at, H
<1>5. \A i \in DOMAIN a \ H : b[i] = a[i]
  BY <1>2, <1>4
<1>6. ASSUME NEW k \in 1..Len(path) - 1 PROVE b[path[k]] = a[path[k + 1]]
  <2>1. k \in 1..Len(path) /\ k # Len(path)
    BY <1>1
  <2> QED  BY <1>2, <1>3, <1>4, <2>1
<1>7. b[path[Len(path)]] = t
  <2>1. Len(path) \in 1..Len(path)
    BY <1>1
  <2> QED  BY <1>2, <1>3, <1>4, <2>1
<1>8. DOMAIN b = DOMAIN a \cup H
  BY <1>2, <1>4
<1> QED  BY <1>5, <1>6, <1>7, <1>8 DEF H, Slid

Injective(D, a) == \A i, j \in D : a[i] = a[j] => i = j

(* The timers in the array b know their places, those elsewhere what they  *)
(* knew before.                                                            *)
Knows(D, b, g) ==
  /\ \A i \in D : g[b[i]] = i
  /\ \A t \in Timers : g[t] = index[t] \/ g[t] \in D
  /\ g = [t \in Timers |-> g[t]]

(* They do after Reindex, if those off the path did before.                *)
LEMMA ReindexIs ==
  ASSUME NEW D, NEW path \in Seq(D), NEW b \in [D -> Timers],
         Injective(D, b), \A i \in D \ Holes(path) : index[b[i]] = i
  PROVE  Knows(D, b, Reindex(b, path))
<1> DEFINE H == Holes(path)
           g == Reindex(b, path)
<1>1. H \subseteq D
  BY LenProperties, ElementOfSeq DEF Holes
<1>2. g = [t \in Timers |-> IF \E i \in H : b[i] = t
                            THEN CHOOSE i \in H : b[i] = t ELSE index[t]]
  BY DEF Reindex, Holes
<1> HIDE DEF H, g
<1> USE DEF Injective
<1>3. ASSUME NEW i \in D PROVE g[b[i]] = i
  <2>1. CASE i \in H
    BY <1>1, <1>2, <2>1
  <2>2. CASE i \notin H
    <3>1. ~ \E j \in H : b[j] = b[i]
      BY <1>1, <2>2
    <3> QED  BY <1>2, <2>2, <3>1 DEF H
  <2> QED  BY <2>1, <2>2
<1>4. ASSUME NEW t \in Timers PROVE g[t] = index[t] \/ g[t] \in D
  BY <1>1, <1>2
<1> QED  BY <1>2, <1>3, <1>4 DEF g, Knows
-----------------------------------------------------------------------------
(* Moving along a path permutes the timers.                                *)

(* b is a with the entries along path moved by one, the first to the last. *)
Rotated(D, a, b, path) ==
  /\ DOMAIN b = D
  /\ \A i \in D \ Holes(path) : b[i] = a[i]
  /\ \A k \in 1..Len(path) - 1 : b[path[k]] = a[path[k + 1]]
  /\ b[path[Len(path)]] = a[path[1]]

(* b is a permutation of a.                                                *)
Permuted(D, a, b) ==
  /\ {b[i] : i \in D} = {a[i] : i \in D}
  /\ Injective(D, a) => Injective(D, b)

(* Moving the timers along a path loses and doubles none.                  *)
LEMMA RotatedPermutes ==
  ASSUME NEW D, NEW path \in Seq(D), Len(path) > 0, NoTwice(path),
         NEW a, NEW b, Rotated(D, a, b, path)
  PROVE  Permuted(D, a, b)
<1> DEFINE L == Len(path)
           H == Holes(path)
           after(k) == IF k = L THEN 1 ELSE k + 1
<1>1. L \in Nat /\ L > 0 /\ H \subseteq D
  BY LenProperties, ElementOfSeq DEF Holes
<1>2. ASSUME NEW k \in 1..L
      PROVE  /\ path[k] \in H /\ after(k) \in 1..L
             /\ b[path[k]] = a[path[after(k)]]
  <2>1. path[k] \in H
    BY DEF Holes
  <2>2. after(k) \in 1..L
    BY <1>1
  <2>3. CASE k = L
    BY <1>1, <2>1, <2>2, <2>3 DEF Rotated
  <2>4. CASE k # L
    <3>1. k \in 1..L - 1
      BY <1>1, <2>4
    <3> QED  BY <2>1, <2>2, <2>4, <3>1 DEF Rotated
  <2> QED  BY <2>3, <2>4
<1>3. \A k, l \in 1..L : after(k) = after(l) => k = l
  BY <1>1
<1>4. \A l \in 1..L : \E k \in 1..L : after(k) = l
  <2> SUFFICES ASSUME NEW l \in 1..L PROVE \E k \in 1..L : after(k) = l
    OBVIOUS
  <2>1. CASE l = 1
    <3>1. L \in 1..L /\ after(L) = l
      BY <1>1, <2>1
    <3> QED  BY <3>1
  <2>2. CASE l # 1
    <3>1. l - 1 \in 1..L /\ after(l - 1) = l
      BY <1>1, <2>2
    <3> QED  BY <3>1
  <2> QED  BY <2>1, <2>2
<1>5. \A k, l \in 1..L : path[k] = path[l] => k = l
  BY <1>1 DEF NoTwice
<1>6. \A i \in H : \E k \in 1..L : i = path[k]
  BY DEF Holes
<1>7. \A i \in D \ H : b[i] = a[i]
  BY DEF Rotated
<1> HIDE DEF L, H, after
<1>8. \A i \in D : b[i] \in {a[j] : j \in D}
  <2> SUFFICES ASSUME NEW i \in D PROVE \E j \in D : b[i] = a[j]
    OBVIOUS
  <2> QED  BY SMTT(30), <1>1, <1>2, <1>6, <1>7
<1>9. \A i \in D : a[i] \in {b[j] : j \in D}
  <2> SUFFICES ASSUME NEW i \in D PROVE \E j \in D : a[i] = b[j]
    OBVIOUS
  <2>1. CASE i \in H
    <3>1. PICK l \in 1..L : i = path[l]
      BY <1>6, <2>1
    <3>2. PICK k \in 1..L : after(k) = l
      BY <1>4
    <3> QED  BY <1>1, <1>2, <3>1, <3>2
  <2>2. CASE i \notin H
    BY <1>7, <2>2
  <2> QED  BY <2>1, <2>2
<1>10. ASSUME Injective(D, a), NEW i \in D, NEW j \in D, b[i] = b[j]
       PROVE  i = j
  <2>1. CASE i \in H /\ j \in H
    <3>1. PICK k \in 1..L, l \in 1..L : i = path[k] /\ j = path[l]
      BY <1>6, <2>1
    <3>2. a[path[after(k)]] = a[path[after(l)]]
      BY <1>2, <1>10, <3>1
    <3>3. path[after(k)] = path[after(l)]
      BY <1>1, <1>2, <1>10, <3>2 DEF Injective
    <3>4. after(k) = after(l)
      BY <1>2, <1>5, <3>3
    <3> QED  BY <1>3, <3>1, <3>4
  <2>2. ASSUME NEW x \in D, NEW y \in D, x \in H, y \notin H, b[x] = b[y]
        PROVE  FALSE
    <3>1. PICK k \in 1..L : x = path[k]
      BY <1>6, <2>2
    <3>2. a[path[after(k)]] = a[y] /\ path[after(k)] \in H
      BY <1>2, <1>7, <2>2, <3>1
    <3> QED  BY <1>1, <1>10, <2>2, <3>2 DEF Injective
  <2>3. CASE i \notin H /\ j \notin H
    BY <1>7, <1>10, <2>3 DEF Injective
  <2> QED  BY <1>10, <2>1, <2>2, <2>3
<1> QED  BY <1>8, <1>9, <1>10 DEF Injective, Permuted

(* The places of the heap: i is a child of Par(i).                         *)
Par(i) == (i - 1) \div 2

(* Which are the children of a place.                                      *)
LEMMA ParIs ==
  /\ \A j \in Nat : j > 0 => Par(j) \in Nat /\ Par(j) < j
  /\ \A i, j \in Nat : j > 0 /\ Par(j) = i <=> j \in {2 * i + 1, 2 * i + 2}
BY DEF Par

(* The parent of a place of the heap is one, before it.                    *)
LEMMA ParInHeap ==
  ASSUME NEW n \in Nat, NEW j \in 1..n - 1
  PROVE  j \in 0..n - 1 /\ Par(j) \in 0..n - 1 /\ Par(j) >= 0 /\ Par(j) < j
<1>1. Par(j) \in Nat /\ Par(j) < j
  BY ParIs
<1> QED  BY <1>1

(* The times v in the places are in order at the children of the places    *)
(* from lo on.                                                             *)
InOrder(n, v, lo) == \A j \in 1..n - 1 : Par(j) >= lo => v[Par(j)] <= v[j]

(* The same but at the children of hole, which are above its parent.       *)
InOrderBut(n, v, lo, hole) ==
  /\ \A j \in 1..n - 1 : Par(j) >= lo /\ Par(j) # hole => v[Par(j)] <= v[j]
  /\ hole > 0 /\ Par(hole) >= lo =>
       \A j \in 1..n - 1 : Par(j) = hole => v[Par(hole)] <= v[j]

(* The path from hole goes to the earlier child as long as that is earlier *)
(* than what is in hole.                                                   *)
GoesDown(n, v, hole, path) ==
  /\ path[1] = hole
  /\ \A k, l \in 1..Len(path) : k < l => path[k] < path[l]
  /\ \A k \in 1..Len(path) - 1 :
       /\ path[k + 1] > 0 /\ Par(path[k + 1]) = path[k]
       /\ v[path[k + 1]] < v[hole]
       /\ \A j \in 1..n - 1 : Par(j) = path[k] => v[path[k + 1]] <= v[j]
  /\ \A j \in 1..n - 1 : Par(j) = path[Len(path)] => v[hole] <= v[j]

(* Sifting down puts the hole's children in order too: v are the times     *)
(* before, w after.                                                        *)
LEMMA DownOrders ==
  ASSUME NEW n \in Nat, NEW v \in [0..n - 1 -> Int], NEW hole \in 0..n - 1,
         NEW lo \in 0..hole, NEW path \in Seq(0..n - 1), Len(path) > 0,
         GoesDown(n, v, hole, path), InOrderBut(n, v, lo, hole),
         NEW w, Rotated(0..n - 1, v, w, path)
  PROVE  InOrder(n, w, lo)
<1> USE DEF GoesDown, InOrderBut
<1> DEFINE L == Len(path)
           H == Holes(path)
           D == 0..n - 1
<1>1. L \in Nat /\ L > 0 /\ \A k \in 1..L : path[k] \in D
  BY LenProperties, ElementOfSeq
<1>2. \A i \in D \ H : w[i] = v[i]
  BY DEF Rotated
<1>3. /\ \A k \in 1..L - 1 : w[path[k]] = v[path[k + 1]]
      /\ w[path[L]] = v[hole]
  BY DEF Rotated
<1>4. \A i \in D : v[i] \in Int
  OBVIOUS
<1>5. \A i : i \in H <=> \E k \in 1..L : i = path[k]
  BY DEF Holes
<1> SUFFICES ASSUME NEW j \in 1..n - 1, Par(j) >= lo PROVE w[Par(j)] <= w[j]
  BY DEF InOrder
<1>6. j \in D /\ Par(j) \in D /\ Par(j) < j /\ j > 0
  BY ParIs
<1>7. \A k \in 1..L - 1 : k \in 1..L /\ k + 1 \in 1..L /\ k # L
  BY SMTT(30), <1>1
<1>8. \A k \in 1..L : k # L => k \in 1..L - 1
  BY <1>1
<1>9. 1 \in 1..L /\ L \in 1..L
  BY <1>1
<1>a. \A k \in 1..L : k # 1 => path[1] < path[k]
  <2> SUFFICES ASSUME NEW k \in 1..L, k # 1 PROVE path[1] < path[k]
    OBVIOUS
  <2>1. 1 < k /\ 1 \in 1..Len(path) /\ k \in 1..Len(path)
    BY <1>1
  <2> QED  BY <2>1
<1> HIDE DEF L, H, D
(* A hole other than the first has its parent on the path.                 *)
<1>10. ASSUME NEW m \in 1..L, m # 1
       PROVE  m - 1 \in 1..L - 1 /\ Par(path[m]) = path[m - 1]
  <2>1. m - 1 \in 1..L - 1 /\ (m - 1) + 1 = m
    BY <1>1, <1>10
  <2> QED  BY <2>1 DEF L
<1>11. \A k, l \in 1..L : path[k] = path[l] => k = l
  <2> SUFFICES ASSUME NEW k \in 1..L, NEW l \in 1..L, path[k] = path[l], k # l
               PROVE  FALSE
    OBVIOUS
  <2>1. path[k] \in Int /\ path[l] \in Int
    BY <1>1 DEF D
  <2>2. k < l \/ l < k
    BY <1>1
  <2> QED  BY SMTT(30), <2>1, <2>2 DEF L
<1>12. CASE Par(j) \in H
  <2>1. PICK k \in 1..L : Par(j) = path[k]
    BY <1>5, <1>12
  <2>2. ASSUME j \in H PROVE k \in 1..L - 1 /\ j = path[k + 1]
    <3>1. PICK m \in 1..L : j = path[m]
      BY <1>5, <2>2
    <3>2. m # 1
      <4>1. k = 1 \/ path[1] < path[k]
        BY <1>a
      <4>2. path[1] \in Int /\ path[k] \in Int
        BY <1>1, <1>9 DEF D
      <4> QED  BY SMTT(30), <1>6, <2>1, <3>1, <4>1, <4>2 DEF D
    <3>3. m - 1 \in 1..L - 1 /\ path[m - 1] = path[k]
      BY <1>10, <2>1, <3>1, <3>2
    <3>4. m - 1 = k
      BY <1>7, <1>11, <3>3
    <3>5. m = k + 1
      BY <1>1, <3>4
    <3> QED  BY <3>1, <3>3, <3>4, <3>5
  <2>3. CASE k # L
    <3>1. k \in 1..L - 1 /\ w[Par(j)] = v[path[k + 1]]
      BY <1>3, <1>8, <2>1, <2>3
    <3>2. CASE j \in H
      <4> DEFINE m == k + 1
      <4>1. j = path[m] /\ m \in 1..L
        BY <1>7, <2>2, <3>1, <3>2
      <4> HIDE DEF m
      <4>2. w[Par(j)] = v[path[m]]
        BY <3>1 DEF m
      <4>3. CASE m = L
        <5>1. w[j] = v[hole] /\ v[path[m]] < v[hole]
          BY <1>3, <3>1, <4>1, <4>3 DEF L, m
        <5> QED  BY SMTT(30), <1>1, <1>4, <4>1, <4>2, <5>1 DEF D
      <4>4. CASE m # L
        <5>1. m \in 1..L - 1 /\ w[j] = v[path[m + 1]]
          BY <1>3, <1>8, <4>1, <4>4
        <5>2. Par(path[m + 1]) = path[m] /\ path[m + 1] > 0
              /\ path[m + 1] \in D
          BY <1>1, <1>7, <5>1 DEF L
        <5>3. path[m] # hole /\ path[m] >= lo
          <6>1. path[1] < path[m]
            <7>1. m # 1
              BY <1>1, <3>1 DEF m
            <7> QED  BY <1>a, <4>1, <7>1
          <6>2. \A x \in Int : x > hole => x # hole /\ x >= lo
            OBVIOUS
          <6>3. path[m] \in Int
            BY <1>1, <4>1 DEF D
          <6> QED  BY <6>1, <6>2, <6>3
        <5>4. path[m + 1] \in 1..n - 1
          BY SMTT(30), <5>2 DEF D
        <5>5. v[path[m]] <= v[path[m + 1]]
          BY <5>2, <5>3, <5>4
        <5> QED  BY <4>2, <5>1, <5>5
      <4> QED  BY <4>3, <4>4
    <3>3. CASE j \notin H
      <4>1. w[j] = v[j]
        BY <1>2, <1>6, <3>3
      <4> QED  BY <2>1, <3>1, <4>1 DEF L
    <3> QED  BY <3>2, <3>3
  <2>4. CASE k = L
    <3>1. j \notin H
      BY <1>7, <2>2, <2>4
    <3>2. w[Par(j)] = v[hole] /\ w[j] = v[j]
      BY <1>2, <1>3, <1>6, <2>1, <2>4, <3>1
    <3> QED  BY <2>1, <2>4, <3>2 DEF L
  <2> QED  BY <2>3, <2>4
<1>13. CASE Par(j) \notin H
  <2>1. w[Par(j)] = v[Par(j)] /\ Par(j) # hole
    BY <1>2, <1>5, <1>6, <1>9, <1>13
  <2>2. CASE j \notin H
    BY <1>2, <1>6, <2>1, <2>2
  <2>3. CASE j \in H
    <3>1. PICK m \in 1..L : j = path[m]
      BY <1>5, <2>3
    <3>2. m = 1
      <4> SUFFICES ASSUME m # 1 PROVE FALSE
        OBVIOUS
      <4>1. Par(j) = path[m - 1] /\ m - 1 \in 1..L
        BY <1>7, <1>10, <3>1
      <4> QED  BY <1>5, <1>13, <4>1
    <3>3. j = hole
      BY <3>1, <3>2
    <3>4. CASE L = 1
      <4>1. w[j] = v[hole]
        BY <1>3, <3>1, <3>2, <3>4
      <4> QED  BY <2>1, <3>3, <4>1
    <3>5. CASE L # 1
      <4>1. 1 \in 1..L - 1
        BY <1>8, <1>9, <3>5
      <4>2. w[j] = v[path[2]] /\ Par(path[2]) = hole /\ path[2] > 0
            /\ path[2] \in D
        <5>1. /\ w[path[1]] = v[path[1 + 1]] /\ Par(path[1 + 1]) = path[1]
              /\ path[1 + 1] > 0 /\ path[1 + 1] \in D
          BY <1>1, <1>3, <1>7, <4>1 DEF L
        <5> QED  BY <3>3, <5>1
      <4>3. path[2] \in 1..n - 1
        BY <4>2 DEF D
      <4> QED  BY <1>6, <2>1, <3>3, <4>2, <4>3
    <3> QED  BY <3>4, <3>5
  <2> QED  BY <2>2, <2>3
<1> QED  BY <1>12, <1>13

(* The path from the last place n goes to the parent as long as that is    *)
(* later than what is in n.                                                *)
GoesUp(n, v, path) ==
  /\ path[1] = n
  /\ \A k, l \in 1..Len(path) : k < l => path[l] < path[k]
  /\ \A k \in 1..Len(path) - 1 :
       /\ path[k] > 0 /\ path[k + 1] = Par(path[k])
       /\ v[path[k + 1]] > v[n]
  /\ path[Len(path)] > 0 => v[Par(path[Len(path)])] <= v[n]

(* Sifting up: v are the times in the places, of which n is new, w those   *)
(* after.                                                                  *)
LEMMA UpOrders ==
  ASSUME NEW n \in Nat, NEW v \in [0..n -> Int],
         NEW path \in Seq(0..n), Len(path) > 0, GoesUp(n, v, path),
         InOrder(n, v, 0), NEW w, Rotated(0..n, v, w, path)
  PROVE  InOrder(n + 1, w, 0)
<1> USE DEF GoesUp
<1> DEFINE L == Len(path)
           H == Holes(path)
           D == 0..n
<1>1. L \in Nat /\ L > 0 /\ \A k \in 1..L : path[k] \in D
  BY LenProperties, ElementOfSeq
<1>2. \A i \in D \ H : w[i] = v[i]
  BY DEF Rotated
<1>3. /\ \A k \in 1..L - 1 : w[path[k]] = v[path[k + 1]]
      /\ w[path[L]] = v[n]
  BY DEF Rotated
<1>4. \A i \in D : v[i] \in Int
  OBVIOUS
<1>5. \A i : i \in H <=> \E k \in 1..L : i = path[k]
  BY DEF Holes
<1>c. \A j \in 1..n - 1 : v[Par(j)] <= v[j]
  BY SMTT(30), ParIs DEF InOrder
<1> SUFFICES ASSUME NEW j \in 1..n PROVE w[Par(j)] <= w[j]
  BY DEF InOrder
<1>6. j \in D /\ Par(j) \in D /\ Par(j) < j /\ j > 0
  BY SMTT(30), ParIs
<1>7. \A k \in 1..L - 1 : k \in 1..L /\ k + 1 \in 1..L /\ k # L
  BY <1>1
<1>8. \A k \in 1..L : k # L => k \in 1..L - 1
  BY <1>1
<1>9. 1 \in 1..L /\ L \in 1..L
  BY <1>1
<1> HIDE DEF L, H, D
<1>10. \A k \in 1..L : k # 1 => path[k] < n
  BY <1>1, <1>9 DEF L
<1>b. \A x \in D : x > 0 /\ x < n => x \in 1..n - 1
  BY DEF D
<1>11. CASE j \in H
  <2>1. PICK k \in 1..L : j = path[k]
    BY <1>5, <1>11
  <2>2. CASE k # L
    <3> DEFINE m == k + 1
    <3>1. m \in 1..L /\ path[m] = Par(j) /\ w[j] = v[path[m]]
          /\ k \in 1..L - 1
      BY <1>3, <1>7, <1>8, <2>1, <2>2 DEF L
    <3>2. v[path[m]] > v[n]
      BY <3>1 DEF L
    <3> HIDE DEF m
    <3>3. CASE m = L
      BY SMTT(30), <1>1, <1>3, <1>4, <3>1, <3>2, <3>3 DEF D
    <3>4. CASE m # L
      <4>1. w[path[m]] = v[path[m + 1]] /\ path[m + 1] = Par(path[m])
            /\ path[m] > 0
        BY <1>3, <1>8, <3>1, <3>4 DEF L
      <4>2. path[m] < n
        BY <1>10, <3>1, <1>1 DEF m
      <4>3. path[m] \in 1..n - 1
        <5>1. path[m] \in D
          BY <1>1, <3>1
        <5> QED  BY <1>b, <4>1, <4>2, <5>1
      <4> QED  BY <1>c, <3>1, <4>1, <4>3
    <3> QED  BY <3>3, <3>4
  <2>3. CASE k = L
    <3>1. w[j] = v[n] /\ v[Par(j)] <= v[n]
      BY <1>3, <1>6, <2>1, <2>3 DEF L
    <3>2. Par(j) \notin H
      <4> SUFFICES ASSUME Par(j) \in H PROVE FALSE
        OBVIOUS
      <4>1. PICK l \in 1..L : Par(j) = path[l]
        BY <1>5
      <4>2. l = L \/ path[L] < path[l]
        BY <1>1, <1>9 DEF L
      <4> QED  BY <1>1, <1>6, <1>9, <2>1, <2>3, <4>1, <4>2 DEF D
    <3> QED  BY <1>2, <1>6, <3>1, <3>2
  <2> QED  BY <2>2, <2>3
<1>12. CASE j \notin H
  <2>1. w[j] = v[j] /\ j # n
    BY <1>2, <1>5, <1>6, <1>9, <1>12
  <2>2. j \in 1..n - 1
    BY <2>1
  <2>3. v[Par(j)] <= v[j]
    BY <1>c, <2>2
  <2>4. CASE Par(j) \notin H
    BY <1>2, <1>6, <2>1, <2>3, <2>4
  <2>5. CASE Par(j) \in H
    <3>1. PICK k \in 1..L : Par(j) = path[k]
      BY <1>5, <2>5
    <3>2. k # 1
      BY <1>6, <2>2, <3>1
    <3>3. k - 1 \in 1..L - 1 /\ (k - 1) + 1 = k
      BY <1>1, <3>2
    <3>4. v[path[k]] > v[n]
      BY <3>3 DEF L
    <3>a. v[path[k]] \in Int /\ v[n] \in Int /\ v[j] \in Int
      BY SMTT(30), <1>1, <1>4, <1>6 DEF D
    <3>5. CASE k = L
      <4>1. w[Par(j)] = v[n] /\ w[j] = v[j] /\ v[path[k]] <= v[j]
        BY <1>3, <2>1, <2>3, <3>1, <3>5
      <4> QED  BY <3>4, <3>a, <4>1
    <3>6. CASE k # L
      <4>1. w[path[k]] = v[path[k + 1]] /\ path[k + 1] = Par(path[k])
            /\ path[k] > 0 /\ k + 1 \in 1..L
        BY <1>3, <1>7, <1>8, <3>6 DEF L
      <4>2. path[k] \in 1..n - 1
        <5>1. path[k] \in D /\ path[k] < n
          BY <1>1, <1>10, <3>2
        <5> QED  BY <1>b, <4>1, <5>1
      <4>3. v[path[k + 1]] <= v[path[k]]
        BY <1>c, <4>1, <4>2
      <4>4. v[path[k + 1]] \in Int
        BY <1>1, <1>4, <4>1
      <4>5. w[Par(j)] = v[path[k + 1]] /\ w[j] = v[j] /\ v[path[k]] <= v[j]
        BY <2>1, <2>3, <3>1, <4>1
      <4>6. \A x, y, z \in Int : x <= y /\ y <= z => x <= z
        OBVIOUS
      <4>7. v[path[k + 1]] <= v[j]
        BY <3>a, <4>3, <4>4, <4>5, <4>6
      <4> QED  BY <4>5, <4>7
    <3> QED  BY <3>5, <3>6
  <2> QED  BY <2>4, <2>5
<1> QED  BY <1>11, <1>12
-----------------------------------------------------------------------------
(* percolate_down and the way up on an array of timers.                    *)

(* The times in the places.                                                *)
At(n, a, e) == [i \in 0..n - 1 |-> e[a[i]]]

(* Child is the earlier one of the children.                               *)
LEMMA ChildIs ==
  ASSUME NEW n \in Nat, NEW a \in [0..n - 1 -> Timers],
         NEW e \in [Timers -> Int], NEW i \in 0..n - 1, 2 * i + 1 <= n - 1,
         NEW c, c = Child(a, n, e, i)
  PROVE  /\ c \in 1..n - 1 /\ Par(c) = i
         /\ \A j \in 1..n - 1 : Par(j) = i => e[a[c]] <= e[a[j]]
<1> DEFINE l == 2 * i + 1
           r == 2 * i + 2
<1>1. l \in 1..n - 1 /\ r \in Nat /\ l + 1 = r /\ l \in 0..n - 1
  OBVIOUS
<1>2. c = IF l < n - 1 /\ e[a[l + 1]] < e[a[l]] THEN l + 1 ELSE l
  BY DEF Child
<1>3. ASSUME NEW j \in 1..n - 1, Par(j) = i
      PROVE  j = l \/ (j = r /\ l < n - 1)
  <2>1. j \in {l, r}
    BY <1>3, ParIs
  <2> QED  BY <2>1
<1>4. Par(l) = i /\ Par(r) = i
  BY <1>1, ParIs
<1>5. l < n - 1 => r \in 0..n - 1 /\ r \in 1..n - 1
  BY <1>1
<1>6. \A k \in 0..n - 1 : e[a[k]] \in Int
  OBVIOUS
<1> HIDE DEF l, r
<1>7. CASE l < n - 1 /\ e[a[r]] < e[a[l]]
  <2>1. c = r
    BY <1>1, <1>2, <1>7
  <2> QED  BY <1>1, <1>3, <1>4, <1>5, <1>6, <1>7, <2>1
<1>8. CASE ~(l < n - 1 /\ e[a[r]] < e[a[l]])
  <2>1. c = l
    BY <1>1, <1>2, <1>8
  <2> QED  BY <1>1, <1>3, <1>4, <1>5, <1>6, <1>8, <2>1
<1> QED  BY <1>7, <1>8

(* percolate_down(hole) moves the timers along a path from hole, and puts  *)
(* in order what was in order but at the children of hole.                 *)
LEMMA PercolateDownIs ==
  ASSUME NEW n \in Nat, NEW a \in [0..n - 1 -> Timers],
         NEW e \in [Timers -> Int], NEW hole \in 0..n - 1,
         NEW path, path = DownPath(a, n, e, hole),
         NEW b, b = Slide(a, path, a[hole])
  PROVE  /\ path \in Seq(0..n - 1) /\ Len(path) > 0 /\ NoTwice(path)
         /\ Rotated(0..n - 1, a, b, path) /\ hole \in Holes(path)
         /\ \A lo \in 0..hole :
              InOrderBut(n, At(n, a, e), lo, hole)
                => InOrder(n, At(n, b, e), lo)
<1> DEFINE D    == 0..n - 1
           go   == DownGo(a, n, e, hole)
           next == DownNext(a, n, e)
           r    == [i \in D |-> n - 1 - i]
<1>1. IsWalk(D, go, next, path, hole)
  BY DownPathIs
<1>2. \A i \in go : /\ i \in D /\ 2 * i + 1 <= n - 1
                    /\ next[i] = Child(a, n, e, i)
                    /\ e[a[next[i]]] < e[a[hole]]
  BY DEF DownGo, DownNext
<1>3. \A i \in D : i \notin go => \/ ~(2 * i + 1 <= n - 1)
                                  \/ ~(e[a[Child(a, n, e, i)]] < e[a[hole]])
  BY DEF DownGo
<1>4. r \in [D -> 0..n - 1] /\ go \in SUBSET D
  BY <1>2
<1> HIDE DEF go, next
<1>5. \A i \in go : /\ next[i] \in 1..n - 1 /\ Par(next[i]) = i
                    /\ \A j \in 1..n - 1 : Par(j) = i =>
                                             e[a[next[i]]] <= e[a[j]]
  <2> SUFFICES ASSUME NEW i \in go
               PROVE  /\ next[i] \in 1..n - 1 /\ Par(next[i]) = i
                      /\ \A j \in 1..n - 1 : Par(j) = i =>
                                               e[a[next[i]]] <= e[a[j]]
    OBVIOUS
  <2> QED  BY <1>2, ChildIs
<1>6. \A i \in go : next[i] \in D /\ r[next[i]] < r[i]
  <2> SUFFICES ASSUME NEW i \in go PROVE next[i] \in D /\ r[next[i]] < r[i]
    OBVIOUS
  <2>1. i \in D /\ next[i] \in 1..n - 1 /\ Par(next[i]) = i
    BY <1>2, <1>5
  <2>2. next[i] \in D /\ i < next[i]
    BY <2>1, ParIs
  <2> QED  BY <2>1, <2>2
<1>7. /\ path \in Seq(D) /\ Len(path) \in Nat /\ Len(path) > 0
      /\ path[1] = hole /\ path[Len(path)] \notin go
      /\ \A k \in 1..Len(path) - 1 :
           path[k] \in go /\ path[k + 1] = next[path[k]]
      /\ \A k \in 1..Len(path) : path[k] \in D
  BY <1>1, LenProperties, ElementOfSeq DEF IsWalk
<1>8. \A k, l \in 1..Len(path) : k < l => path[k] < path[l]
  <2> HIDE DEF D, r
  <2>1. \A k, l \in 1..Len(path) : k < l => r[path[l]] < r[path[k]]
    BY <1>1, <1>4, <1>6, WalkDescends
  <2>2. \A i, j \in D : r[j] < r[i] => i < j
    BY DEF D, r
  <2> QED  BY <1>7, <2>1, <2>2
<1>9. NoTwice(path)
  <2>1. \A i, j \in D : i < j => i # j
    OBVIOUS
  <2> HIDE DEF D
  <2> QED  BY <1>7, <1>8, <2>1 DEF NoTwice
<1>10. Rotated(D, a, b, path)
  <2>1. DOMAIN a = D
    OBVIOUS
  <2>2. Holes(path) \subseteq D
    BY <1>7 DEF Holes
  <2>3. Slid(a, a[hole], path, b)
    <3> HIDE DEF D
    <3>1. path \in Seq(D) /\ Len(path) \in Nat /\ Len(path) > 0
      BY <1>7
    <3>2. b = Slide(a, path, a[hole])
      OBVIOUS
    <3> QED  BY <1>9, <3>1, <3>2, SlideIs
  <2> HIDE DEF D
  <2> QED  BY <1>7, <2>1, <2>2, <2>3 DEF Rotated, Slid
<1>11. ASSUME NEW lo \in 0..hole, InOrderBut(n, At(n, a, e), lo, hole)
       PROVE  InOrder(n, At(n, b, e), lo)
  <2> DEFINE v == At(n, a, e)
             w == At(n, b, e)
  <2>0. v = [i \in D |-> e[a[i]]] /\ w = [i \in D |-> e[b[i]]]
    BY DEF At
  <2> HIDE DEF v, w
  <2>1. v \in [D -> Int]
    BY <2>0
  <2>2. \A j \in 1..n - 1 : j \in D /\ Par(j) \in D
    BY ParIs
  <2>3. hole \in D /\ (hole > 0 => Par(hole) \in D)
    BY ParIs
  <2>4. Rotated(D, v, w, path)
    <3>1. \A k \in 1..Len(path) - 1 :
            k \in 1..Len(path) /\ k + 1 \in 1..Len(path)
      BY <1>7
    <3>2. 1 \in 1..Len(path) /\ Len(path) \in 1..Len(path)
      BY <1>7
    <3> HIDE DEF D
    <3> QED  BY <1>7, <1>10, <2>0, <3>1, <3>2 DEF Rotated
  <2>5. \A k \in 1..Len(path) - 1 :
          /\ path[k + 1] > 0 /\ Par(path[k + 1]) = path[k]
          /\ v[path[k + 1]] < v[hole]
          /\ \A j \in 1..n - 1 : Par(j) = path[k] => v[path[k + 1]] <= v[j]
    <3> SUFFICES ASSUME NEW k \in 1..Len(path) - 1
                 PROVE  /\ path[k + 1] > 0 /\ Par(path[k + 1]) = path[k]
                        /\ v[path[k + 1]] < v[hole]
                        /\ \A j \in 1..n - 1 : Par(j) = path[k] =>
                                                 v[path[k + 1]] <= v[j]
      OBVIOUS
    <3>1. path[k] \in go /\ path[k + 1] = next[path[k]]
      BY <1>7
    <3>2. path[k + 1] \in 1..n - 1 /\ path[k + 1] \in D /\ path[k + 1] > 0
      BY <1>5, <1>6, <3>1
    <3> HIDE DEF D
    <3> QED  BY <1>2, <1>5, <2>0, <2>2, <2>3, <3>1, <3>2
  <2>6. \A j \in 1..n - 1 : Par(j) = path[Len(path)] => v[hole] <= v[j]
    <3> SUFFICES ASSUME NEW j \in 1..n - 1, Par(j) = path[Len(path)]
                 PROVE  v[hole] <= v[j]
      OBVIOUS
    <3> DEFINE i == Par(j)
               c == Child(a, n, e, i)
    <3>a. i \in D /\ i \in Nat /\ i = path[Len(path)] /\ j > 0 /\ j \in Nat
      BY <2>2
    <3> HIDE DEF i
    <3>b. Par(j) = i
      BY DEF i
    <3>c. 2 * i + 1 <= j
      <4>1. j \in {2 * i + 1, 2 * i + 2}
        BY <3>a, <3>b, ParIs
      <4>2. i \in Nat
        BY <3>a
      <4> HIDE DEF D, c
      <4> QED  BY <4>1, <4>2
    <3>d. 2 * i + 1 <= n - 1
      BY <3>a, <3>c
    <3>1. i \in D /\ 2 * i + 1 <= n - 1 /\ i \notin go
      BY <1>7, <3>a, <3>d
    <3>2. c \in 1..n - 1 /\ e[a[c]] <= e[a[j]]
      BY <3>1, <3>b, ChildIs
    <3>3. ~(e[a[c]] < e[a[hole]])
      BY <1>3, <3>1
    <3> HIDE DEF c
    <3>4. v[c] <= v[j] /\ ~(v[c] < v[hole]) /\ c \in D
      BY <2>0, <2>2, <2>3, <3>2, <3>3
    <3>5. v[c] \in Int /\ v[j] \in Int /\ v[hole] \in Int
      BY <2>1, <2>2, <2>3, <3>4
    <3> QED  BY <3>4, <3>5
  <2>7. GoesDown(n, v, hole, path)
    BY <1>7, <1>8, <2>5, <2>6 DEF GoesDown
  <2>8. InOrderBut(n, v, lo, hole)
    BY <1>11 DEF v
  <2>9. InOrder(n, w, lo)
    BY <1>7, <2>1, <2>4, <2>7, <2>8, DownOrders
  <2> QED  BY <2>9 DEF w
<1>12. hole \in Holes(path)
  <2>1. 1 \in 1..Len(path)
    BY <1>7
  <2> QED  BY <1>7, <2>1 DEF Holes
<1> QED  BY <1>7, <1>9, <1>10, <1>11, <1>12

(* The array with a new timer in the place after the last.                 *)
With(n, a, t) == [i \in 0..n |-> IF i = n THEN t ELSE a[i]]

(* add_timer puts the new timer where it belongs.                          *)
LEMMA WayUpIs ==
  ASSUME NEW n \in Nat, NEW a \in [0..n - 1 -> Timers],
         NEW e \in [Timers -> Int], NEW d \in Int, NEW t \in Timers,
         \A i \in 0..n - 1 : a[i] # t,
         NEW path, path = UpPath(a, e, d, n),
         NEW b, b = Slide(a, path, t), NEW f, f = [e EXCEPT ![t] = d]
  PROVE  /\ path \in Seq(0..n) /\ Len(path) > 0 /\ NoTwice(path)
         /\ Rotated(0..n, With(n, a, t), b, path) /\ n \in Holes(path)
         /\ InOrder(n, At(n, a, e), 0) => InOrder(n + 1, At(n + 1, b, f), 0)
<1> DEFINE D    == 0..n
           go   == UpGo(a, e, d, n)
           next == UpNext(n)
           r    == [i \in D |-> i]
           A    == With(n, a, t)
<1>1. IsWalk(D, go, next, path, n)
  BY UpPathIs
<1>2. \A i \in go : /\ i \in D /\ i > 0 /\ next[i] = Par(i)
                    /\ e[a[Par(i)]] > d
  BY DEF UpGo, UpNext, Par
<1>3. \A i \in D : i \notin go => i = 0 \/ ~(e[a[Par(i)]] > d)
  BY DEF UpGo, Par
<1>4. r \in [D -> 0..n] /\ go \in SUBSET D /\ n + 1 \in Nat /\ (n + 1) - 1 = n
  BY <1>2
<1> HIDE DEF go, next
<1>5. \A i \in D : i > 0 => Par(i) \in 0..n - 1 /\ Par(i) \in D /\ Par(i) < i
  BY ParIs
<1>6. \A i \in go : next[i] \in D /\ r[next[i]] < r[i]
  BY <1>2, <1>5
<1>7. /\ path \in Seq(D) /\ Len(path) \in Nat /\ Len(path) > 0
      /\ path[1] = n /\ path[Len(path)] \notin go
      /\ \A k \in 1..Len(path) - 1 :
           path[k] \in go /\ path[k + 1] = next[path[k]]
      /\ \A k \in 1..Len(path) : path[k] \in D
  BY <1>1, LenProperties, ElementOfSeq DEF IsWalk
<1>8. \A k, l \in 1..Len(path) : k < l => path[l] < path[k]
  <2>1. r \in [D -> 0..(n + 1) - 1]
    BY <1>4
  <2> HIDE DEF D, r
  <2>2. \A k, l \in 1..Len(path) : k < l => r[path[l]] < r[path[k]]
    BY <1>1, <1>4, <1>6, <2>1, WalkDescends
  <2>3. \A i \in D : r[i] = i
    BY DEF D, r
  <2> QED  BY <1>7, <2>2, <2>3
<1>9. NoTwice(path)
  <2>1. \A i, j \in D : i < j => i # j
    OBVIOUS
  <2> HIDE DEF D
  <2> QED  BY <1>7, <1>8, <2>1 DEF NoTwice
<1>10. \A k \in 1..Len(path) - 1 : k \in 1..Len(path) /\ k + 1 \in 1..Len(path)
  BY <1>7
<1>11. 1 \in 1..Len(path) /\ Len(path) \in 1..Len(path)
  BY <1>7
<1>12. A[n] = t /\ \A i \in 0..n - 1 : A[i] = a[i]
  BY DEF With
<1>13. Rotated(D, A, b, path)
  <2>1. DOMAIN a = 0..n - 1 /\ n \in Holes(path)
    BY <1>7, <1>11 DEF Holes
  <2>2. Holes(path) \subseteq D
    BY <1>7 DEF Holes
  <2>3. Slid(a, t, path, b)
    <3> HIDE DEF D
    <3>1. path \in Seq(D) /\ Len(path) \in Nat /\ Len(path) > 0
      BY <1>7
    <3>2. b = Slide(a, path, t)
      OBVIOUS
    <3> QED  BY <1>9, <3>1, <3>2, SlideIs
  <2>4. (0..n - 1) \cup Holes(path) = D
    BY <2>1, <2>2
  <2>5. \A i \in D \ Holes(path) : i \in 0..n - 1
    BY <2>1
  <2>6. \A k \in 1..Len(path) - 1 : path[k + 1] \in 0..n - 1
    <3> SUFFICES ASSUME NEW k \in 1..Len(path) - 1
                 PROVE  path[k + 1] \in 0..n - 1
      OBVIOUS
    <3>1. path[k] \in go /\ path[k + 1] = next[path[k]]
      BY <1>7
    <3> HIDE DEF D
    <3> QED  BY <1>2, <1>5, <3>1
  <2> HIDE DEF A, D
  <2> QED  BY SMTT(30), <1>7, <1>12, <2>1, <2>3, <2>4, <2>5, <2>6
          DEF Rotated, Slid
<1>14. ASSUME InOrder(n, At(n, a, e), 0)
       PROVE  InOrder(n + 1, At(n + 1, b, f), 0)
  <2> DEFINE v == [i \in D |-> f[A[i]]]
             w == At(n + 1, b, f)
  <2>1. v = [i \in D |-> f[A[i]]] /\ w = [i \in D |-> f[b[i]]]
    BY <1>4 DEF At
  <2>2. v[n] = d /\ \A i \in 0..n - 1 : v[i] = e[a[i]] /\ v[i] = At(n, a, e)[i]
    BY <1>12 DEF At
  <2>3. v \in [D -> Int]
    <3>1. \A i \in D : i = n \/ i \in 0..n - 1
      OBVIOUS
    <3>2. \A i \in 0..n - 1 : e[a[i]] \in Int
      OBVIOUS
    <3> HIDE DEF A, D
    <3> QED  BY <2>2, <3>1, <3>2
  <2> HIDE DEF A, v, w
  <2>4. InOrder(n, v, 0)
    <3>1. \A j \in 1..n - 1 : Par(j) \in 0..n - 1 /\ j \in 0..n - 1
      BY ParIs
    <3> QED  BY <1>14, <2>2, <3>1 DEF InOrder
  <2>5. Rotated(D, v, w, path)
    <3> HIDE DEF D
    <3>1. \A k \in 1..Len(path) - 1 : path[k] \in D /\ path[k + 1] \in D
      BY <1>7, <1>10
    <3>2. path[1] \in D /\ path[Len(path)] \in D
      BY <1>7, <1>11
    <3>3. \A k \in 1..Len(path) - 1 : w[path[k]] = v[path[k + 1]]
      BY <1>13, <2>1, <3>1 DEF Rotated
    <3>4. w[path[Len(path)]] = v[path[1]]
      BY <1>13, <2>1, <3>2 DEF Rotated
    <3>5. DOMAIN w = D /\ \A i \in D \ Holes(path) : w[i] = v[i]
      BY <1>13, <2>1 DEF Rotated
    <3> QED  BY <3>3, <3>4, <3>5 DEF Rotated
  <2>6. GoesUp(n, v, path)
    <3>1. ASSUME NEW k \in 1..Len(path) - 1
          PROVE  /\ path[k] > 0 /\ path[k + 1] = Par(path[k])
                 /\ v[path[k + 1]] > v[n]
      <4>1. path[k] \in go /\ path[k + 1] = next[path[k]]
        BY <1>7
      <4>2. path[k] > 0 /\ path[k + 1] = Par(path[k])
            /\ path[k + 1] \in 0..n - 1
        BY <1>2, <1>5, <4>1
      <4> QED  BY <1>2, <2>2, <4>1, <4>2
    <3>2. ASSUME path[Len(path)] > 0
          PROVE  v[Par(path[Len(path)])] <= v[n]
      <4> DEFINE i == path[Len(path)]
      <4>1. i \in D /\ i > 0 /\ i \notin go
        BY <1>7, <1>11, <3>2
      <4> HIDE DEF i
      <4>2. ~(e[a[Par(i)]] > d) /\ Par(i) \in 0..n - 1
        BY <1>3, <1>5, <4>1
      <4>3. v[Par(i)] = e[a[Par(i)]] /\ e[a[Par(i)]] \in Int
        BY <2>2, <4>2
      <4> QED  BY <2>2, <4>2, <4>3 DEF i
    <3> QED  BY <1>7, <1>8, <3>1, <3>2 DEF GoesUp
  <2> QED  BY <1>7, <2>3, <2>4, <2>5, <2>6, UpOrders DEF w
<1>15. n \in Holes(path)
  BY <1>7, <1>11 DEF Holes
<1> QED  BY <1>7, <1>9, <1>13, <1>14, <1>15
-----------------------------------------------------------------------------
(* The heap, and what each operation makes of it.                          *)

(* The inductive invariant: the order needs the places, for a timer is     *)
(* moved from index[t] down; and the capacity must be positive, or doubling*)
(* it would make no room.                                                  *)
HeapInv == IndexRight /\ HeapOrdered /\ capacity \in Nat \ {0}

(* The invariant in the form the operations use: no timer is in two places *)
(* because index has one value for it.                                     *)
LEMMA HeapInvIs ==
  ASSUME HeapInv
  PROVE  /\ cur_size \in Nat /\ cur_size <= capacity
         /\ capacity \in Nat /\ capacity > 0
         /\ array \in [0..cur_size - 1 -> Timers]
         /\ expire \in [Timers -> Times] /\ expire \in [Timers -> Int]
         /\ cb_func \in [Timers -> BOOLEAN] /\ index \in [Timers -> Nat]
         /\ \A i \in 0..cur_size - 1 : index[array[i]] = i
         /\ Injective(0..cur_size - 1, array)
         /\ InOrder(cur_size, At(cur_size, array, expire), 0)
<1>1. /\ cur_size \in 0..capacity /\ capacity \in Nat \ {0}
      /\ array \in [0..cur_size - 1 -> Timers]
      /\ expire \in [Timers -> Times]
      /\ cb_func \in [Timers -> BOOLEAN] /\ index \in [Timers -> Nat]
      /\ \A i \in 0..cur_size - 1 : index[array[i]] = i
  BY DEF HeapInv, IndexRight, HeapTypeOK
<1>2. expire \in [Timers -> Int]
  BY <1>1, HeapAssumption
<1>3. InOrder(cur_size, At(cur_size, array, expire), 0)
  <2> SUFFICES ASSUME NEW j \in 1..cur_size - 1
               PROVE  At(cur_size, array, expire)[Par(j)]
                        <= At(cur_size, array, expire)[j]
    BY DEF InOrder
  <2>1. j \in 0..cur_size - 1 /\ Par(j) \in 0..cur_size - 1
    BY <1>1, ParIs
  <2>2. expire[array[Par(j)]] <= expire[array[j]]
    BY DEF HeapInv, HeapOrdered, Par
  <2> QED  BY <2>1, <2>2 DEF At
<1>4. Injective(0..cur_size - 1, array)
  BY <1>1 DEF Injective
<1>5. cur_size \in Nat /\ cur_size <= capacity /\ capacity \in Nat
  BY <1>1
<1> QED  BY <1>1, <1>2, <1>3, <1>4, <1>5

(* What the first n places of an array b and the places g known to the     *)
(* timers are after timers have moved: the timers of a, each at the place  *)
(* it knows.                                                               *)
Placed(n, b, g) ==
  /\ b \in [0..n - 1 -> Timers] /\ g \in [Timers -> Nat]
  /\ \A i \in 0..n - 1 : g[b[i]] = i
SameTimers(n, a, b) == {b[i] : i \in 0..n - 1} = {a[i] : i \in 0..n - 1}

(* What an operation has to establish.                                     *)
LEMMA HeapInvNext ==
  ASSUME NEW n \in Nat, cur_size' = n, n <= capacity', capacity' \in Nat,
         capacity' > 0, expire' \in [Timers -> Times],
         cb_func' \in [Timers -> BOOLEAN], Placed(n, array', index'),
         InOrder(n, At(n, array', expire'), 0)
  PROVE  HeapInv'
<1> USE DEF Placed
<1>0. cur_size' \in 0..capacity'
  OBVIOUS
<1>1. HeapTypeOK'
  BY <1>0 DEF HeapTypeOK
<1>2. ASSUME NEW j \in 1..cur_size' - 1
      PROVE  expire'[array'[(j - 1) \div 2]] <= expire'[array'[j]]
  <2>1. j \in 0..cur_size' - 1 /\ Par(j) \in 0..cur_size' - 1 /\ Par(j) >= 0
    BY ParInHeap
  <2>2. At(cur_size', array', expire')[Par(j)]
          <= At(cur_size', array', expire')[j]
    BY <2>1 DEF InOrder
  <2> QED  BY <2>1, <2>2 DEF At, Par
<1> QED  BY <1>1, <1>2 DEF HeapInv, IndexRight, HeapOrdered

(* The timer at the top is due first.                                      *)
LEMMA TopIsFirst ==
  ASSUME HeapInv, cur_size > 0
  PROVE  Top \in InHeap /\ \A t \in InHeap : expire[Top] <= expire[t]
<1> DEFINE n == cur_size
           v == At(n, array, expire)
           S == {i \in 0..n - 1 : ~(v[0] <= v[i])}
<1>1. n \in Nat /\ n > 0 /\ InOrder(n, v, 0)
  BY HeapInvIs
<1>2. \A i \in 0..n - 1 : v[i] = expire[array[i]] /\ v[i] \in Int
  BY HeapInvIs DEF At
<1> HIDE DEF v, n
<1>3. S = {}
  <2> SUFFICES ASSUME S # {} PROVE FALSE
    OBVIOUS
  <2>1. PICK j \in S : \A i \in S : j <= i
    <3>1. S \subseteq Nat
      BY <1>1
    <3> HIDE DEF S
    <3> QED  BY <3>1, LeastNumber
  <2>2. j \in 0..n - 1 /\ j \in Nat /\ ~(v[0] <= v[j]) /\ 0 \in 0..n - 1
    BY <1>1
  <2>3. j # 0 /\ j \in 1..n - 1
    BY <1>1, <1>2, <2>2
  <2>4. Par(j) \in 0..n - 1 /\ Par(j) < j /\ Par(j) >= 0
    <3>1. Par(j) \in Nat /\ Par(j) < j
      BY <2>2, <2>3, ParIs
    <3> QED  BY <1>1, <2>2, <3>1
  <2>5. v[Par(j)] <= v[j]
    BY <1>1, <2>3, <2>4 DEF InOrder
  <2>6. Par(j) \notin S
    <3> HIDE DEF S
    <3> QED  BY <1>1, <2>1, <2>2, <2>4
  <2>7. v[0] <= v[Par(j)]
    BY <2>4, <2>6
  <2>8. v[0] \in Int /\ v[j] \in Int /\ v[Par(j)] \in Int
    BY <1>2, <2>2, <2>4
  <2> QED  BY <2>2, <2>5, <2>7, <2>8
<1>4. 0 \in 0..n - 1
  BY <1>1
<1>5. Top \in InHeap
  BY <1>4 DEF Top, InHeap, n
<1> QED  BY <1>2, <1>3, <1>4, <1>5 DEF Top, InHeap, n

(* add_timer of a new timer.                                               *)
LEMMA AddTimerIs ==
  ASSUME HeapInv, NEW t \in Timers \ InHeap, NEW d \in Times, AddTimer(t, d)
  PROVE  HeapInv' /\ InHeap' = InHeap \cup {t}
<1> DEFINE n    == cur_size
           path == UpPath(array, expire, d, n)
           A    == With(n, array, t)
<1>1. /\ n \in Nat /\ n <= capacity /\ capacity \in Nat /\ capacity > 0
      /\ array \in [0..n - 1 -> Timers]
      /\ expire \in [Timers -> Times] /\ expire \in [Timers -> Int]
      /\ cb_func \in [Timers -> BOOLEAN] /\ index \in [Timers -> Nat]
      /\ \A i \in 0..n - 1 : index[array[i]] = i
      /\ Injective(0..n - 1, array)
      /\ InOrder(n, At(n, array, expire), 0)
  BY HeapInvIs
<1>2. /\ capacity' = IF n >= capacity THEN 2 * capacity ELSE capacity
      /\ cur_size' = n + 1
      /\ array' = Slide(array, path, t)
      /\ expire' = [expire EXCEPT ![t] = d]
      /\ cb_func' = [cb_func EXCEPT ![t] = TRUE]
      /\ index' = Reindex(array', path)
  BY DEF AddTimer
<1>3. d \in Int /\ \A i \in 0..n - 1 : array[i] # t
  BY HeapAssumption DEF InHeap
<1> HIDE DEF path, n
<1>4. /\ path \in Seq(0..n) /\ Len(path) > 0 /\ NoTwice(path)
      /\ Rotated(0..n, A, array', path) /\ n \in Holes(path)
      /\ InOrder(n + 1, At(n + 1, array', expire'), 0)
  BY <1>1, <1>2, <1>3, WayUpIs DEF path
<1>5. A \in [0..n -> Timers] /\ Injective(0..n, A)
  <2>1. \A i \in 0..n : i # n => i \in 0..n - 1
    BY <1>1
  <2> QED  BY <1>1, <1>3, <2>1 DEF With, Injective
<1>6. {A[i] : i \in 0..n} = InHeap \cup {t}
  <2>1. \A i \in 0..n : i = n \/ i \in 0..n - 1
    BY <1>1
  <2>2. n \in 0..n /\ \A i \in 0..n - 1 : i \in 0..n /\ i # n
    BY <1>1
  <2>3. A[n] = t /\ \A i \in 0..n - 1 : A[i] = array[i]
    BY <2>2 DEF With
  <2>4. InHeap = {array[i] : i \in 0..n - 1}
    BY DEF InHeap, n
  <2> HIDE DEF A
  <2> QED  BY <2>1, <2>2, <2>3, <2>4
<1> HIDE DEF A
<1>7. /\ {array'[i] : i \in 0..n} = InHeap \cup {t}
      /\ Injective(0..n, array')
  <2>1. Permuted(0..n, A, array')
    BY <1>4, RotatedPermutes
  <2> QED  BY <1>5, <1>6, <2>1 DEF Permuted
<1>8. array' \in [0..n -> Timers]
  <2>1. InHeap \cup {t} \subseteq Timers
    BY <1>1 DEF InHeap, n
  <2>2. \A i \in 0..n : array'[i] \in Timers
    BY <1>7, <2>1
  <2>3. DOMAIN array' = 0..n
    BY <1>4 DEF Rotated
  <2>4. array' = [i \in DOMAIN array' |-> array'[i]]
    BY <1>2 DEF Slide
  <2> QED  BY <2>2, <2>3, <2>4
<1>9. ASSUME NEW i \in (0..n) \ Holes(path) PROVE index[array'[i]] = i
  <2>1. array'[i] = A[i]
    BY <1>4 DEF Rotated
  <2>3. i \in 0..n - 1 /\ i # n
    BY <1>1, <1>4
  <2> QED  BY <1>1, <2>1, <2>3 DEF A, With
<1>10. Knows(0..n, array', index')
  BY <1>2, <1>4, <1>7, <1>8, <1>9, ReindexIs
<1>11. index' \in [Timers -> Nat]
  <2>1. \A u \in Timers : index'[u] \in Nat
    BY <1>1, <1>10 DEF Knows
  <2> QED  BY <1>10, <2>1 DEF Knows
<1>12. cur_size' - 1 = n /\ cur_size' \in Nat /\ cur_size' <= capacity'
       /\ capacity' \in Nat \ {0}
  BY <1>1, <1>2
<1>13. expire' \in [Timers -> Times] /\ cb_func' \in [Timers -> BOOLEAN]
  BY <1>1, <1>2
<1>14. HeapInv'
  <2>1. (n + 1) - 1 = n /\ n + 1 \in Nat /\ n + 1 <= capacity'
    BY <1>1, <1>2, <1>12
  <2>2. Placed(n + 1, array', index')
    BY <1>8, <1>10, <1>11, <2>1 DEF Knows, Placed
  <2> DEFINE m == n + 1
  <2>3. m \in Nat /\ cur_size' = m /\ m <= capacity' /\ capacity' \in Nat
        /\ capacity' > 0
    BY <1>2, <1>12, <2>1
  <2>4. Placed(m, array', index') /\ InOrder(m, At(m, array', expire'), 0)
    BY <1>4, <2>2
  <2> HIDE DEF m
  <2> QED  BY <1>13, <2>3, <2>4, HeapInvNext
<1>15. InHeap' = {array'[i] : i \in 0..n}
  BY <1>12 DEF InHeap
<1> QED  BY <1>7, <1>14, <1>15

(* percolate_down from hole in an array where the others know their places.*)
LEMMA SiftedIs ==
  ASSUME NEW n \in Nat, NEW a \in [0..n - 1 -> Timers],
         NEW e \in [Timers -> Int], NEW hole \in 0..n - 1,
         Injective(0..n - 1, a), index \in [Timers -> Nat],
         \A i \in 0..n - 1 : i # hole => index[a[i]] = i,
         NEW path, path = DownPath(a, n, e, hole),
         NEW b, b = Slide(a, path, a[hole])
  PROVE  SameTimers(n, a, b) /\ Placed(n, b, Reindex(b, path))
<1> DEFINE D == 0..n - 1
           g == Reindex(b, path)
<1>1. /\ path \in Seq(D) /\ Len(path) > 0 /\ NoTwice(path)
      /\ Rotated(D, a, b, path) /\ hole \in Holes(path)
  BY PercolateDownIs
<1>2. b = [i \in DOMAIN b |-> b[i]]
  BY DEF Slide
<1>3. a \in [D -> Timers] /\ Injective(D, a) /\ D \subseteq Nat
  OBVIOUS
<1>4. \A i \in D : i # hole => index[a[i]] = i
  OBVIOUS
<1> HIDE DEF D
<1>5. Permuted(D, a, b)
  BY <1>1, RotatedPermutes
<1>6. /\ {b[i] : i \in D} = {a[i] : i \in D}
      /\ Injective(D, b)
  BY <1>3, <1>5 DEF Permuted
<1>7. b \in [D -> Timers]
  <2>1. ASSUME NEW i \in D PROVE b[i] \in Timers
    <3>1. b[i] \in {a[j] : j \in D}
      BY <1>6
    <3> QED  BY <1>3, <3>1
  <2>2. DOMAIN b = D
    BY <1>1 DEF Rotated
  <2> QED  BY <1>2, <2>1, <2>2
<1>8. \A i \in D \ Holes(path) : index[b[i]] = i
  BY SMTT(30), <1>1, <1>4 DEF Rotated
<1>9. Knows(D, b, g)
  BY <1>1, <1>6, <1>7, <1>8, ReindexIs
<1> HIDE DEF g
<1>10. g \in [Timers -> Nat]
  <2>1. \A u \in Timers : g[u] \in Nat
    BY <1>3, <1>9 DEF Knows
  <2> QED  BY <1>9, <2>1 DEF Knows
<1> QED  BY <1>6, <1>7, <1>9, <1>10 DEF Knows, D, g, SameTimers, Placed

(* A timer is moved to a later time.                                       *)
LEMMA AdjustTimerIs ==
  ASSUME HeapInv, NEW t \in InHeap, NEW d \in Times, d >= expire[t],
         AdjustTimer(t, d)
  PROVE  HeapInv' /\ InHeap' = InHeap
<1> DEFINE n    == cur_size
           hole == index[t]
           e    == [expire EXCEPT ![t] = d]
           path == DownPath(array, n, e, hole)
           v    == At(n, array, expire)
           u    == At(n, array, e)
<1>1. /\ n \in Nat /\ n <= capacity /\ capacity \in Nat /\ capacity > 0
      /\ array \in [0..n - 1 -> Timers]
      /\ expire \in [Timers -> Times] /\ expire \in [Timers -> Int]
      /\ cb_func \in [Timers -> BOOLEAN] /\ index \in [Timers -> Nat]
      /\ \A i \in 0..n - 1 : index[array[i]] = i
      /\ Injective(0..n - 1, array)
      /\ InOrder(n, v, 0)
  BY HeapInvIs
<1>2. /\ expire' = e
      /\ array' = Slide(array, path, array[hole])
      /\ index' = Reindex(array', path)
      /\ UNCHANGED <<capacity, cur_size, cb_func>>
  BY DEF AdjustTimer
<1>3. /\ hole \in 0..n - 1 /\ array[hole] = t /\ t \in Timers
      /\ \A i \in 0..n - 1 : i # hole => array[i] # t
  <2>1. PICK i \in 0..n - 1 : array[i] = t
    BY DEF InHeap
  <2> QED  BY <1>1, <2>1 DEF Injective
<1>4. e \in [Timers -> Times] /\ e \in [Timers -> Int] /\ d \in Int
  BY <1>1, HeapAssumption
<1>5. \A i \in 0..n - 1 : /\ v[i] = expire[array[i]] /\ v[i] \in Int
                          /\ u[i] = IF i = hole THEN d ELSE v[i]
  BY <1>1, <1>3 DEF At
<1>6. d >= v[hole]
  BY <1>3, <1>5
<1> HIDE DEF path, e, v, u, hole, n
<1>7. InOrderBut(n, u, 0, hole)
  <2>1. ASSUME NEW j \in 1..n - 1, Par(j) # hole PROVE u[Par(j)] <= u[j]
    <3>1. j \in 0..n - 1 /\ Par(j) \in 0..n - 1 /\ Par(j) >= 0
      BY <1>1, ParInHeap
    <3>2. v[Par(j)] <= v[j]
      BY <1>1, <3>1 DEF InOrder
    <3>3. v[Par(j)] \in Int /\ v[j] \in Int /\ u[Par(j)] = v[Par(j)]
      BY <1>5, <2>1, <3>1
    <3>4. CASE j = hole
      <4>1. u[j] = d
        BY <1>5, <3>1, <3>4
      <4> QED  BY <1>4, <1>6, <3>2, <3>3, <3>4, <4>1
    <3>5. CASE j # hole
      <4>1. u[j] = v[j]
        BY <1>5, <3>1, <3>5
      <4> QED  BY <3>2, <3>3, <4>1
    <3> QED  BY <3>4, <3>5
  <2>2. ASSUME hole > 0, NEW j \in 1..n - 1, Par(j) = hole
        PROVE  u[Par(hole)] <= u[j]
    <3>1. j \in 0..n - 1 /\ Par(j) < j /\ hole \in 1..n - 1 /\ Par(j) >= 0
          /\ j # hole
      BY <1>1, <1>3, <2>2, ParInHeap
    <3>2. Par(hole) \in 0..n - 1 /\ Par(hole) < hole /\ Par(hole) >= 0
          /\ Par(hole) # hole
      <4>1. Par(hole) \in 0..n - 1 /\ Par(hole) < hole /\ Par(hole) >= 0
        BY <1>1, <3>1, ParInHeap
      <4> QED  BY <3>1, <4>1
    <3>3. v[Par(hole)] <= v[hole] /\ v[hole] <= v[j]
      BY <1>1, <2>2, <3>1, <3>2 DEF InOrder
    <3>4. u[Par(hole)] = v[Par(hole)] /\ u[j] = v[j]
      BY <1>5, <3>1, <3>2
    <3>5. v[Par(hole)] \in Int /\ v[hole] \in Int /\ v[j] \in Int
      BY <1>3, <1>5, <3>1, <3>2
    <3> QED  BY <3>3, <3>4, <3>5
  <2> QED  BY <2>1, <2>2 DEF InOrderBut
<1>8. InOrder(n, At(n, array', e), 0)
  <2>1. 0 \in 0..hole
    BY <1>3
  <2>2. \A lo \in 0..hole :
          InOrderBut(n, At(n, array, e), lo, hole)
            => InOrder(n, At(n, array', e), lo)
    BY <1>1, <1>2, <1>3, <1>4, PercolateDownIs DEF path
  <2> QED  BY <1>7, <2>1, <2>2 DEF u
<1>9. SameTimers(n, array, array') /\ Placed(n, array', index')
  <2>1. \A i \in 0..n - 1 : i # hole => index[array[i]] = i
    BY <1>1
  <2> QED  BY <1>1, <1>2, <1>3, <1>4, <2>1, SiftedIs DEF path
<1>10. InHeap' = InHeap
  BY <1>2, <1>9 DEF InHeap, SameTimers, n
<1>11. HeapInv'
  <2>1. cur_size' = n /\ capacity' = capacity /\ expire' = e
        /\ cb_func' = cb_func
    BY <1>2 DEF n
  <2> QED  BY <1>1, <1>4, <1>8, <1>9, <2>1, HeapInvNext
<1> QED  BY <1>10, <1>11

(* A timer is deleted.                                                     *)
LEMMA DelTimerIs ==
  ASSUME HeapInv, NEW t, DelTimer(t)
  PROVE  HeapInv' /\ InHeap' = InHeap
<1>1. /\ cb_func' = [cb_func EXCEPT ![t] = FALSE]
      /\ UNCHANGED <<array, capacity, cur_size, expire, index>>
  BY DEF DelTimer
<1>2. cb_func' \in [Timers -> BOOLEAN]
  BY <1>1, HeapInvIs
<1> QED
  BY <1>1, <1>2 DEF HeapInv, IndexRight, HeapTypeOK, HeapOrdered, InHeap

(* The timer at the top leaves, the last one takes its place and sinks.    *)
LEMMA PopTimerIs ==
  ASSUME HeapInv, PopTimer
  PROVE  HeapInv' /\ InHeap' = InHeap \ {Top}
<1> DEFINE n    == cur_size - 1
           rest == [i \in 0..n - 1 |-> IF i = 0 THEN array[n] ELSE array[i]]
           path == SinkPath(rest, n)
<1>1. /\ cur_size \in Nat /\ cur_size <= capacity
      /\ capacity \in Nat /\ capacity > 0
      /\ array \in [0..cur_size - 1 -> Timers]
      /\ expire \in [Timers -> Times] /\ expire \in [Timers -> Int]
      /\ cb_func \in [Timers -> BOOLEAN] /\ index \in [Timers -> Nat]
      /\ \A i \in 0..cur_size - 1 : index[array[i]] = i
      /\ Injective(0..cur_size - 1, array)
      /\ InOrder(cur_size, At(cur_size, array, expire), 0)
  BY HeapInvIs
<1>2. /\ cur_size > 0 /\ cur_size' = n
      /\ array' = IF n = 0 THEN rest ELSE Slide(rest, path, rest[0])
      /\ index' = IF n = 0 THEN [index EXCEPT ![Top] = 0]
                           ELSE Reindex(array', path)
      /\ UNCHANGED <<capacity, expire, cb_func>>
  BY DEF PopTimer
<1>3. n \in Nat /\ n <= capacity /\ cur_size = n + 1
  BY <1>1, <1>2
<1>4. /\ DOMAIN rest = 0..n - 1
      /\ \A i \in 0..n - 1 : rest[i] = IF i = 0 THEN array[n] ELSE array[i]
  OBVIOUS
<1>5. /\ n \in 0..cur_size - 1
      /\ \A i \in 0..n - 1 : i \in 0..cur_size - 1 /\ i # n
  BY <1>1, <1>2
<1>6. rest \in [0..n - 1 -> Timers]
  <2>1. array[n] \in Timers /\ \A i \in 0..n - 1 : array[i] \in Timers
    BY <1>1, <1>5
  <2> QED  BY <2>1
<1>7. Injective(0..n - 1, rest)
  <2> HIDE DEF rest
  <2> QED  BY <1>1, <1>4, <1>5 DEF Injective
<1>8. {rest[i] : i \in 0..n - 1} = InHeap \ {Top}
  <2>0. \A i \in 0..cur_size - 1 : i = n \/ i \in 0..n - 1
    BY <1>3
  <2>1. n # 0 => 0 \in 0..n - 1 /\ rest[0] = array[n]
    BY <1>3, <1>4
  <2>2. 0 \in 0..cur_size - 1
    BY <1>1, <1>2
  <2> HIDE DEF rest, n
  <2>3. ASSUME NEW i \in 0..n - 1
        PROVE  rest[i] \in InHeap /\ rest[i] # array[0]
    <3>1. CASE i = 0
      BY <1>1, <1>4, <1>5, <2>2, <2>3, <3>1 DEF InHeap, Injective
    <3>2. CASE i # 0
      BY <1>1, <1>4, <1>5, <2>2, <2>3, <3>2 DEF InHeap, Injective
    <3> QED  BY <3>1, <3>2
  <2>4. ASSUME NEW i \in 0..cur_size - 1, array[i] # array[0]
        PROVE  \E j \in 0..n - 1 : rest[j] = array[i]
    <3>1. CASE i = n
      <4>1. n # 0
        BY <2>4, <3>1
      <4> QED  BY <2>1, <3>1, <4>1
    <3>2. CASE i # n
      BY <1>4, <2>0, <2>4, <3>2
    <3> QED  BY <3>1, <3>2
  <2> QED  BY <2>3, <2>4 DEF InHeap, Top
<1>9. \A i \in 0..n - 1 : i # 0 => index[rest[i]] = i
  <2> HIDE DEF rest
  <2> QED  BY <1>1, <1>4, <1>5
<1> HIDE DEF rest, n
<1>10. CASE n = 0
  <2>1. array' = rest /\ index' = [index EXCEPT ![Top] = 0]
    BY <1>2, <1>10
  <2>4. index' \in [Timers -> Nat]
    BY <1>1, <2>1
  <2>5. 0..n - 1 = {} /\ 1..n - 1 = {}
    BY <1>10
  <2>6. InOrder(n, At(n, array', expire'), 0)
    BY <2>5 DEF InOrder
  <2>7. Placed(n, array', index')
    BY <1>6, <2>1, <2>4, <2>5 DEF Placed
  <2>8. HeapInv'
    BY <1>1, <1>2, <1>3, <2>6, <2>7, HeapInvNext
  <2>9. InHeap' = {rest[i] : i \in 0..n - 1}
    BY <1>2, <2>1 DEF InHeap
  <2> QED  BY <1>8, <2>8, <2>9
<1>11. CASE n # 0
  <2>1. /\ path = DownPath(rest, n, expire, 0)
        /\ array' = Slide(rest, path, rest[0])
        /\ index' = Reindex(array', path)
    BY <1>2, <1>11 DEF SinkPath
  <2>2. 0 \in 0..n - 1
    BY <1>3, <1>11
  <2> HIDE DEF path
  <2>3. SameTimers(n, rest, array') /\ Placed(n, array', index')
    BY <1>1, <1>3, <1>6, <1>7, <1>9, <2>1, <2>2, SiftedIs
  <2>4. InOrderBut(n, At(n, rest, expire), 0, 0)
    <3>1. ASSUME NEW j \in 1..n - 1, Par(j) # 0
          PROVE  At(n, rest, expire)[Par(j)] <= At(n, rest, expire)[j]
      <4>1. j \in 0..n - 1 /\ Par(j) \in 0..n - 1 /\ Par(j) >= 0
            /\ j \in 1..cur_size - 1 /\ j # 0
        BY <1>3, ParInHeap
      <4>2. At(cur_size, array, expire)[Par(j)]
              <= At(cur_size, array, expire)[j]
        BY <1>1, <4>1 DEF InOrder
      <4>3. rest[j] = array[j] /\ rest[Par(j)] = array[Par(j)]
        BY <1>4, <3>1, <4>1
      <4> QED  BY <1>5, <4>1, <4>2, <4>3 DEF At
    <3> QED  BY <3>1 DEF InOrderBut
  <2>5. InOrder(n, At(n, array', expire), 0)
    <3>1. 0 \in 0..0
      OBVIOUS
    <3>2. \A lo \in 0..0 :
            InOrderBut(n, At(n, rest, expire), lo, 0)
              => InOrder(n, At(n, array', expire), lo)
      BY <1>1, <1>3, <1>6, <2>1, <2>2, PercolateDownIs
    <3> QED  BY <2>4, <3>1, <3>2
  <2>6. HeapInv'
    BY <1>1, <1>2, <1>3, <2>3, <2>5, HeapInvNext
  <2> QED  BY <1>2, <1>8, <2>3, <2>6 DEF InHeap, SameTimers
<1> QED  BY <1>10, <1>11
-----------------------------------------------------------------------------
(* The constructor.                                                        *)

(* b holds the timers of a, and the places from lo on are in order.        *)
Heaped(n, a, e, b, lo) ==
  /\ b \in [0..n - 1 -> Timers] /\ Injective(0..n - 1, b)
  /\ SameTimers(n, a, b) /\ InOrder(n, At(n, b, e), lo)

(* percolate_down(hole) when the places after hole are in order.           *)
LEMMA SinkIs ==
  ASSUME NEW n \in Nat, NEW a, NEW e \in [Timers -> Int],
         NEW hole \in 0..n - 1, NEW b, Heaped(n, a, e, b, hole + 1)
  PROVE  Heaped(n, a, e, PercolateDown(b, n, e, hole), hole)
<1> DEFINE D    == 0..n - 1
           path == DownPath(b, n, e, hole)
           c    == PercolateDown(b, n, e, hole)
<1>1. /\ b \in [0..n - 1 -> Timers] /\ Injective(D, b)
      /\ {b[i] : i \in D} = {a[i] : i \in D}
      /\ InOrder(n, At(n, b, e), hole + 1)
  BY DEF Heaped, SameTimers
<1>2. c = Slide(b, path, b[hole])
  BY DEF PercolateDown
<1> HIDE DEF path, c
<1>3. /\ path \in Seq(D) /\ Len(path) > 0 /\ NoTwice(path)
      /\ Rotated(D, b, c, path)
      /\ \A lo \in 0..hole :
           InOrderBut(n, At(n, b, e), lo, hole) => InOrder(n, At(n, c, e), lo)
  BY <1>1, <1>2, PercolateDownIs DEF path
<1>4. InOrderBut(n, At(n, b, e), hole, hole)
  <2>1. ASSUME NEW j \in 1..n - 1, Par(j) >= hole, Par(j) # hole
        PROVE  At(n, b, e)[Par(j)] <= At(n, b, e)[j]
    <3>1. Par(j) >= hole + 1
      <4>1. Par(j) \in 0..n - 1
        BY ParInHeap
      <4> QED  BY <2>1, <4>1
    <3> QED  BY <1>1, <3>1 DEF InOrder
  <2>2. hole > 0 => ~(Par(hole) >= hole)
    <3> SUFFICES ASSUME hole > 0 PROVE ~(Par(hole) >= hole)
      OBVIOUS
    <3>1. hole \in 1..n - 1
      OBVIOUS
    <3>2. Par(hole) \in 0..n - 1 /\ Par(hole) < hole
      BY <3>1, ParInHeap
    <3> QED  BY <3>2
  <2> QED  BY <2>1, <2>2 DEF InOrderBut
<1>5. InOrder(n, At(n, c, e), hole)
  <2>1. hole \in 0..hole
    OBVIOUS
  <2> QED  BY <1>3, <1>4, <2>1
<1>6. b \in [D -> Timers] /\ c = [i \in DOMAIN c |-> c[i]]
  BY <1>1, <1>2 DEF Slide
<1> HIDE DEF D
<1>7. Permuted(D, b, c)
  BY <1>3, RotatedPermutes
<1>8. {c[i] : i \in D} = {b[i] : i \in D} /\ Injective(D, c)
  BY <1>1, <1>7 DEF Permuted
<1>9. c \in [D -> Timers]
  <2>1. ASSUME NEW i \in D PROVE c[i] \in Timers
    <3>1. c[i] \in {b[j] : j \in D}
      BY <1>8
    <3> QED  BY <1>6, <3>1
  <2>2. DOMAIN c = D
    BY <1>3 DEF Rotated
  <2> QED  BY <1>6, <2>1, <2>2
<1> QED  BY <1>1, <1>5, <1>8, <1>9 DEF Heaped, SameTimers, D, c

(* The array before the loop has come to place i.                          *)
LoopFrom(a, n, e, f) ==
  [i \in 0..n |->
     IF i > (n - 1) \div 2 THEN a ELSE PercolateDown(f[i + 1], n, e, i)]

Loops(a, n, e) == \E f : f = LoopFrom(a, n, e, f)

(* The recursion of the loop has a solution.                               *)
LEMMA LoopExists ==
  ASSUME NEW n \in Nat, NEW a, NEW e
  PROVE  Loops(a, n, e)
<1> DEFINE D == 0..n
           F(f) == LoopFrom(a, n, e, f)
           Upto(m, f) == \A i \in D : n - i < m => f[i] = F(f)[i]
           S == {m \in Nat : ~ \E f : DOMAIN f = D /\ Upto(m, f)}
<1>0. \A i \in D : ~(i > (n - 1) \div 2) => i + 1 \in D
  OBVIOUS
<1>1. S = {}
  <2> SUFFICES ASSUME S # {} PROVE FALSE
    OBVIOUS
  <2>1. PICK m \in S : \A j \in S : m <= j
    <3> HIDE DEF S
    <3> QED  BY LeastNumber DEF S
  <2>2. m # 0
    <3>1. Upto(0, [i \in D |-> 0])
      OBVIOUS
    <3> QED  BY <3>1
  <2>3. m - 1 \in Nat /\ m - 1 \notin S
    <3>1. m \in Nat
      OBVIOUS
    <3> HIDE DEF S
    <3> QED  BY <2>1, <2>2, <3>1
  <2>4. PICK f : DOMAIN f = D /\ Upto(m - 1, f)
    BY <2>3
  <2> DEFINE g == [i \in D |-> IF n - i = m - 1 THEN F(f)[i] ELSE f[i]]
  <2>5. \A i \in D : n - i < m - 1 => g[i] = f[i]
    OBVIOUS
  <2>6. ASSUME NEW i \in D, n - i < m PROVE g[i] = F(f)[i]
    <3>1. CASE n - i = m - 1
      BY <3>1
    <3>2. CASE n - i # m - 1
      <4>1. n - i < m - 1 /\ n - i # m - 1
        BY <2>1, <2>6, <3>2
      <4> HIDE DEF F, D
      <4> QED  BY <2>4, <4>1
    <3> QED  BY <3>1, <3>2
  <2> HIDE DEF g
  <2>7. ASSUME NEW i \in D, n - i < m PROVE F(f)[i] = F(g)[i]
    <3>1. CASE i > (n - 1) \div 2
      BY <3>1 DEF LoopFrom
    <3>2. CASE ~(i > (n - 1) \div 2)
      <4>1. i + 1 \in D /\ n - (i + 1) < m - 1
        BY <1>0, <2>1, <2>7, <3>2
      <4>2. g[i + 1] = f[i + 1]
        BY <2>5, <4>1
      <4> QED  BY <4>2 DEF LoopFrom
    <3> QED  BY <3>1, <3>2
  <2>8. Upto(m, g)
    BY <2>6, <2>7
  <2>9. DOMAIN g = D
    BY DEF g
  <2> QED  BY <2>1, <2>8, <2>9
<1>2. PICK f : DOMAIN f = D /\ Upto(n + 1, f)
  <2>1. n + 1 \in Nat /\ n + 1 \notin S
    <3> HIDE DEF S
    <3> QED  BY <1>1
  <2> HIDE DEF F, D
  <2> QED  BY <2>1
<1> DEFINE g == F(f)
<1>3. \A i \in D : f[i] = g[i]
  BY <1>2
<1>4. g = F(g)
  BY <1>0, <1>3 DEF LoopFrom
<1> QED  BY <1>4 DEF Loops

(* The loop makes a heap of any array.                                     *)
LEMMA HeapifyIs ==
  ASSUME NEW n \in Nat, NEW a \in [0..n - 1 -> Timers],
         NEW e \in [Timers -> Int], Injective(0..n - 1, a)
  PROVE  Heaped(n, a, e, Heapify(a, n, e), 0)
<1> DEFINE step(f) == [i \in 0..n |->
             IF i > (n - 1) \div 2 THEN a
             ELSE PercolateDown(f[i + 1], n, e, i)]
           from == CHOOSE f : f = step(f)
           S == {n - i : i \in {j \in 0..n : ~Heaped(n, a, e, from[j], j)}}
<1>1. \A f : step(f) = LoopFrom(a, n, e, f)
  BY DEF LoopFrom
<1>2. Loops(a, n, e)
  BY LoopExists
<1>3. Heapify(a, n, e) = from[0]
  BY DEF Heapify
<1> HIDE DEF step
<1>4. from = step(from)
  BY <1>1, <1>2 DEF Loops
<1>5. from = LoopFrom(a, n, e, from)
  BY <1>1, <1>4
<1> HIDE DEF from
<1>6. S = {}
  <2> SUFFICES ASSUME S # {} PROVE FALSE
    OBVIOUS
  <2>1. PICK m \in S : \A j \in S : m <= j
    <3>1. S \subseteq Nat
      OBVIOUS
    <3> HIDE DEF S
    <3> QED  BY <3>1, LeastNumber
  <2>2. PICK i \in 0..n : n - i = m /\ ~Heaped(n, a, e, from[i], i)
    OBVIOUS
  <2>3. CASE i > (n - 1) \div 2
    <3>1. from[i] = a
      <4>1. LoopFrom(a, n, e, from)[i] = a
        BY <2>3 DEF LoopFrom
      <4> QED  BY <1>5, <4>1
    <3>2. \A j \in 1..n - 1 : ~(Par(j) >= i)
      BY <2>3 DEF Par
    <3> QED  BY <2>2, <3>1, <3>2 DEF Heaped, SameTimers, InOrder
  <2>4. CASE ~(i > (n - 1) \div 2)
    <3>1. from[i] = PercolateDown(from[i + 1], n, e, i)
      <4>1. LoopFrom(a, n, e, from)[i] = PercolateDown(from[i + 1], n, e, i)
        BY <2>4 DEF LoopFrom
      <4> QED  BY <1>5, <4>1
    <3>2. i \in 0..n - 1 /\ i + 1 \in 0..n /\ n - (i + 1) < m
          /\ n - (i + 1) \in Int /\ m \in Int
      <4>1. n - 1 \in Int /\ i >= 0 /\ i <= (n - 1) \div 2
        BY <2>2, <2>4
      <4>2. \A x \in Int : x \div 2 >= 0 => x >= x \div 2
        OBVIOUS
      <4>3. (n - 1) \div 2 \in Int
        BY <4>1
      <4>4. n - 1 >= i
        BY <4>1, <4>2, <4>3
      <4> QED  BY <2>2, <4>4
    <3>3. Heaped(n, a, e, from[i + 1], i + 1)
      <4> SUFFICES ASSUME ~Heaped(n, a, e, from[i + 1], i + 1) PROVE FALSE
        OBVIOUS
      <4>1. n - (i + 1) \in S
        BY <3>2
      <4> HIDE DEF S
      <4> QED  BY <2>1, <3>2, <4>1
    <3> QED  BY <2>2, <3>1, <3>2, <3>3, SinkIs
  <2> QED  BY <2>3, <2>4
<1>7. 0 \in 0..n
  OBVIOUS
<1>8. Heaped(n, a, e, from[0], 0)
  BY <1>6, <1>7
<1> QED  BY <1>3, <1>8
-----------------------------------------------------------------------------
(* The theorems.                                                           *)

(* Both constructors leave a heap.                                         *)
LEMMA HeapInitIs == HeapInit => HeapInv
<1>1. CASE HeapEmpty
  <2>1. cur_size = 0 /\ capacity = Capacity /\ array = [i \in {} |-> 0]
    BY <1>1 DEF HeapEmpty
  <2>2. 0..cur_size - 1 = {} /\ 1..cur_size - 1 = {}
    BY <2>1
  <2>3. array \in [0..cur_size - 1 -> Timers]
    BY <2>1, <2>2
  <2>4. expire \in [Timers -> Times]
    BY <1>1, HeapAssumption DEF HeapEmpty
  <2>5. cb_func \in [Timers -> BOOLEAN] /\ index \in [Timers -> Nat]
    BY <1>1 DEF HeapEmpty
  <2>6. cur_size \in 0..capacity /\ capacity \in Nat \ {0}
    BY <2>1, HeapAssumption
  <2> QED
    BY <2>2, <2>3, <2>4, <2>5, <2>6
    DEF HeapInv, IndexRight, HeapTypeOK, HeapOrdered
<1>2. ASSUME NEW e \in [Timers -> Times], NEW S \in SUBSET Timers,
             NEW n \in 0..Capacity, NEW a \in [0..n - 1 -> S],
             \A i, j \in 0..n - 1 : i # j => a[i] # a[j], HeapFrom(a, n, e)
      PROVE  HeapInv
  <2>1. /\ array = Heapify(a, n, e) /\ capacity = Capacity /\ cur_size = n
        /\ expire = e /\ cb_func \in [Timers -> BOOLEAN]
        /\ index = [t \in Timers |->
                      IF \E i \in 0..n - 1 : array[i] = t
                      THEN CHOOSE i \in 0..n - 1 : array[i] = t ELSE 0]
    BY <1>2 DEF HeapFrom
  <2>2. n \in Nat /\ n <= Capacity /\ Capacity \in Nat \ {0}
    BY HeapAssumption
  <2>3. a \in [0..n - 1 -> Timers] /\ e \in [Timers -> Int]
        /\ Injective(0..n - 1, a)
    BY <1>2, HeapAssumption DEF Injective
  <2>4. Heaped(n, a, e, array, 0)
    BY <2>1, <2>2, <2>3, HeapifyIs
  <2>5. /\ array \in [0..n - 1 -> Timers] /\ Injective(0..n - 1, array)
        /\ InOrder(n, At(n, array, e), 0)
    BY <2>4 DEF Heaped
  <2>6. \A i \in 0..n - 1 : index[array[i]] = i
    BY <2>1, <2>5 DEF Injective
  <2>7. index \in [Timers -> Nat]
    <3>1. 0..n - 1 \subseteq Nat
      BY <2>2
    <3> QED  BY <2>1, <3>1
  <2>8. cur_size \in 0..capacity /\ capacity \in Nat \ {0}
    BY <2>1, <2>2
  <2>9. IndexRight
    BY <2>1, <2>5, <2>6, <2>7, <2>8 DEF IndexRight, HeapTypeOK
  <2>10. ASSUME NEW j \in 1..cur_size - 1
         PROVE  expire[array[(j - 1) \div 2]] <= expire[array[j]]
    <3>1. j \in 0..n - 1 /\ Par(j) \in 0..n - 1 /\ Par(j) >= 0
          /\ j \in 1..n - 1
      BY <2>1, <2>2, ParInHeap
    <3>2. At(n, array, e)[Par(j)] <= At(n, array, e)[j]
      BY <2>5, <3>1 DEF InOrder
    <3> QED  BY <2>1, <3>1, <3>2 DEF At, Par
  <2> QED  BY <2>8, <2>9, <2>10 DEF HeapInv, HeapOrdered
<1> QED  BY <1>1, <1>2 DEF HeapInit

(* Every operation leaves a heap, and does to the timers in it what the    *)
(* abstract queue does.                                                    *)
LEMMA HeapStep ==
  ASSUME HeapInv, [HeapNext]_heapVars
  PROVE  HeapInv' /\ [TQ!Next]_(TQ!tqVars)
<1> USE DEF TQ!tqVars
<1>1. ASSUME NEW t \in Timers \ InHeap, NEW e \in Times, AddTimer(t, e)
      PROVE  HeapInv' /\ [TQ!Next]_(TQ!tqVars)
  <2>1. HeapInv' /\ InHeap' = InHeap \cup {t}
    BY <1>1, AddTimerIs
  <2>2. TQ!Add(t, e)
    BY <1>1, <2>1 DEF TQ!Add, AddTimer
  <2> QED  BY <2>1, <2>2 DEF TQ!Next
<1>2. ASSUME NEW t \in InHeap, DelTimer(t)
      PROVE  HeapInv' /\ [TQ!Next]_(TQ!tqVars)
  <2>1. HeapInv' /\ InHeap' = InHeap
    BY <1>2, DelTimerIs
  <2>2. TQ!Cancel(t)
    BY <1>2, <2>1 DEF TQ!Cancel, DelTimer
  <2>3. t \in Timers
    BY HeapInvIs DEF InHeap
  <2> QED  BY <2>1, <2>2, <2>3 DEF TQ!Next
<1>3. ASSUME NEW t \in InHeap, NEW e \in Times, e >= expire[t],
             AdjustTimer(t, e)
      PROVE  HeapInv' /\ [TQ!Next]_(TQ!tqVars)
  <2>1. HeapInv' /\ InHeap' = InHeap
    BY <1>3, AdjustTimerIs
  <2>2. TQ!Postpone(t, e)
    BY <1>3, <2>1 DEF TQ!Postpone, AdjustTimer
  <2>3. t \in Timers
    BY HeapInvIs DEF InHeap
  <2> QED  BY <2>1, <2>2, <2>3 DEF TQ!Next
<1>4. CASE PopTimer
  <2>1. HeapInv' /\ InHeap' = InHeap \ {Top}
    BY <1>4, PopTimerIs
  <2>2. Top \in InHeap /\ \A t \in InHeap : expire[Top] <= expire[t]
    BY <1>4, TopIsFirst DEF PopTimer
  <2>3. TQ!Remove(Top)
    BY <1>4, <2>1, <2>2 DEF TQ!Remove, PopTimer
  <2>4. Top \in Timers
    BY <2>2, HeapInvIs DEF InHeap
  <2> QED  BY <2>1, <2>3, <2>4 DEF TQ!Next
<1>5. CASE UNCHANGED heapVars
  BY <1>5 DEF heapVars, HeapInv, IndexRight, HeapTypeOK, HeapOrdered, InHeap
<1> QED  BY <1>1, <1>2, <1>3, <1>4, <1>5 DEF HeapNext

(* The invariant: the order, the places and a capacity that can be doubled.*)
THEOREM HeapInvariant == HeapSpec => []HeapInv
<1>1. HeapInit => HeapInv
  BY HeapInitIs
<1>2. HeapInv /\ [HeapNext]_heapVars => HeapInv'
  BY HeapStep
<1> QED  BY <1>1, <1>2, PTL DEF HeapSpec

(* Of any timers, with any times, no timer of the heap is due before its   *)
(* parent (the constructors, add_timer, percolate_down and pop_timer).     *)
THEOREM HeapIsOrdered == HeapSpec => []HeapOrdered
<1>1. HeapInv => HeapOrdered
  BY DEF HeapInv
<1> QED  BY <1>1, HeapInvariant, PTL

(* Every timer in the heap knows its place, which no other one has, and    *)
(* the timers fit the array that add_timer doubles.                        *)
THEOREM PlacesAreKnown == HeapSpec => []IndexRight
<1>1. HeapInv => IndexRight
  BY DEF HeapInv
<1> QED  BY <1>1, HeapInvariant, PTL

(* time_heap is a queue of timers: its operations lose and double none,    *)
(* and what pop_timer takes out is due first.                              *)
THEOREM HeapIsTimerQueue == HeapSpec => ImplementsTimerQueue
<1>1. HeapInit => TQ!Init
  <2> SUFFICES ASSUME HeapInit PROVE TQ!Init
    OBVIOUS
  <2>1. HeapInv
    BY HeapInitIs
  <2>2. InHeap \subseteq Timers
    BY <2>1, HeapInvIs DEF InHeap
  <2> QED  BY <2>1, <2>2, HeapInvIs DEF TQ!Init
<1>2. HeapInv /\ [HeapNext]_heapVars => [TQ!Next]_(TQ!tqVars)
  BY HeapStep
<1> QED
  BY <1>1, <1>2, HeapInvariant, PTL
  DEF HeapSpec, ImplementsTimerQueue, TQ!Spec
-----------------------------------------------------------------------------
(* The server of inactive connections                                      *)

(* TypeOK but for the heap, whose types are part of HeapInv.               *)
VarsInv ==
  /\ now \in 0..MaxTime /\ cur \in 0..MaxTime
  /\ alarm_at \in Nat \cup {NoAlarm}
  /\ signals \subseteq {"SIGALRM", "SIGTERM"}
  /\ {timeout, stop_server, crossed} \subseteq BOOLEAN
  /\ open \subseteq Fds
  /\ waiting \in 0..NumFds
  /\ inbox \in [Fds -> BOOLEAN] /\ fin \in [Fds -> BOOLEAN]
  /\ edge \subseteq Fds \cup {Listen, Pipe}
  /\ batch \subseteq Fds \cup {Listen, Pipe}
  /\ timer \in [Fds -> Timers \cup {NoTimer}]
  /\ user_data \in [Timers -> Fds]
  /\ pc \in {"wait", "batch", "tick", "pop", "read", "alarm", "stopped"}
  /\ timeslot \in Int /\ slack \in 0..now
  /\ heard \in [Fds -> 0..MaxTime]

(* The timer of an open connection points back to it: no two connections   *)
(* share a timer, so that deleting or freeing one leaves the others alone. *)
TimersInv ==
  /\ \A f \in open : /\ timer[f] \in InHeap /\ cb_func[timer[f]]
                     /\ expire[timer[f]] = heard[f] + Idle
                     /\ user_data[timer[f]] = f
  /\ \A t \in InHeap : cb_func[t] =>
       user_data[t] \in open /\ timer[user_data[t]] = t

(* Only an open socket has something to receive.                           *)
SocketsOpen == \A f \in Fds : inbox[f] \/ fin[f] => f \in open

(* Every report of listenfd stands for a connection of its own, and there  *)
(* is a descriptor for each.                                               *)
ReportsInv ==
  /\ waiting + Cardinality(open) <= NumFds
  /\ Listen \in edge \cup batch => waiting >= 1
  /\ Listen \in edge \cap batch => waiting >= 2
  /\ pc # "batch" => batch = {}

(* Nothing lies further ahead than Idle seconds: a timer that is added or  *)
(* moved is the last one and does not come before the alarm.               *)
TimesInv ==
  /\ cur <= now
  /\ \A f \in Fds : heard[f] <= now
  /\ \A t \in InHeap : expire[t] <= now + Idle
  /\ alarm_at # NoAlarm => alarm_at <= now + Idle

(* tick has left nothing that was due when it began.                       *)
NothingDue == pc = "read" => ~Due

(* One alarm at a time: it is set, or its signal is in the pipe, or        *)
(* timer_handler is about to set the next.                                 *)
OneAlarm ==
  /\ "SIGALRM" \in signals => alarm_at = NoAlarm /\ ~timeout
  /\ timeout => alarm_at = NoAlarm

(* What timer_handler is about to give to alarm.                           *)
HandlerInv ==
  /\ pc \in {"tick", "pop", "read", "alarm"} => timeout
  /\ pc = "alarm" =>
       /\ timeslot <= Idle
       /\ timeslot > 0 \/ crossed
       /\ \A t \in InHeap : timeslot + now <= expire[t] + slack

ServerInv ==
  /\ HeapInv /\ VarsInv /\ TimersInv /\ SocketsOpen /\ ReportsInv
  /\ TimesInv /\ NothingDue /\ OneAlarm /\ HandlerInv
  /\ AlarmInTime /\ AlarmComing

(* The constants.                                                          *)
LEMMA Constants ==
  /\ NumFds \in Nat /\ NumFds >= 1 /\ Idle \in Nat /\ Idle >= 1
  /\ MaxTime \in Nat /\ MaxTime >= 1
  /\ 1 \in Fds /\ Listen \notin Fds /\ Pipe \notin Fds /\ Listen # Pipe
  /\ Times = 0..MaxTime + Idle
  /\ IsFiniteSet(Fds) /\ Cardinality(Fds) = NumFds
<1>1. /\ NumFds \in Nat /\ NumFds >= 1 /\ Idle \in Nat /\ Idle >= 1
      /\ MaxTime \in Nat /\ MaxTime >= 1 /\ Times = 0..MaxTime + Idle
  BY InactiveAssumption
<1>2. IsFiniteSet(1..NumFds) /\ Cardinality(1..NumFds) = NumFds
  <2>1. IsFiniteSet(1..NumFds)
    BY <1>1, FS_Interval
  <2>2. Cardinality(1..NumFds) = IF 1 > NumFds THEN 0 ELSE NumFds - 1 + 1
    BY <1>1, FS_Interval
  <2> QED  BY <1>1, <2>1, <2>2
<1> QED  BY <1>1, <1>2 DEF Fds, Listen, Pipe

(* What ServerInv says of the numbers and the heap.                        *)
LEMMA Numbers ==
  ASSUME ServerInv
  PROVE  /\ now \in Nat /\ cur \in Nat /\ waiting \in Nat
         /\ slack \in Nat /\ timeslot \in Int
         /\ Cardinality(open) \in Nat /\ IsFiniteSet(open)
         /\ \A f \in Fds : heard[f] \in Nat
         /\ InHeap \subseteq Timers /\ expire \in [Timers -> Int]
         /\ cb_func \in [Timers -> BOOLEAN] /\ cur_size \in Nat
<1>1. open \subseteq Fds /\ IsFiniteSet(Fds)
  BY Constants DEF ServerInv, VarsInv
<1>2. IsFiniteSet(open) /\ Cardinality(open) \in Nat
  BY <1>1, FS_Subset, FS_CardinalityType
<1>3. InHeap \subseteq Timers /\ expire \in [Timers -> Int]
      /\ cb_func \in [Timers -> BOOLEAN] /\ cur_size \in Nat
  BY HeapInvIs DEF ServerInv, InHeap
<1>4. now \in Nat /\ cur \in Nat /\ waiting \in Nat
      /\ \A f \in Fds : heard[f] \in Nat
  <2>1. /\ now \in 0..MaxTime /\ cur \in 0..MaxTime /\ waiting \in 0..NumFds
        /\ heard \in [Fds -> 0..MaxTime]
    BY DEF ServerInv, VarsInv
  <2>2. 0..MaxTime \subseteq Nat /\ 0..NumFds \subseteq Nat
    BY Constants
  <2> QED  BY <2>1, <2>2
<1>5. slack \in Nat /\ timeslot \in Int
  BY <1>4 DEF ServerInv, VarsInv
<1> QED  BY <1>2, <1>3, <1>4, <1>5
-----------------------------------------------------------------------------
(* Steps that leave the heap and the connections alone.                    *)

Quiet ==
  /\ UNCHANGED <<heapVars, conns>>
  /\ now' >= now /\ now' \in 0..MaxTime

(* They disturb neither the heap nor who has which timer, and what else of *)
(* the invariant stays true if the variables it is about keep their values.*)
LEMMA QuietStep ==
  ASSUME ServerInv, Quiet
  PROVE  /\ HeapInv' /\ TimersInv' /\ InHeap' = InHeap
         /\ \A f \in Fds : heard'[f] <= now'
         /\ \A t \in InHeap' : expire'[t] <= now' + Idle
         /\ UNCHANGED cur => (Due' <=> Due)
         /\ UNCHANGED <<inbox, fin>> => SocketsOpen'
         /\ UNCHANGED <<waiting, edge, batch, pc>> => ReportsInv'
         /\ UNCHANGED <<cur, alarm_at>> => TimesInv'
         /\ UNCHANGED <<cur, pc>> => NothingDue'
         /\ UNCHANGED <<alarm_at, signals, timeout>> => OneAlarm'
         /\ UNCHANGED <<pc, timeout, timeslot, crossed, now, slack>>
              => HandlerInv'
         /\ UNCHANGED alarm_at /\ slack' \in {slack, slack + 1}
              => AlarmInTime'
         /\ UNCHANGED <<alarm_at, signals, edge, batch, timeout, pc, crossed>>
              => AlarmComing'
<1>1. /\ UNCHANGED <<array, capacity, cur_size, expire, cb_func, index>>
      /\ UNCHANGED <<open, timer, user_data, heard>>
      /\ now' >= now /\ now' \in Nat /\ now \in Nat /\ Idle \in Nat
  BY Constants, Numbers DEF heapVars, conns, Quiet
<1>2. HeapInv'
  BY <1>1
  DEF ServerInv, HeapInv, IndexRight, HeapTypeOK, HeapOrdered
<1>3. InHeap' = InHeap
  BY <1>1 DEF InHeap
<1>4. TimersInv'
  BY <1>1, <1>3 DEF ServerInv, TimersInv
<1>5. \A f \in Fds : heard'[f] <= now'
  BY <1>1, Numbers DEF ServerInv, TimesInv
<1>6. \A t \in InHeap' : expire'[t] <= now' + Idle
  <2>1. \A t \in InHeap : expire[t] \in Int
    BY Numbers
  <2> QED  BY <1>1, <1>3, <2>1 DEF ServerInv, TimesInv
<1>7. UNCHANGED cur => (Due' <=> Due)
  BY <1>1 DEF Due, Top
<1>8. UNCHANGED <<inbox, fin>> => SocketsOpen'
  BY <1>1 DEF ServerInv, SocketsOpen
<1>9. UNCHANGED <<waiting, edge, batch, pc>> => ReportsInv'
  BY <1>1 DEF ServerInv, ReportsInv
<1>10. UNCHANGED <<cur, alarm_at>> => TimesInv'
  <2>1. cur \in Nat /\ (alarm_at # NoAlarm => alarm_at \in Nat)
    BY Numbers DEF ServerInv, VarsInv
  <2> QED  BY <1>1, <1>5, <1>6, <2>1 DEF ServerInv, TimesInv
<1>11. UNCHANGED <<cur, pc>> => NothingDue'
  BY <1>7 DEF ServerInv, NothingDue
<1>12. UNCHANGED alarm_at /\ slack' \in {slack, slack + 1} => AlarmInTime'
  <2>1. /\ \A t \in InHeap : expire[t] \in Int
        /\ alarm_at # NoAlarm => alarm_at \in Nat
        /\ slack \in Nat
    BY Numbers DEF ServerInv, VarsInv
  <2> QED  BY <1>1, <1>3, <2>1 DEF ServerInv, AlarmInTime
<1>13. UNCHANGED <<alarm_at, signals, edge, batch, timeout, pc, crossed>>
         => AlarmComing'
  BY DEF ServerInv, AlarmComing
<1>14. UNCHANGED <<alarm_at, signals, timeout>> => OneAlarm'
  BY DEF ServerInv, OneAlarm
<1>15. UNCHANGED <<pc, timeout, timeslot, crossed, now, slack>> => HandlerInv'
  BY <1>1, <1>3 DEF ServerInv, HandlerInv
<1> QED
  BY <1>2, <1>3, <1>4, <1>5, <1>6, <1>7, <1>8, <1>9, <1>10, <1>11, <1>12,
     <1>13, <1>14, <1>15

(* The steps of the world.                                                 *)
LEMMA WorldStep ==
  ASSUME ServerInv, World
  PROVE  ServerInv'
<1>1. CASE ClockTicks
  <2>1. Quiet
    BY <1>1, Numbers, Constants DEF ClockTicks, ServerInv, VarsInv, Quiet
  <2>2. VarsInv'
    <3>1. now + 1 \in 0..MaxTime /\ slack' \in 0..now + 1
      BY <1>1, Constants DEF ClockTicks, ServerInv, VarsInv
    <3> QED
      BY <1>1, <3>1, Constants
      DEF ClockTicks, ServerInv, VarsInv, clients, loop, locals, conns
  <2>3. /\ SocketsOpen' /\ ReportsInv' /\ TimesInv' /\ NothingDue'
        /\ OneAlarm' /\ AlarmInTime' /\ AlarmComing'
    BY <1>1, <2>1, QuietStep DEF ClockTicks, clients, loop, locals, conns
  <2>4. HandlerInv'
    <3>1. /\ UNCHANGED <<pc, timeout, timeslot, crossed, expire>>
          /\ now' = now + 1 /\ (pc = "alarm" => slack' = slack + 1)
      BY <1>1 DEF ClockTicks, loop, locals, heapVars
    <3>2. \A t \in InHeap : expire[t] \in Int
      BY Numbers
    <3> QED
      BY <2>1, <3>1, <3>2, QuietStep, Numbers DEF ServerInv, HandlerInv
  <2> QED
    BY <2>1, <2>2, <2>3, <2>4, QuietStep DEF ServerInv
<1>2. CASE Alarm
  <2>1. Quiet
    BY <1>2, Numbers, Constants DEF Alarm, ServerInv, VarsInv, Quiet
  <2>2. VarsInv'
    BY <1>2, Constants
    DEF Alarm, ServerInv, VarsInv, clients, loop, locals, history, conns,
        Handle
  <2>3. ReportsInv'
    BY <1>2, Constants
    DEF Alarm, ServerInv, ReportsInv, clients, loop, locals, history, conns,
        Handle
  <2>4. TimesInv'
    BY <1>2, <2>1, QuietStep
    DEF Alarm, ServerInv, TimesInv, clients, loop, locals, history, conns
  <2>5. AlarmInTime'
    BY <1>2 DEF Alarm, ServerInv, AlarmInTime
  <2>6. AlarmComing'
    BY <1>2 DEF Alarm, ServerInv, AlarmComing, Handle, history
  <2>7. SocketsOpen' /\ NothingDue' /\ HandlerInv'
    BY <1>2, <2>1, QuietStep
    DEF Alarm, clients, loop, locals, history, conns, Handle
  <2>8. OneAlarm'
    BY <1>2 DEF Alarm, ServerInv, OneAlarm, Handle, loop
  <2> QED
    BY <2>1, <2>2, <2>3, <2>4, <2>5, <2>6, <2>7, <2>8, QuietStep DEF ServerInv
<1>3. CASE Terminate
  <2>1. Quiet
    BY <1>3, Numbers, Constants DEF Terminate, ServerInv, VarsInv, Quiet
  <2>2. VarsInv'
    BY <1>3, Constants
    DEF Terminate, ServerInv, VarsInv, clients, loop, locals, history, conns,
        Handle
  <2>3. ReportsInv'
    BY <1>3, Constants
    DEF Terminate, ServerInv, ReportsInv, clients, loop, locals, history,
        conns, Handle
  <2>4. AlarmComing'
    BY <1>3
    DEF Terminate, ServerInv, AlarmComing, Handle, clients, loop, locals,
        history, conns
  <2>5. /\ SocketsOpen' /\ TimesInv' /\ NothingDue' /\ HandlerInv'
        /\ AlarmInTime'
    BY <1>3, <2>1, QuietStep
    DEF Terminate, clients, loop, locals, history, conns, Handle
  <2>6. OneAlarm'
    BY <1>3 DEF Terminate, ServerInv, OneAlarm, Handle, loop
  <2> QED
    BY <2>1, <2>2, <2>3, <2>4, <2>5, <2>6, QuietStep DEF ServerInv
<1>4. CASE Connect
  <2>1. Quiet
    BY <1>4, Numbers, Constants DEF Connect, ServerInv, VarsInv, Quiet
  <2>2. VarsInv'
    BY <1>4, Constants, Numbers
    DEF Connect, ServerInv, VarsInv, loop, locals, history, conns
  <2>3. ReportsInv'
    BY <1>4, Constants, Numbers
    DEF Connect, ServerInv, ReportsInv, loop, locals, history, conns
  <2>4. AlarmComing'
    BY <1>4 DEF Connect, ServerInv, AlarmComing, loop, history
  <2>5. /\ SocketsOpen' /\ TimesInv' /\ NothingDue'
        /\ OneAlarm' /\ HandlerInv' /\ AlarmInTime'
    BY <1>4, <2>1, QuietStep DEF Connect, loop, locals, history, conns
  <2> QED
    BY <2>1, <2>2, <2>3, <2>4, <2>5, QuietStep DEF ServerInv
<1>5. ASSUME NEW f \in Fds, ClientSends(f)
      PROVE  ServerInv'
  <2>1. Quiet
    BY <1>5, Numbers, Constants DEF ClientSends, ServerInv, VarsInv, Quiet
  <2>2. VarsInv'
    BY <1>5, Constants
    DEF ClientSends, ServerInv, VarsInv, loop, locals, history, conns
  <2>3. SocketsOpen'
    BY <1>5 DEF ClientSends, ServerInv, SocketsOpen, VarsInv, conns
  <2>4. ReportsInv'
    BY <1>5, Constants
    DEF ClientSends, ServerInv, ReportsInv, loop, locals, history, conns
  <2>5. AlarmComing'
    BY <1>5 DEF ClientSends, ServerInv, AlarmComing, loop, history
  <2>6. /\ TimesInv' /\ NothingDue'
        /\ OneAlarm' /\ HandlerInv' /\ AlarmInTime'
    BY <1>5, <2>1, QuietStep DEF ClientSends, loop, locals, history, conns
  <2> QED
    BY <2>1, <2>2, <2>3, <2>4, <2>5, <2>6, QuietStep DEF ServerInv
<1>6. ASSUME NEW f \in Fds, ClientLeaves(f)
      PROVE  ServerInv'
  <2>1. Quiet
    BY <1>6, Numbers, Constants DEF ClientLeaves, ServerInv, VarsInv, Quiet
  <2>2. VarsInv'
    BY ZenonT(30), <1>6, Constants
       DEF ClientLeaves, ServerInv, VarsInv, loop, locals, history, conns
  <2>3. SocketsOpen'
    BY <1>6 DEF ClientLeaves, ServerInv, SocketsOpen, VarsInv, conns
  <2>4. ReportsInv'
    BY <1>6, Constants
    DEF ClientLeaves, ServerInv, ReportsInv, loop, locals, history, conns
  <2>5. AlarmComing'
    BY <1>6 DEF ClientLeaves, ServerInv, AlarmComing, loop, history
  <2>6. /\ TimesInv' /\ NothingDue'
        /\ OneAlarm' /\ HandlerInv' /\ AlarmInTime'
    BY <1>6, <2>1, QuietStep DEF ClientLeaves, loop, locals, history, conns
  <2> QED
    BY <2>1, <2>2, <2>3, <2>4, <2>5, <2>6, QuietStep DEF ServerInv
<1> QED  BY <1>1, <1>2, <1>3, <1>4, <1>5, <1>6 DEF World

(* The steps of the main loop that neither open nor close a connection and *)
(* move no timer.                                                          *)
LEMMA LoopStep ==
  ASSUME ServerInv,
         \/ EpollWait \/ Signals \/ BatchDone \/ TickStart \/ TickEnd
         \/ ReadTimeslot \/ SetAlarm
         \/ \E f \in Fds : ReceiveNothing(f)
  PROVE  ServerInv'
<1>1. CASE EpollWait
  <2>1. Quiet
    BY <1>1, Numbers, Constants DEF EpollWait, ServerInv, VarsInv, Quiet
  <2>2. VarsInv'
    BY <1>1, Constants
    DEF EpollWait, ServerInv, VarsInv, clients, locals, history, conns
  <2>3. ReportsInv'
    BY <1>1
    DEF EpollWait, ServerInv, ReportsInv, clients, locals, history, conns
  <2>4. NothingDue'
    BY <1>1 DEF EpollWait, ServerInv, NothingDue
  <2>5. AlarmComing'
    BY <1>1 DEF EpollWait, ServerInv, AlarmComing, ReportsInv, history
  <2>6. SocketsOpen' /\ TimesInv' /\ OneAlarm' /\ AlarmInTime'
    BY <1>1, <2>1, QuietStep DEF EpollWait, clients, locals, history, conns
  <2>7. HandlerInv'
    BY <1>1 DEF EpollWait, HandlerInv
  <2> QED
    BY <2>1, <2>2, <2>3, <2>4, <2>5, <2>6, <2>7, QuietStep DEF ServerInv
<1>2. CASE Signals
  <2>1. Quiet
    BY <1>2, Numbers, Constants DEF Signals, ServerInv, VarsInv, Quiet
  <2>2. VarsInv'
    BY <1>2, Constants
    DEF Signals, ServerInv, VarsInv, clients, locals, history, conns
  <2>3. ReportsInv'
    BY <1>2, Constants
    DEF Signals, ServerInv, ReportsInv, clients, locals, history, conns
  <2>4. AlarmComing'
    BY <1>2 DEF Signals, ServerInv, AlarmComing, history
  <2>5. SocketsOpen' /\ TimesInv' /\ NothingDue' /\ AlarmInTime'
    BY <1>2, <2>1, QuietStep DEF Signals, clients, locals, history, conns
  <2>6. OneAlarm' /\ HandlerInv'
    BY <1>2 DEF Signals, ServerInv, OneAlarm, HandlerInv
  <2> QED
    BY <2>1, <2>2, <2>3, <2>4, <2>5, <2>6, QuietStep DEF ServerInv
<1>3. CASE BatchDone
  <2>1. Quiet
    BY <1>3, Numbers, Constants DEF BatchDone, ServerInv, VarsInv, Quiet
  <2>2. VarsInv'
    BY <1>3, Constants
    DEF BatchDone, ServerInv, VarsInv, clients, locals, history, conns,
        NextTurn
  <2>3. ReportsInv'
    BY <1>3
    DEF BatchDone, ServerInv, ReportsInv, clients, locals, history, conns
  <2>4. NothingDue'
    BY <1>3 DEF BatchDone, ServerInv, NothingDue, NextTurn
  <2>5. AlarmComing'
    BY <1>3 DEF BatchDone, ServerInv, AlarmComing, NextTurn, history
  <2>6. SocketsOpen' /\ TimesInv' /\ OneAlarm' /\ AlarmInTime'
    BY <1>3, <2>1, QuietStep
    DEF BatchDone, clients, locals, history, conns, NextTurn
  <2>7. HandlerInv'
    BY <1>3 DEF BatchDone, HandlerInv, NextTurn
  <2> QED
    BY <2>1, <2>2, <2>3, <2>4, <2>5, <2>6, <2>7, QuietStep DEF ServerInv
<1>4. CASE TickStart
  <2>1. Quiet
    BY <1>4, Numbers, Constants DEF TickStart, ServerInv, VarsInv, Quiet
  <2>2. VarsInv'
    BY <1>4, Constants
    DEF TickStart, ServerInv, VarsInv, clients, locals, history, conns
  <2>3. ReportsInv'
    BY <1>4
    DEF TickStart, ServerInv, ReportsInv, clients, locals, history, conns
  <2>4. TimesInv'
    BY <1>4, <2>1, QuietStep, Numbers DEF TickStart, ServerInv, TimesInv
  <2>5. NothingDue'
    BY <1>4 DEF TickStart, ServerInv, NothingDue
  <2>6. AlarmComing'
    BY <1>4 DEF TickStart, ServerInv, AlarmComing, history
  <2>7. SocketsOpen' /\ OneAlarm' /\ AlarmInTime'
    BY <1>4, <2>1, QuietStep DEF TickStart, clients, locals, history, conns
  <2>8. HandlerInv'
    BY <1>4 DEF TickStart, ServerInv, HandlerInv
  <2> QED
    BY <2>1, <2>2, <2>3, <2>4, <2>5, <2>6, <2>7, <2>8, QuietStep DEF ServerInv
<1>5. CASE TickEnd
  <2>1. Quiet
    BY <1>5, Numbers, Constants DEF TickEnd, ServerInv, VarsInv, Quiet
  <2>2. VarsInv'
    BY <1>5, Constants
    DEF TickEnd, ServerInv, VarsInv, clients, locals, history, conns
  <2>3. ReportsInv'
    BY <1>5 DEF TickEnd, ServerInv, ReportsInv, clients, locals, history, conns
  <2>4. NothingDue'
    BY <1>5, <2>1, QuietStep DEF TickEnd, ServerInv, NothingDue, locals
  <2>5. AlarmComing'
    BY <1>5 DEF TickEnd, ServerInv, AlarmComing, history
  <2>6. SocketsOpen' /\ TimesInv' /\ OneAlarm' /\ AlarmInTime'
    BY <1>5, <2>1, QuietStep DEF TickEnd, clients, locals, history, conns
  <2>7. HandlerInv'
    BY <1>5 DEF TickEnd, ServerInv, HandlerInv
  <2> QED
    BY <2>1, <2>2, <2>3, <2>4, <2>5, <2>6, <2>7, QuietStep DEF ServerInv
<1>6. CASE ReadTimeslot
  <2>0. /\ pc = "read" /\ pc' = "alarm" /\ cur' = 0
        /\ UNCHANGED <<heapVars, conns, now, alarm_at, signals, waiting>>
        /\ UNCHANGED <<inbox, fin, edge, batch, stop_server, timeout>>
        /\ timeslot' = Timeslot /\ slack' = 0
        /\ crossed' = (cur_size > 0 /\ now # cur)
    BY <1>6 DEF ReadTimeslot, clients
  <2>1. Quiet
    BY <2>0, Numbers DEF ServerInv, VarsInv, Quiet
  <2>2. /\ Timeslot \in Int /\ Timeslot <= Idle
        /\ \A t \in InHeap : Timeslot + now <= expire[t]
    <3>1. CASE cur_size = 0
      <4>1. InHeap = {}
        BY <3>1 DEF InHeap
      <4> QED  BY <3>1, <4>1, Constants DEF Timeslot
    <3>2. CASE cur_size # 0
      <4>1. Top \in InHeap /\ \A t \in InHeap : expire[Top] <= expire[t]
        BY <3>2, TopIsFirst, Numbers DEF ServerInv
      <4>2. expire[Top] \in Int /\ expire[Top] <= now + Idle /\ now \in Nat
        BY <4>1, Numbers DEF ServerInv, TimesInv
      <4>3. Timeslot = expire[Top] - now
        BY <3>2 DEF Timeslot
      <4>4. \A t \in InHeap : expire[t] \in Int
        BY Numbers
      <4> QED  BY <4>1, <4>2, <4>3, <4>4, Constants
    <3> QED  BY <3>1, <3>2
  <2>3. crossed' \/ Timeslot > 0
    <3>1. now \in Nat /\ cur \in Nat /\ cur_size \in Nat
      BY Numbers
    <3>2. CASE cur_size = 0
      BY <3>2 DEF Timeslot
    <3>3. CASE cur_size # 0 /\ now = cur
      <4>1. Top \in InHeap /\ expire[Top] \in Int
        BY <3>1, <3>3, TopIsFirst, Numbers DEF ServerInv
      <4>2. ~(expire[Top] <= cur)
        BY <2>0, <3>1, <3>3 DEF ServerInv, NothingDue, Due
      <4>3. Timeslot = expire[Top] - now
        BY <3>3 DEF Timeslot
      <4> QED  BY <3>1, <3>3, <4>1, <4>2, <4>3
    <3>4. CASE cur_size # 0 /\ now # cur
      <4>1. cur_size > 0 /\ now # cur
        BY <3>1, <3>4
      <4> QED  BY <2>0, <4>1, Zenon
    <3> QED  BY <3>2, <3>3, <3>4
  <2>4. VarsInv'
    <3>1. crossed' \in BOOLEAN
      BY <2>0, Zenon
    <3>2. cur' \in 0..MaxTime /\ timeslot' \in Int /\ slack' \in 0..now
      BY <2>0, <2>2, Constants, Numbers
    <3> QED
      BY <2>0, <3>1, <3>2 DEF ServerInv, VarsInv, conns
  <2>5. SocketsOpen' /\ OneAlarm'
    BY <2>0, <2>1, QuietStep
  <2>6. ReportsInv'
    BY <2>0 DEF ServerInv, ReportsInv, conns
  <2>7. TimesInv'
    <3>1. cur' <= now'
      BY <2>0, Numbers
    <3>2. alarm_at' # NoAlarm => alarm_at' <= now' + Idle
      BY <2>0 DEF ServerInv, TimesInv
    <3> QED  BY <2>1, <3>1, <3>2, QuietStep DEF TimesInv
  <2>8. NothingDue'
    BY <2>0 DEF NothingDue
  <2>9. AlarmInTime' /\ AlarmComing'
    BY <2>0
    DEF ServerInv, HandlerInv, OneAlarm, AlarmInTime, AlarmComing
  <2>10. HandlerInv'
    <3>1. timeout' /\ timeslot' = Timeslot /\ slack' = 0 /\ now' = now
      BY <2>0 DEF ServerInv, HandlerInv
    <3>2. InHeap' = InHeap /\ expire' = expire
      BY <2>0, <2>1, QuietStep DEF heapVars
    <3>3. \A t \in InHeap : expire[t] \in Int
      BY Numbers
    <3> QED  BY <2>2, <2>3, <3>1, <3>2, <3>3 DEF HandlerInv
  <2> QED
    BY <2>1, <2>4, <2>5, <2>6, <2>7, <2>8, <2>9, <2>10, QuietStep
    DEF ServerInv
<1>7. CASE SetAlarm
  <2>0. /\ pc = "alarm" /\ UNCHANGED <<heapVars, conns, now, cur, crossed>>
        /\ UNCHANGED <<signals, waiting, inbox, fin, edge, batch, stop_server>>
        /\ UNCHANGED slack /\ timeout' = FALSE /\ timeslot' = 0
        /\ pc' \in {"stopped", "wait"} /\ (pc' = "wait" => ~stop_server)
        /\ alarm_at' = IF timeslot > 0 THEN now + timeslot ELSE NoAlarm
    BY <1>7 DEF SetAlarm, AlarmIn, NextTurn, clients, history
  <2>1. Quiet
    BY <2>0, Numbers DEF ServerInv, VarsInv, Quiet
  <2>2. /\ timeout /\ timeslot \in Int /\ timeslot <= Idle /\ now \in Nat
        /\ timeslot > 0 \/ crossed
        /\ \A t \in InHeap : timeslot + now <= expire[t] + slack
    BY <2>0, Numbers DEF ServerInv, HandlerInv
  <2>3. alarm_at' = NoAlarm
        \/ /\ alarm_at' \in Nat /\ alarm_at' <= now + Idle
           /\ alarm_at' = timeslot + now
    <3>1. CASE timeslot > 0
      <4>1. alarm_at' = now + timeslot
        BY <2>0, <3>1
      <4> QED  BY <2>2, <3>1, <4>1, Constants
    <3>2. CASE ~(timeslot > 0)
      BY <2>0, <3>2
    <3> QED  BY <3>1, <3>2
  <2>4. VarsInv'
    <3>1. timeout' \in BOOLEAN
      BY <2>0
    <3>3. timeslot' \in Int
      BY <2>0
    <3>2. alarm_at' \in Nat \cup {NoAlarm}
      BY <2>3
    <3> QED
      BY <2>0, <3>1, <3>2, <3>3 DEF ServerInv, VarsInv, conns
  <2>5. SocketsOpen'
    BY <2>0, <2>1, QuietStep
  <2>6. ReportsInv'
    BY <2>0 DEF ServerInv, ReportsInv, conns
  <2>7. TimesInv'
    <3>1. cur' <= now'
      BY <2>0 DEF ServerInv, TimesInv
    <3>2. alarm_at' # NoAlarm => alarm_at' <= now' + Idle
      BY <2>0, <2>3
    <3> QED  BY <2>1, <3>1, <3>2, QuietStep DEF TimesInv
  <2>8. NothingDue' /\ HandlerInv'
    BY <2>0 DEF NothingDue, HandlerInv
  <2>9. AlarmInTime'
    <3>1. InHeap' = InHeap /\ expire' = expire /\ slack' = slack
      BY <2>0, <2>1, QuietStep DEF heapVars
    <3> QED  BY <2>2, <2>3, <3>1 DEF AlarmInTime
  <2>10. AlarmComing' /\ OneAlarm'
    <3>1. "SIGALRM" \notin signals'
      BY <2>0, <2>2 DEF ServerInv, OneAlarm
    <3>2. crossed' \/ alarm_at' # NoAlarm
      BY <2>0, <2>2 DEF NoAlarm
    <3> QED  BY <2>0, <3>1, <3>2 DEF AlarmComing, OneAlarm
  <2> QED
    BY <2>1, <2>4, <2>5, <2>6, <2>7, <2>8, <2>9, <2>10, QuietStep
    DEF ServerInv
<1>8. ASSUME NEW f \in Fds, ReceiveNothing(f)
      PROVE  ServerInv'
  <2>1. Quiet
    BY <1>8, Numbers, Constants DEF ReceiveNothing, ServerInv, VarsInv, Quiet
  <2>2. VarsInv'
    BY <1>8, Constants
    DEF ReceiveNothing, ServerInv, VarsInv, clients, locals, history, conns
  <2>3. ReportsInv'
    BY <1>8, Constants
    DEF ReceiveNothing, ServerInv, ReportsInv, clients, locals, history, conns
  <2>4. AlarmComing'
    BY <1>8, Constants DEF ReceiveNothing, ServerInv, AlarmComing, history
  <2>5. /\ SocketsOpen' /\ TimesInv' /\ NothingDue'
        /\ OneAlarm' /\ HandlerInv' /\ AlarmInTime'
    BY <1>8, <2>1, QuietStep
    DEF ReceiveNothing, clients, locals, history, conns
  <2> QED
    BY <2>1, <2>2, <2>3, <2>4, <2>5, QuietStep DEF ServerInv
<1> QED  BY <1>1, <1>2, <1>3, <1>4, <1>5, <1>6, <1>7, <1>8
-----------------------------------------------------------------------------
(* The steps that use the heap.                                            *)

(* A timer of an open connection is not another one's.                     *)
LEMMA OwnTimer ==
  ASSUME ServerInv, NEW f \in open
  PROVE  /\ timer[f] \in InHeap /\ cb_func[timer[f]] /\ f \in Fds
         /\ expire[timer[f]] = heard[f] + Idle
         /\ \A g \in open : g # f => timer[g] # timer[f]
         /\ \A t \in InHeap : cb_func[t] /\ t # timer[f] => user_data[t] # f
BY DEF ServerInv, TimersInv, VarsInv

(* A connection is accepted.                                               *)
LEMMA AcceptStep ==
  ASSUME ServerInv, Accept
  PROVE  ServerInv' /\ HeapNext
<1> DEFINE f == CHOOSE g \in Fds \ open : \A h \in Fds \ open : g <= h
<1>1. PICK t \in Timers \ InHeap :
        /\ AddTimer(t, now + Idle)
        /\ user_data' = [user_data EXCEPT ![t] = f]
        /\ timer' = [timer EXCEPT ![f] = t]
        /\ open' = open \cup {f}
        /\ heard' = [heard EXCEPT ![f] = now]
  BY DEF Accept
<1>2. /\ pc = "batch" /\ Listen \in batch /\ batch' = batch \ {Listen}
      /\ waiting' = waiting - 1
      /\ UNCHANGED <<now, alarm_at, signals, inbox, fin, edge, timeout,
                     stop_server, pc, cur, crossed, timeslot,
                     slack>>
  BY DEF Accept, locals, history
<1>3. f \in Fds /\ f \notin open
  <2>1. Cardinality(open) < NumFds
    <3>1. waiting >= 1 /\ waiting + Cardinality(open) <= NumFds
      BY <1>2 DEF ServerInv, ReportsInv
    <3> QED  BY <3>1, Numbers, Constants
  <2>2. Fds \ open # {}
    <3>1. open \subseteq Fds /\ (Fds \ open = {} => open = Fds)
      BY DEF ServerInv, VarsInv
    <3> QED  BY <2>1, <3>1, Numbers, Constants
  <2>3. \E g \in Fds \ open : \A h \in Fds \ open : g <= h
    <3>1. Fds \ open \subseteq Nat
      BY DEF Fds
    <3> QED  BY <2>2, <3>1, LeastNumber
  <2> QED  BY <2>3
<1> HIDE DEF f
<1>4. now + Idle \in Times /\ now \in 0..MaxTime
  BY Constants DEF ServerInv, VarsInv
<1>5. HeapInv' /\ InHeap' = InHeap \cup {t}
  BY <1>1, <1>4, AddTimerIs DEF ServerInv
<1>6. /\ expire' = [expire EXCEPT ![t] = now + Idle]
      /\ cb_func' = [cb_func EXCEPT ![t] = TRUE]
  BY <1>1 DEF AddTimer
<1>7. VarsInv'
  <2>1. waiting' \in 0..NumFds
    <3>1. waiting >= 1 /\ waiting \in 0..NumFds
      BY <1>2 DEF ServerInv, ReportsInv, VarsInv
    <3> QED  BY <1>2, <3>1, Constants
  <2> QED  BY <1>1, <1>2, <1>3, <1>4, <2>1 DEF ServerInv, VarsInv
<1>8. TimersInv'
  <2>1. /\ timer'[f] = t /\ heard'[f] = now /\ user_data'[t] = f
        /\ expire'[t] = now + Idle /\ cb_func'[t]
    BY <1>1, <1>3, <1>6, Numbers DEF ServerInv, VarsInv
  <2>2. ASSUME NEW g \in open
        PROVE  /\ timer'[g] = timer[g] /\ heard'[g] = heard[g] /\ timer[g] # t
               /\ timer[g] \in InHeap /\ cb_func[timer[g]]
               /\ expire[timer[g]] = heard[g] + Idle
               /\ user_data[timer[g]] = g
    BY <1>1, <1>3 DEF ServerInv, VarsInv, TimersInv
  <2>3. \A u \in InHeap : /\ u # t /\ user_data'[u] = user_data[u]
                          /\ expire'[u] = expire[u] /\ cb_func'[u] = cb_func[u]
    BY <1>1, <1>6, Numbers DEF ServerInv, VarsInv
  <2>4. \A u \in InHeap : cb_func[u] =>
          user_data[u] \in open /\ timer[user_data[u]] = u
    BY DEF ServerInv, TimersInv
  <2> QED  BY <1>1, <1>5, <2>1, <2>2, <2>3, <2>4 DEF TimersInv
<1>9. SocketsOpen'
  BY <1>1, <1>2 DEF ServerInv, SocketsOpen
<1>10. ReportsInv'
  <2>1. Cardinality(open') = Cardinality(open) + 1
    BY <1>1, <1>3, Numbers, FS_AddElement
  <2>2. waiting \in Int /\ Cardinality(open) \in Int
    BY Numbers
  <2>3. waiting' + Cardinality(open') <= NumFds
    BY <1>2, <2>1, <2>2 DEF ServerInv, ReportsInv
  <2>4. Listen \in edge => waiting >= 2
    BY <1>2 DEF ServerInv, ReportsInv
  <2> QED  BY <1>2, <2>2, <2>3, <2>4 DEF ReportsInv
<1>11. TimesInv'
  <2>1. ASSUME NEW g \in Fds PROVE heard'[g] <= now'
    BY <1>1, <1>2, Numbers DEF ServerInv, TimesInv, VarsInv
  <2>2. ASSUME NEW u \in InHeap' PROVE expire'[u] <= now' + Idle
    BY <1>2, <1>5, <1>6, Numbers, Constants DEF ServerInv, TimesInv
  <2> QED  BY <1>2, <2>1, <2>2 DEF ServerInv, TimesInv
<1>12. NothingDue' /\ OneAlarm' /\ HandlerInv'
  BY <1>2 DEF ServerInv, NothingDue, OneAlarm, HandlerInv
<1>13. AlarmInTime'
  <2>1. /\ \A u \in InHeap : u # t /\ expire'[u] = expire[u]
        /\ expire'[t] = now + Idle
    BY <1>1, <1>6, Numbers
  <2>2. ASSUME alarm_at # NoAlarm
        PROVE  /\ alarm_at <= now + Idle + slack
               /\ \A u \in InHeap : alarm_at <= expire[u] + slack
    <3>1. alarm_at \in Nat /\ alarm_at <= now + Idle
      BY <2>2 DEF ServerInv, VarsInv, TimesInv
    <3>2. \A u \in InHeap : alarm_at <= expire[u] + slack
      BY <2>2 DEF ServerInv, AlarmInTime
    <3> QED  BY <3>1, <3>2, Numbers, Constants
  <2> QED  BY <1>2, <1>5, <2>1, <2>2 DEF AlarmInTime
<1>14. AlarmComing'
  BY <1>2, Constants DEF ServerInv, AlarmComing
<1>15. HeapNext
  BY <1>1, <1>4 DEF HeapNext
<1> QED
  BY <1>5, <1>7, <1>8, <1>9, <1>10, <1>11, <1>12, <1>13, <1>14, <1>15
  DEF ServerInv

(* Data was received: the connection's timer is moved.                     *)
LEMMA ReceiveStep ==
  ASSUME ServerInv, NEW f \in Fds, Receive(f)
  PROVE  ServerInv' /\ HeapNext
<1> DEFINE t == timer[f]
           d == now + Idle
<1>1. /\ pc = "batch" /\ inbox[f] /\ batch' = batch \ {f}
      /\ inbox' \in {inbox, [inbox EXCEPT ![f] = FALSE]}
      /\ heard' = [heard EXCEPT ![f] = now]
      /\ AdjustTimer(t, d)
      /\ UNCHANGED <<now, alarm_at, signals, waiting, fin, edge, timeout,
                     stop_server, pc, cur, open, timer, user_data, crossed,
                     timeslot, slack>>
  BY DEF Receive, locals, history
<1>2. f \in open
  BY <1>1 DEF ServerInv, SocketsOpen
<1>3. /\ t \in InHeap /\ cb_func[t] /\ expire[t] = heard[f] + Idle
      /\ \A g \in open : g # f => timer[g] # t
      /\ \A u \in InHeap : cb_func[u] /\ u # t => user_data[u] # f
  BY <1>2, OwnTimer
<1>4. d \in Times /\ d \in Int /\ d >= expire[t] /\ now \in 0..MaxTime
  <2>1. heard[f] <= now /\ now \in 0..MaxTime
    BY DEF ServerInv, TimesInv, VarsInv
  <2> QED  BY <1>3, <2>1, Constants, Numbers
<1> HIDE DEF t
<1>5. HeapInv' /\ InHeap' = InHeap
  BY <1>1, <1>3, <1>4, AdjustTimerIs DEF ServerInv
<1>6. expire' = [expire EXCEPT ![t] = d] /\ cb_func' = cb_func
  BY <1>1 DEF AdjustTimer
<1>7. VarsInv'
  BY <1>1, <1>4 DEF ServerInv, VarsInv
<1>8. TimersInv'
  <2>1. t = timer[f] /\ heard'[f] = now /\ expire'[t] = now + Idle
    BY <1>1, <1>3, <1>6, Numbers DEF ServerInv, VarsInv, t
  <2>2. \A g \in open : g # f => /\ heard'[g] = heard[g]
                                 /\ expire'[timer[g]] = expire[timer[g]]
    BY <1>1, <1>3, <1>6, Numbers DEF ServerInv, VarsInv, TimersInv
  <2>3. \A g \in open : /\ timer[g] \in InHeap /\ cb_func[timer[g]]
                        /\ expire[timer[g]] = heard[g] + Idle
                        /\ user_data[timer[g]] = g
    BY DEF ServerInv, TimersInv
  <2>4. \A u \in InHeap : cb_func[u] =>
          user_data[u] \in open /\ timer[user_data[u]] = u
    BY DEF ServerInv, TimersInv
  <2> QED  BY <1>1, <1>5, <1>6, <2>1, <2>2, <2>3, <2>4 DEF TimersInv
<1>9. SocketsOpen'
  BY <1>1, <1>2 DEF ServerInv, SocketsOpen, VarsInv
<1>10. ReportsInv'
  BY <1>1, Constants DEF ServerInv, ReportsInv
<1>11. TimesInv'
  <2>1. ASSUME NEW g \in Fds PROVE heard'[g] <= now'
    BY <1>1, Numbers DEF ServerInv, TimesInv, VarsInv
  <2>2. ASSUME NEW u \in InHeap' PROVE expire'[u] <= now' + Idle
    BY <1>1, <1>4, <1>5, <1>6, Numbers, Constants DEF ServerInv, TimesInv
  <2> QED  BY <1>1, <2>1, <2>2 DEF ServerInv, TimesInv
<1>12. NothingDue' /\ OneAlarm' /\ HandlerInv'
  BY <1>1 DEF ServerInv, NothingDue, OneAlarm, HandlerInv
<1>13. AlarmInTime'
  <2>1. /\ \A u \in InHeap : u # t => expire'[u] = expire[u]
        /\ expire'[t] = now + Idle
    BY <1>3, <1>6, Numbers
  <2>2. ASSUME alarm_at # NoAlarm
        PROVE  /\ alarm_at <= now + Idle + slack
               /\ \A u \in InHeap : alarm_at <= expire[u] + slack
    <3>1. alarm_at \in Nat /\ alarm_at <= now + Idle
      BY <2>2 DEF ServerInv, VarsInv, TimesInv
    <3>2. \A u \in InHeap : alarm_at <= expire[u] + slack
      BY <2>2 DEF ServerInv, AlarmInTime
    <3> QED  BY <3>1, <3>2, Numbers, Constants
  <2> QED  BY <1>1, <1>5, <2>1, <2>2 DEF AlarmInTime
<1>14. AlarmComing'
  BY <1>1, Constants DEF ServerInv, AlarmComing
<1>15. HeapNext
  BY <1>1, <1>3, <1>4 DEF HeapNext
<1> QED
  BY <1>5, <1>7, <1>8, <1>9, <1>10, <1>11, <1>12, <1>13, <1>14, <1>15
  DEF ServerInv

(* What close takes with it.                                               *)
LEMMA CloseIs ==
  ASSUME ServerInv, NEW f \in open, Close(f), waiting' = waiting,
         batch' \in SUBSET batch, pc' = pc, now' = now
  PROVE  /\ open' \subseteq Fds /\ inbox' \in [Fds -> BOOLEAN]
         /\ fin' \in [Fds -> BOOLEAN] /\ heard' \in [Fds -> 0..MaxTime]
         /\ edge' \subseteq Fds \cup {Listen, Pipe}
         /\ SocketsOpen' /\ ReportsInv'
         /\ \A g \in Fds : heard'[g] <= now'
         /\ \A g \in open : g # f => heard'[g] = heard[g]
<1>1. /\ open' = open \ {f}
      /\ inbox' = [inbox EXCEPT ![f] = FALSE]
      /\ fin' = [fin EXCEPT ![f] = FALSE]
      /\ edge' = edge \ {f}
      /\ heard' = [heard EXCEPT ![f] = 0]
  BY DEF Close
<1>2. Cardinality(open') = Cardinality(open) - 1
  BY <1>1, Numbers, FS_RemoveElement
<1>3. ReportsInv'
  BY <1>1, <1>2, Numbers, Constants DEF ServerInv, ReportsInv
<1>4. SocketsOpen'
  BY <1>1 DEF ServerInv, SocketsOpen, VarsInv
<1>5. f \in Fds /\ 0 \in 0..MaxTime
  BY Constants DEF ServerInv, VarsInv
<1>6. /\ open' \subseteq Fds /\ inbox' \in [Fds -> BOOLEAN]
      /\ fin' \in [Fds -> BOOLEAN] /\ heard' \in [Fds -> 0..MaxTime]
      /\ edge' \subseteq Fds \cup {Listen, Pipe}
  BY <1>1, <1>5 DEF ServerInv, VarsInv
<1>7. \A g \in Fds : heard'[g] <= now'
  BY <1>1, Numbers DEF ServerInv, VarsInv, TimesInv
<1>8. \A g \in open : g # f => heard'[g] = heard[g]
  BY <1>1 DEF ServerInv, VarsInv
<1> QED  BY <1>3, <1>4, <1>6, <1>7, <1>8

(* The client is gone: the connection is closed and its timer deleted.     *)
LEMMA ReceiveEndStep ==
  ASSUME ServerInv, NEW f \in Fds, ReceiveEnd(f)
  PROVE  ServerInv' /\ HeapNext
<1> DEFINE t == timer[f]
<1>1. /\ pc = "batch" /\ fin[f] /\ batch' = batch \ {f}
      /\ Close(f) /\ DelTimer(t)
      /\ UNCHANGED <<now, alarm_at, signals, waiting, timeout, stop_server,
                     pc, cur, timer, user_data, crossed, timeslot, slack>>
  BY DEF ReceiveEnd, locals, history
<1>2. f \in open
  BY <1>1 DEF ServerInv, SocketsOpen
<1>3. /\ t \in InHeap /\ cb_func[t]
      /\ \A g \in open : g # f => timer[g] # t
      /\ \A u \in InHeap : cb_func[u] /\ u # t => user_data[u] # f
  BY <1>2, OwnTimer
<1> HIDE DEF t
<1>4. /\ open' \subseteq Fds /\ inbox' \in [Fds -> BOOLEAN]
      /\ fin' \in [Fds -> BOOLEAN] /\ heard' \in [Fds -> 0..MaxTime]
      /\ edge' \subseteq Fds \cup {Listen, Pipe}
      /\ SocketsOpen' /\ ReportsInv'
      /\ \A g \in Fds : heard'[g] <= now'
      /\ \A g \in open : g # f => heard'[g] = heard[g]
  <2>1. batch' \in SUBSET batch
    BY <1>1
  <2> QED  BY <1>1, <1>2, <2>1, CloseIs
<1>5. HeapInv' /\ InHeap' = InHeap
  BY <1>1, DelTimerIs DEF ServerInv
<1>6. cb_func' = [cb_func EXCEPT ![t] = FALSE] /\ expire' = expire
  BY <1>1 DEF DelTimer
<1>7. VarsInv'
  BY <1>1, <1>4 DEF ServerInv, VarsInv
<1>8. TimersInv'
  <2>1. open' = open \ {f}
    BY <1>1 DEF Close
  <2>2. \A g \in open : /\ timer[g] \in InHeap /\ cb_func[timer[g]]
                        /\ expire[timer[g]] = heard[g] + Idle
                        /\ user_data[timer[g]] = g
    BY DEF ServerInv, TimersInv
  <2>3. \A u \in InHeap : cb_func[u] =>
          user_data[u] \in open /\ timer[user_data[u]] = u
    BY DEF ServerInv, TimersInv
  <2>4. \A u \in InHeap : /\ u # t => cb_func'[u] = cb_func[u]
                          /\ cb_func'[t] = FALSE
    BY <1>3, <1>6, Numbers
  <2>5. ASSUME NEW g \in open'
        PROVE  /\ timer'[g] \in InHeap' /\ cb_func'[timer'[g]]
               /\ expire'[timer'[g]] = heard'[g] + Idle
               /\ user_data'[timer'[g]] = g
    <3>1. g \in open /\ g # f
      BY <2>1
    <3>2. timer[g] # t /\ heard'[g] = heard[g]
      BY <1>3, <1>4, <3>1
    <3>3. timer'[g] = timer[g] /\ cb_func'[timer[g]] = cb_func[timer[g]]
          /\ user_data' = user_data
      BY <1>1, <2>2, <2>4, <3>1, <3>2
    <3> QED  BY <1>5, <1>6, <2>2, <3>1, <3>2, <3>3
  <2>6. ASSUME NEW u \in InHeap', cb_func'[u]
        PROVE  user_data'[u] \in open' /\ timer'[user_data'[u]] = u
    <3>1. u \in InHeap /\ u # t /\ cb_func[u]
      BY <1>5, <2>4, <2>6
    <3> QED  BY <1>1, <1>3, <2>1, <2>3, <3>1
  <2> QED  BY <2>5, <2>6 DEF TimersInv
<1>9. TimesInv'
  BY <1>1, <1>4, <1>5, <1>6 DEF ServerInv, TimesInv
<1>10. NothingDue' /\ OneAlarm' /\ HandlerInv'
  BY <1>1 DEF ServerInv, NothingDue, OneAlarm, HandlerInv
<1>11. AlarmInTime'
  BY <1>1, <1>5, <1>6 DEF ServerInv, AlarmInTime
<1>12. AlarmComing'
  BY <1>1, Constants DEF ServerInv, AlarmComing, Close
<1>13. HeapNext
  BY <1>1, <1>3 DEF HeapNext
<1> QED
  BY <1>4, <1>5, <1>7, <1>8, <1>9, <1>10, <1>11, <1>12, <1>13 DEF ServerInv

(* The first timer is due: its connection is closed, unless the timer was  *)
(* deleted, and the timer freed.                                           *)
LEMMA TickPopStep ==
  ASSUME ServerInv, TickPop
  PROVE  /\ ServerInv' /\ HeapNext
         /\ \A f \in open : f \notin open' => cur - heard[f] >= Idle
<1> DEFINE t == Top
           f == user_data[t]
<1>1. /\ pc = "pop" /\ cur_size > 0 /\ expire[t] <= cur
      /\ IF cb_func[t] THEN Close(f)
         ELSE UNCHANGED <<open, inbox, fin, edge, heard>>
      /\ PopTimer
      /\ user_data' = [user_data EXCEPT ![t] = 1]
      /\ UNCHANGED <<now, alarm_at, signals, waiting, loop, timer, history>>
  BY DEF TickPop, Due
<1>2. UNCHANGED <<batch, timeout, stop_server, pc, cur, timeslot, crossed,
                  slack>>
  BY <1>1 DEF loop, locals, history
<1>3. t \in InHeap /\ t \in Timers /\ f \in Fds
  BY <1>1, TopIsFirst, Numbers DEF ServerInv, VarsInv
<1> HIDE DEF t, f
<1>4. HeapInv' /\ InHeap' = InHeap \ {t}
  BY <1>1, PopTimerIs DEF ServerInv, t
<1>5. expire' = expire /\ cb_func' = cb_func
  BY <1>1 DEF PopTimer
<1>6. \A g \in open : /\ timer[g] \in InHeap /\ cb_func[timer[g]]
                      /\ expire[timer[g]] = heard[g] + Idle
                      /\ user_data[timer[g]] = g
  BY DEF ServerInv, TimersInv
<1>7. \A u \in InHeap : cb_func[u] =>
        user_data[u] \in open /\ timer[user_data[u]] = u
  BY DEF ServerInv, TimersInv
<1>8. \A u \in InHeap : u # t => user_data'[u] = user_data[u]
  BY <1>1, Numbers DEF ServerInv, VarsInv
<1>9. /\ open' \subseteq Fds /\ inbox' \in [Fds -> BOOLEAN]
      /\ fin' \in [Fds -> BOOLEAN] /\ heard' \in [Fds -> 0..MaxTime]
      /\ edge' \subseteq Fds \cup {Listen, Pipe}
      /\ SocketsOpen' /\ ReportsInv'
      /\ \A g \in Fds : heard'[g] <= now'
      /\ \A g \in open' : g \in open /\ timer[g] # t /\ heard'[g] = heard[g]
      /\ \A u \in InHeap : cb_func[u] /\ u # t => user_data[u] \in open'
      /\ Pipe \in edge => Pipe \in edge'
  <2>1. CASE cb_func[t]
    <3>1. f \in open /\ timer[f] = t /\ Close(f)
      BY <1>1, <1>3, <1>7, <2>1 DEF f
    <3>2. open' = open \ {f} /\ edge' = edge \ {f}
      BY <3>1 DEF Close
    <3>3. batch' \in SUBSET batch
      BY <1>2
    <3>4. /\ open' \subseteq Fds /\ inbox' \in [Fds -> BOOLEAN]
          /\ fin' \in [Fds -> BOOLEAN] /\ heard' \in [Fds -> 0..MaxTime]
          /\ edge' \subseteq Fds \cup {Listen, Pipe}
          /\ SocketsOpen' /\ ReportsInv'
          /\ \A g \in Fds : heard'[g] <= now'
          /\ \A g \in open : g # f => heard'[g] = heard[g]
      BY <1>1, <1>2, <3>1, <3>3, CloseIs
    <3>5. \A g \in open' : g \in open /\ timer[g] # t /\ heard'[g] = heard[g]
      BY <1>6, <3>2, <3>4 DEF f
    <3>6. \A u \in InHeap : cb_func[u] /\ u # t => user_data[u] \in open'
      BY <1>7, <3>1, <3>2
    <3>7. Pipe \in edge => Pipe \in edge'
      BY <1>3, <3>2, Constants
    <3> QED  BY <3>4, <3>5, <3>6, <3>7
  <2>2. CASE ~cb_func[t]
    <3>1. UNCHANGED <<open, inbox, fin, edge, heard>>
      BY <1>1, <2>2
    <3>2. SocketsOpen' /\ ReportsInv'
      BY <1>1, <1>2, <3>1 DEF ServerInv, SocketsOpen, ReportsInv
    <3>3. \A g \in open' : g \in open /\ timer[g] # t /\ heard'[g] = heard[g]
      BY <1>6, <2>2, <3>1
    <3> QED  BY <1>1, <1>7, <3>1, <3>2, <3>3 DEF ServerInv, VarsInv, TimesInv
  <2> QED  BY <2>1, <2>2
<1>10. VarsInv'
  BY <1>1, <1>2, <1>9, Constants DEF ServerInv, VarsInv
<1>11. TimersInv'
  <2>1. \A g \in open' : /\ timer[g] \in InHeap' /\ cb_func[timer[g]]
                         /\ expire[timer[g]] = heard'[g] + Idle
                         /\ user_data'[timer[g]] = g
    BY <1>4, <1>6, <1>8, <1>9
  <2>2. \A u \in InHeap' : cb_func[u] =>
          user_data'[u] \in open' /\ timer[user_data'[u]] = u
    BY <1>4, <1>7, <1>8, <1>9
  <2>3. timer' = timer
    BY <1>1
  <2> QED  BY <1>5, <2>1, <2>2, <2>3 DEF TimersInv
<1>12. TimesInv'
  BY <1>1, <1>2, <1>4, <1>5, <1>9 DEF ServerInv, TimesInv
<1>13. NothingDue' /\ OneAlarm' /\ HandlerInv'
  BY <1>1, <1>2 DEF ServerInv, NothingDue, OneAlarm, HandlerInv
<1>14. AlarmInTime'
  BY <1>1, <1>2, <1>4, <1>5 DEF ServerInv, AlarmInTime
<1>15. AlarmComing'
  BY <1>1, <1>2, <1>9 DEF ServerInv, AlarmComing
<1>16. HeapNext
  BY <1>1 DEF HeapNext
<1>17. ASSUME NEW g \in open, g \notin open' PROVE cur - heard[g] >= Idle
  <2>1. cb_func[t] /\ open' = open \ {f}
    BY <1>1, <1>17 DEF Close
  <2>2. g = f /\ timer[g] = t
    BY <1>3, <1>7, <1>17, <2>1 DEF f
  <2>3. expire[t] = heard[g] + Idle /\ g \in Fds
    BY <1>3, <1>6, <2>2
  <2> QED  BY <1>1, <2>3, Numbers, Constants
<1> QED
  BY <1>4, <1>9, <1>10, <1>11, <1>12, <1>13, <1>14, <1>15, <1>16, <1>17
  DEF ServerInv
-----------------------------------------------------------------------------
(* The theorems.                                                           *)

(* main starts with an empty heap and an alarm in a second.                *)
LEMMA InitIs == Init => ServerInv
<1> SUFFICES ASSUME Init PROVE ServerInv
  OBVIOUS
<1>1. HeapEmpty
  BY DEF Init
<1>2. HeapInv
  BY <1>1, HeapInitIs DEF HeapInit
<1>3. InHeap = {}
  BY <1>1 DEF HeapEmpty, InHeap
<1>4. VarsInv
  <2>1. 0 \in 0..MaxTime /\ 1 \in Fds /\ 0 \in 0..NumFds /\ 1 \in Nat
    BY Constants
  <2>2. {timeout, stop_server, crossed} \subseteq BOOLEAN
    BY DEF Init
  <2>3. /\ inbox \in [Fds -> BOOLEAN] /\ fin \in [Fds -> BOOLEAN]
        /\ timer \in [Fds -> Timers \cup {NoTimer}]
    BY DEF Init
  <2>4. user_data \in [Timers -> Fds] /\ heard \in [Fds -> 0..MaxTime]
    BY <2>1 DEF Init
  <2> QED  BY <2>1, <2>2, <2>3, <2>4 DEF Init, VarsInv
<1>5. /\ TimersInv /\ SocketsOpen /\ NothingDue /\ OneAlarm /\ HandlerInv
      /\ AlarmInTime
  BY <1>3
  DEF Init, TimersInv, SocketsOpen, NothingDue, OneAlarm, HandlerInv,
      AlarmInTime
<1>6. ReportsInv
  BY FS_EmptySet, Constants DEF Init, ReportsInv
<1>7. TimesInv
  BY <1>3, Constants DEF Init, TimesInv
<1>8. AlarmComing
  BY DEF Init, AlarmComing, NoAlarm
<1> QED  BY <1>2, <1>4, <1>5, <1>6, <1>7, <1>8 DEF ServerInv

(* What the timers may do to the connections of the step.                  *)
ClosesIdle ==
  \A f \in open : pc = "pop" /\ f \notin open' => cur - heard[f] >= Idle

(* Every step of the server keeps the invariant, uses the heap as it is    *)
(* meant to be used and closes no connection early.                        *)
LEMMA ServerStep ==
  ASSUME ServerInv, [Next]_vars
  PROVE  ServerInv' /\ [HeapNext]_heapVars /\ ClosesIdle
<1>1. CASE World
  <2>1. UNCHANGED <<heapVars, open>>
    BY <1>1 DEF World, ClockTicks, Alarm, Terminate, Connect, ClientSends,
       ClientLeaves, conns
  <2> QED  BY <1>1, <2>1, WorldStep DEF ClosesIdle
<1>2. CASE \/ EpollWait \/ Signals \/ BatchDone \/ TickStart \/ TickEnd
           \/ ReadTimeslot \/ SetAlarm
           \/ \E f \in Fds : ReceiveNothing(f)
  <2>1. UNCHANGED <<heapVars, open>>
    BY <1>2 DEF EpollWait, Signals, BatchDone, TickStart, TickEnd,
       ReadTimeslot, SetAlarm, ReceiveNothing, conns
  <2> QED  BY <1>2, <2>1, LoopStep DEF ClosesIdle
<1>3. CASE Accept
  BY <1>3, AcceptStep DEF ClosesIdle, Accept
<1>4. ASSUME NEW f \in Fds, Receive(f)
      PROVE  ServerInv' /\ [HeapNext]_heapVars /\ ClosesIdle
  BY <1>4, ReceiveStep DEF ClosesIdle, Receive
<1>5. ASSUME NEW f \in Fds, ReceiveEnd(f)
      PROVE  ServerInv' /\ [HeapNext]_heapVars /\ ClosesIdle
  BY <1>5, ReceiveEndStep DEF ClosesIdle, ReceiveEnd
<1>6. CASE TickPop
  BY <1>6, TickPopStep DEF ClosesIdle
<1>7. CASE UNCHANGED vars
  <2>1. UNCHANGED <<heapVars, conns, now, alarm_at, signals, waiting, inbox,
                    fin, edge, batch, timeout, stop_server, pc, cur, crossed,
                    timeslot, slack>>
    BY <1>7 DEF vars, clients, loop, locals, history
  <2>2. Quiet /\ UNCHANGED open
    BY <2>1, Numbers DEF ServerInv, VarsInv, Quiet, conns
  <2>3. VarsInv'
    BY <2>1 DEF ServerInv, VarsInv, conns
  <2> QED  BY <2>1, <2>2, <2>3, QuietStep DEF ServerInv, ClosesIdle
<1> QED
  BY <1>1, <1>2, <1>3, <1>4, <1>5, <1>6, <1>7 DEF Next, MainStep

(* The invariant of the server.                                            *)
THEOREM ServerInvariant == Spec => []ServerInv
<1>1. ServerInv /\ [Next]_vars => ServerInv'
  BY ServerStep
<1> QED  BY <1>1, InitIs, PTL DEF Spec

(* An open connection's timer is in the heap and its own, and a timer that *)
(* will still close something closes the open connection it belongs to.    *)
THEOREM TimersBelong == Spec => []TimerOfConnection
<1>1. ServerInv => TimerOfConnection
  <2> SUFFICES ASSUME ServerInv PROVE TimerOfConnection
    OBVIOUS
  <2>1. slack \in 0..MaxTime
    BY Constants DEF ServerInv, VarsInv
  <2> QED
    BY <2>1 DEF ServerInv, HeapInv, IndexRight, VarsInv, TimersInv, TypeOK,
       TimerOfConnection
<1> QED  BY <1>1, ServerInvariant, PTL

(* Adding and moving timers makes none due before the next alarm, although *)
(* the alarm is set only by timer_handler: the alarm is late by no more    *)
(* than timer_handler was between its time() and alarm().                  *)
THEOREM AlarmIsInTime == Spec => []AlarmInTime
<1>1. ServerInv => AlarmInTime
  BY DEF ServerInv
<1> QED  BY <1>1, ServerInvariant, PTL

(* The chain of alarms breaks only when the clock advances between the two *)
(* calls of time() in a timer_handler, or when the server stops.           *)
THEOREM AlarmKeepsComing == Spec => []AlarmComing
<1>1. ServerInv => AlarmComing
  BY DEF ServerInv
<1> QED  BY <1>1, ServerInvariant, PTL

(* The server only calls the heap as HeapSpec allows: so all that          *)
(* HeapInvariant shows of the heap holds in the server.                    *)
THEOREM HeapIsUsedAsMeant == Spec => HeapUsedAsMeant
<1>1. Init => HeapInit
  BY DEF Init, HeapInit
<1>2. ServerInv /\ [Next]_vars => [HeapNext]_heapVars
  BY ServerStep
<1> QED
  BY <1>1, <1>2, ServerInvariant, PTL DEF Spec, HeapUsedAsMeant, HeapSpec

(* tick closes no connection that had an event less than Idle seconds ago. *)
THEOREM OnlyIdleAreClosed == Spec => ClosedOnlyWhenIdle
<1>1. ServerInv /\ [Next]_vars =>
        [\A f \in open :
           pc = "pop" /\ f \notin open' => cur - heard[f] >= Idle]_vars
  BY ServerStep DEF ClosesIdle
<1> QED
  BY <1>1, ServerInvariant, PTL DEF Spec, ClosedOnlyWhenIdle
=============================================================================
