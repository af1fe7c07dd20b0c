------------------------------- MODULE Loops -------------------------------
(***************************************************************************)
(* What the proofs about the devices need to know of loops.  An update of  *)
(* a device is a while loop, modelled as a function that repeats the       *)
(* loop's body from a state r: repeated[0] is r and repeated[n + 1] is the *)
(* body's outcome at repeated[n].                                          *)
(*                                                                         *)
(* The library's induction theorems have operators for parameters, which   *)
(* the provers cannot instantiate.  Here the parameters are sets and       *)
(* functions: S holds the states of a loop, f is its body, D the states in *)
(* which it is done, and m a bound of the rounds still to come.            *)
(***************************************************************************)
EXTENDS Integers, WellFoundedInduction, TLAPS

(* A set of naturals has a smallest element. *)
LEMMA SmallestElement ==
  ASSUME NEW T \in SUBSET Nat, T # {}
  PROVE  \E x \in T : \A y \in T : x <= y
  <1> DEFINE R == {ss \in Nat \X Nat : ss[1] < ss[2]}
  <1>1. IsWellFoundedOn(R, Nat)
    BY NatLessThanWellFounded DEF OpToRel
  <1>2. PICK x \in T : \A y \in T : ~ (<<y, x>> \in R)
    <2> HIDE DEF R
    <2> QED BY <1>1, WFMin
  <1>3. ASSUME NEW y \in T PROVE x <= y
    <2>1. x \in Nat /\ y \in Nat /\ ~ (<<y, x>> \in R)
      BY <1>2
    <2>2. <<y, x>> \in Nat \X Nat /\ <<y, x>>[1] = y /\ <<y, x>>[2] = x
      BY <2>1
    <2> QED BY <2>1, <2>2
  <1> QED BY <1>3

(* Induction, with a set for the predicate. *)
LEMMA InductionOnNat ==
  ASSUME NEW T \in SUBSET Nat, 0 \in T, \A n \in T : n + 1 \in T
  PROVE  T = Nat
  <1> SUFFICES ASSUME Nat \ T # {} PROVE FALSE
    OBVIOUS
  <1>1. PICK x \in Nat \ T : \A y \in Nat \ T : x <= y
    BY SmallestElement
  <1>2. x # 0 /\ x - 1 \in Nat /\ x - 1 \in T
    BY <1>1
  <1> QED BY <1>1, <1>2

-----------------------------------------------------------------------------
(* The states that n rounds from r pass through. *)
Prefixes(S, f, r, n) ==
  {g \in [0 .. n -> S] : g[0] = r /\ \A k \in 0 .. n - 1 : g[k + 1] = f[g[k]]}

LEMMA PrefixesExist ==
  ASSUME NEW S, NEW f \in [S -> S], NEW r \in S
  PROVE  \A n \in Nat : Prefixes(S, f, r, n) # {}
  <1> DEFINE T == {n \in Nat : Prefixes(S, f, r, n) # {}}
  <1>1. 0 \in T
    <2>1. [k \in 0 .. 0 |-> r] \in Prefixes(S, f, r, 0)
      BY DEF Prefixes
    <2> QED BY <2>1
  <1>2. ASSUME NEW n \in T PROVE n + 1 \in T
    <2>1. PICK g \in Prefixes(S, f, r, n) : TRUE
      BY <1>2
    <2> DEFINE h == [k \in 0 .. n + 1 |-> IF k = n + 1 THEN f[g[n]] ELSE g[k]]
    <2>2. h \in [0 .. n + 1 -> S] /\ h[0] = r
      BY <2>1 DEF Prefixes
    <2>3. \A k \in 0 .. n : h[k + 1] = f[h[k]]
      BY <2>1 DEF Prefixes
    <2>4. h \in Prefixes(S, f, r, n + 1)
      BY <2>2, <2>3 DEF Prefixes
    <2> QED BY <2>4
  <1>3. T = Nat
    <2>1. T \in SUBSET Nat
      OBVIOUS
    <2> HIDE DEF T
    <2> QED BY <1>1, <1>2, <2>1, InductionOnNat
  <1> QED BY <1>3

(* The repetition of a body from r. *)
Repeats(S, f, r, g) ==
  g \in [Nat -> S] /\ g[0] = r /\ \A n \in Nat : g[n + 1] = f[g[n]]

(* A body can be repeated for ever. *)
LEMMA Repetition ==
  ASSUME NEW S, NEW f \in [S -> S], NEW r \in S
  PROVE  \E g : Repeats(S, f, r, g)
  <1> DEFINE part == [n \in Nat |-> CHOOSE g \in Prefixes(S, f, r, n) : TRUE]
  <1>1. \A n \in Nat : part[n] \in Prefixes(S, f, r, n)
    BY PrefixesExist
  <1> HIDE DEF part
  <1>2. ASSUME NEW n \in Nat PROVE part[n + 1][n] = part[n][n]
    <2> DEFINE E == {k \in Nat : k <= n => part[n + 1][k] = part[n][k]}
    <2>1. 0 \in E
      BY <1>1 DEF Prefixes
    <2>2. ASSUME NEW k \in E PROVE k + 1 \in E
      BY <1>1, <2>2 DEF Prefixes
    <2>3. E = Nat
      <3>1. E \in SUBSET Nat
        OBVIOUS
      <3> HIDE DEF E
      <3> QED BY <2>1, <2>2, <3>1, InductionOnNat
    <2> QED BY <2>3
  <1> DEFINE g == [n \in Nat |-> part[n][n]]
  <1>3. g \in [Nat -> S] /\ g[0] = r
    BY <1>1 DEF Prefixes
  <1>4. ASSUME NEW n \in Nat PROVE g[n + 1] = f[g[n]]
    <2>1. part[n + 1][n + 1] = f[part[n + 1][n]]
      BY <1>1 DEF Prefixes
    <2> QED BY <2>1, <1>2
  <1> HIDE DEF g
  <1> QED BY <1>3, <1>4 DEF Repeats

-----------------------------------------------------------------------------
(* A loop whose bound decreases until it is done, and what stays as it is  *)
(* when it is done.                                                        *)
Terminates(S, f, D, m) ==
  /\ f \in [S -> S] /\ D \in SUBSET S /\ m \in [S -> Nat]
  /\ \A x \in D : f[x] = x
  /\ \A x \in S \ D : m[f[x]] < m[x]

(* What holds when a loop is done, and before a round if after it, holds of *)
(* every state.                                                             *)
LEMMA LoopInduction ==
  ASSUME NEW S, NEW f, NEW D, NEW m, Terminates(S, f, D, m),
         NEW T \in SUBSET S, D \subseteq T,
         \A x \in S \ D : f[x] \in T => x \in T
  PROVE  T = S
  <1> USE DEF Terminates
  <1> DEFINE B == {m[x] : x \in S \ T}
  <1> SUFFICES ASSUME S \ T # {} PROVE FALSE
    OBVIOUS
  <1>1. B \in SUBSET Nat /\ B # {}
    OBVIOUS
  <1>2. PICK b \in B : \A y \in B : b <= y
    <2> HIDE DEF B
    <2> QED BY <1>1, SmallestElement
  <1>3. PICK x \in S \ T : b = m[x]
    BY <1>2
  <1>4. x \in S \ D /\ f[x] \in S /\ f[x] \notin T
    BY <1>3
  <1>5. m[f[x]] \in B /\ m[f[x]] < m[x] /\ m[f[x]] \in Nat /\ m[x] \in Nat
    BY <1>4
  <1>6. b <= m[f[x]]
    <2> HIDE DEF B
    <2> QED BY <1>2, <1>5
  <1> QED BY <1>3, <1>5, <1>6

(* After as many rounds as its bound a loop is done. *)
LEMMA DoneInTime ==
  ASSUME NEW S, NEW f, NEW D, NEW m, Terminates(S, f, D, m),
         NEW r \in S, NEW g, Repeats(S, f, r, g)
  PROVE  \A n \in Nat : n >= m[r] => g[n] \in D
  <1> USE DEF Terminates, Repeats
  <1> DEFINE E == {n \in Nat : g[n] \in D \/ m[g[n]] + n <= m[r]}
  <1>1. 0 \in E
    OBVIOUS
  <1>2. ASSUME NEW n \in E PROVE n + 1 \in E
    <2>1. n \in Nat /\ g[n] \in S /\ g[n + 1] = f[g[n]] /\ g[n + 1] \in S
      OBVIOUS
    <2>2. CASE g[n] \in D
      BY <2>1, <2>2
    <2>3. CASE g[n] \notin D
      <3>1. m[f[g[n]]] < m[g[n]] /\ m[g[n]] + n <= m[r]
        BY <2>1, <2>3, <1>2
      <3>2. m[f[g[n]]] \in Nat /\ m[g[n]] \in Nat /\ m[r] \in Nat
        BY <2>1
      <3>3. m[f[g[n]]] + (n + 1) <= m[r]
        BY <2>1, <3>1, <3>2
      <3> QED BY <2>1, <3>3
    <2> QED BY <2>2, <2>3
  <1>3. E = Nat
    <2>1. E \in SUBSET Nat
      OBVIOUS
    <2> HIDE DEF E
    <2> QED BY <1>1, <1>2, <2>1, InductionOnNat
  <1>4. ASSUME NEW n \in Nat, n >= m[r] PROVE g[n] \in D
    <2>1. g[n] \in D \/ m[g[n]] + n <= m[r]
      BY <1>3
    <2>2. g[n] \in S /\ m[g[n]] \in Nat /\ m[r] \in Nat
      OBVIOUS
    <2>3. CASE m[g[n]] = 0
      <3>1. g[n] \in S \ D => m[f[g[n]]] < m[g[n]] /\ m[f[g[n]]] \in Nat
        BY <2>2
      <3> QED BY <3>1, <2>2, <2>3
    <2> QED BY <1>4, <2>1, <2>2, <2>3
  <1> QED BY <1>4

(* A state in which the loop is done stays. *)
LEMMA DoneStays ==
  ASSUME NEW S, NEW f, NEW D, NEW m, Terminates(S, f, D, m),
         NEW r \in S, NEW g, Repeats(S, f, r, g),
         NEW n \in Nat, g[n] \in D
  PROVE  \A k \in Nat : k >= n => g[k] = g[n]
  <1> DEFINE E == {k \in Nat : g[n + k] = g[n]}
  <1>1. 0 \in E
    OBVIOUS
  <1>2. ASSUME NEW k \in E PROVE k + 1 \in E
    <2>1. n + k \in Nat /\ g[(n + k) + 1] = f[g[n + k]] /\ (n + k) + 1 = n + (k + 1)
      BY DEF Repeats
    <2> QED BY <2>1 DEF Terminates
  <1>3. E = Nat
    <2>1. E \in SUBSET Nat
      OBVIOUS
    <2> HIDE DEF E
    <2> QED BY <1>1, <1>2, <2>1, InductionOnNat
  <1>4. ASSUME NEW k \in Nat, k >= n PROVE g[k] = g[n]
    <2>1. k - n \in Nat /\ n + (k - n) = k
      BY <1>4
    <2>2. k - n \in E
      BY <1>3, <2>1
    <2> QED BY <2>1, <2>2
  <1> QED BY <1>4

(* A loop ends where it ends after one round more. *)
LEMMA SameEnd ==
  ASSUME NEW S, NEW f, NEW D, NEW m, Terminates(S, f, D, m),
         NEW r \in S, NEW g, Repeats(S, f, r, g), NEW h, Repeats(S, f, f[r], h),
         NEW n \in Nat, n >= m[r], NEW k \in Nat, k >= m[f[r]]
  PROVE  g[n] = h[k]
  <1> DEFINE E == {i \in Nat : h[i] = g[i + 1]}
  <1>1. 0 \in E
    BY DEF Repeats
  <1>2. ASSUME NEW i \in E PROVE i + 1 \in E
    BY DEF Repeats
  <1>3. E = Nat
    <2>1. E \in SUBSET Nat
      OBVIOUS
    <2> HIDE DEF E
    <2> QED BY <1>1, <1>2, <2>1, InductionOnNat
  <1>4. h[k] = g[k + 1] /\ k + 1 \in Nat
    BY <1>3
  <1>5. g[n] \in D /\ h[k] \in D
    <2>1. f[r] \in S
      BY DEF Terminates
    <2> QED BY <2>1, DoneInTime
  <1>6. CASE n <= k + 1
    BY <1>4, <1>5, <1>6, DoneStays
  <1>7. CASE n > k + 1
    <2>1. g[k + 1] \in D
      BY <1>4, <1>5
    <2>2. g[n] = g[k + 1]
      BY <1>4, <1>7, <2>1, DoneStays
    <2> QED BY <1>4, <2>2
  <1> QED BY <1>6, <1>7

(* What follows f from r, as long as it stays in S, repeats f. *)
LEMMA Follows ==
  ASSUME NEW S, NEW f \in [S -> S], NEW r \in S, NEW h,
         h = [n \in Nat |-> h[n]], h[0] = r,
         \A n \in Nat : h[n] \in S => h[n + 1] = f[h[n]]
  PROVE  Repeats(S, f, r, h)
  <1> DEFINE E == {n \in Nat : h[n] \in S}
  <1>1. E = Nat
    <2>1. 0 \in E
      OBVIOUS
    <2>2. ASSUME NEW n \in E PROVE n + 1 \in E
      OBVIOUS
    <2>3. E \in SUBSET Nat
      OBVIOUS
    <2> HIDE DEF E
    <2> QED BY <2>1, <2>2, <2>3, InductionOnNat
  <1>2. \A n \in Nat : h[n] \in S
    BY <1>1
  <1>3. h \in [Nat -> S]
    BY <1>2
  <1> QED BY <1>2, <1>3 DEF Repeats

(* end[r] is where enough rounds from r lead. *)
EndsIn(S, f, m, end) ==
  \A r \in S : \E g, n : /\ Repeats(S, f, r, g)
                        /\ n \in Nat /\ n >= m[r] /\ end[r] = g[n]

(* There the loop is done; where it was done already nothing changed, and  *)
(* a round more at the beginning makes no difference.                      *)
LEMMA LoopEnds ==
  ASSUME NEW S, NEW f, NEW D, NEW m, Terminates(S, f, D, m),
         NEW end, EndsIn(S, f, m, end), NEW r \in S
  PROVE  /\ end[r] \in D
         /\ r \in D => end[r] = r
         /\ end[f[r]] = end[r]
  <1>1. PICK g, n : /\ Repeats(S, f, r, g)
                    /\ n \in Nat /\ n >= m[r] /\ end[r] = g[n]
    BY DEF EndsIn
  <1>2. f[r] \in S
    BY DEF Terminates
  <1>3. PICK h, k : /\ Repeats(S, f, f[r], h)
                    /\ k \in Nat /\ k >= m[f[r]] /\ end[f[r]] = h[k]
    BY <1>2 DEF EndsIn
  <1>4. end[r] \in D
    BY <1>1, DoneInTime
  <1>5. ASSUME r \in D PROVE end[r] = r
    <2>1. g[0] = r /\ 0 \in Nat /\ n >= 0
      BY <1>1 DEF Repeats
    <2>2. g[n] = g[0]
      BY <1>1, <1>5, <2>1, DoneStays
    <2> QED BY <1>1, <2>1, <2>2
  <1>6. end[f[r]] = end[r]
    BY <1>1, <1>3, SameEnd
  <1> QED BY <1>4, <1>5, <1>6

LEMMA SameEnds ==
  ASSUME NEW S, NEW f, NEW D, NEW m, Terminates(S, f, D, m),
         NEW end, EndsIn(S, f, m, end), NEW other, EndsIn(S, f, m, other)
  PROVE  \A r \in S : end[r] = other[r]
  <1> DEFINE G == {r \in S : end[r] = other[r]}
  <1>1. ASSUME NEW r \in D PROVE r \in G
    <2>1. r \in S
      BY DEF Terminates
    <2>2. end[r] = r /\ other[r] = r
      BY <2>1, LoopEnds
    <2> QED BY <2>1, <2>2
  <1>2. ASSUME NEW r \in S \ D, f[r] \in G PROVE r \in G
    <2>1. end[f[r]] = end[r] /\ other[f[r]] = other[r]
      BY LoopEnds
    <2> QED BY <1>2, <2>1
  <1>3. G = S
    <2>1. G \in SUBSET S /\ D \subseteq G
      BY <1>1
    <2> HIDE DEF G
    <2> QED BY <1>2, <2>1, LoopInduction
  <1> QED BY <1>3
=============================================================================
