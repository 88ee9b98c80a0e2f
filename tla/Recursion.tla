------------------------------ MODULE Recursion ------------------------------
(***************************************************************************)
(* Functions that are defined by recursion on a rank.  The theorems of the *)
(* library on this take the step of the recursion as an operator parameter; *)
(* here it is the constant Def, which a module that has such a function gives *)
(* by INSTANCE.  What they rest on is that < is well founded on the numbers. *)
(***************************************************************************)
EXTENDS Integers, WellFoundedInduction, TLAPS

CONSTANTS S, rank, Def(_, _)

(* A set of numbers has a least one. *)
LEMMA Least ==
  ASSUME NEW T \in SUBSET Nat, T # {}
  PROVE  \E x \in T : \A y \in T : x <= y
<1> DEFINE R == OpToRel(<, Nat)
<1>1. IsWellFoundedOn(R, Nat)
  BY NatLessThanWellFounded
<1>2. R = {p \in Nat \X Nat : p[1] < p[2]}
  BY DEF OpToRel
<1>3. ASSUME NEW x \in T, NEW y \in T, y < x PROVE <<y, x>> \in R
  BY <1>2, <1>3
<1> HIDE DEF R
<1>4. PICK x \in T : \A y \in T : ~ (<<y, x>> \in R)
  BY <1>1, WFMin
<1>5. ASSUME NEW y \in T PROVE x <= y
  <2>1. x \in Nat /\ y \in Nat /\ ~ (y < x)
    BY <1>3, <1>4
  <2> QED
    BY <2>1
<1> QED
  BY <1>5

(* Induction on the numbers. *)
LEMMA NatIsLeast ==
  ASSUME NEW T \in SUBSET Nat, \A n \in Nat : (\A m \in Nat : m < n => m \in T) => n \in T
  PROVE  Nat = T
<1>1. SUFFICES ASSUME Nat \ T # {} PROVE FALSE
  OBVIOUS
<1>2. PICK x \in Nat \ T : \A y \in Nat \ T : x <= y
  BY <1>1, Least
<1>3. \A m \in Nat : m < x => m \in T
  BY <1>2
<1> QED
  BY <1>2, <1>3

(* Induction on S: what is true of an element if it is of those below it is *)
(* true of all.                                                             *)
LEMMA RankInduction ==
  ASSUME rank \in [S -> Nat],
         NEW T \in SUBSET S,
         \A x \in S : (\A y \in S : rank[y] < rank[x] => y \in T) => x \in T
  PROVE  T = S
<1> DEFINE N == {n \in Nat : \A x \in S : rank[x] = n => x \in T}
<1>1. ASSUME NEW n \in Nat, \A m \in Nat : m < n => m \in N
      PROVE  n \in N
  BY <1>1
<1>2. Nat = N
  <2> HIDE DEF N
  <2>1. N \in SUBSET Nat
    BY DEF N
  <2> QED BY <1>1, <2>1, NatIsLeast
<1> QED
  BY <1>2

(* The elements of less than a rank. *)
Below(n) == {x \in S : rank[x] < n}

(* g is the function up to rank n. *)
Approximates(g, n) == g = [x \in Below(n) |-> Def(g, x)]

(* The function exists: one step of the recursion uses the values of        *)
(* smaller rank only, so that approximations agree where both are defined   *)
(* and can be put together.  If it does so only as long as the values for   *)
(* the arguments in D are in given sets, then they are.                     *)
LEMMA DefinedAndTyped ==
  ASSUME rank \in [S -> Nat], NEW D, NEW Good,
         \A x \in S : \A g, h :
           (\A y \in S : rank[y] < rank[x] => g[y] = h[y] /\ (y \in D => g[y] \in Good[y])) =>
             Def(g, x) = Def(h, x) /\ (x \in D => Def(g, x) \in Good[x])
  PROVE  \E f : f = [x \in S |-> Def(f, x)]
<1>1. ASSUME NEW g, NEW n \in Nat, Approximates(g, n), NEW x \in Below(n)
      PROVE  g[x] = Def(g, x)
  BY <1>1 DEF Approximates
<1>2. ASSUME NEW g, NEW n \in Nat, Approximates(g, n)
      PROVE  \A x \in Below(n) : x \in D => g[x] \in Good[x]
  <2> DEFINE T == {x \in S : x \in Below(n) /\ x \in D => g[x] \in Good[x]}
  <2>1. ASSUME NEW x \in S, \A y \in S : rank[y] < rank[x] => y \in T
        PROVE  x \in T
    <3>1. SUFFICES ASSUME x \in Below(n), x \in D PROVE g[x] \in Good[x]
      OBVIOUS
    <3>2. \A y \in S : rank[y] < rank[x] => y \in Below(n)
      BY <3>1 DEF Below
    <3>3. Def(g, x) \in Good[x]
      BY <2>1, <3>1, <3>2
    <3> QED
      BY <1>1, <1>2, <3>1, <3>3
  <2>2. T = S
    <3>1. T \in SUBSET S
      OBVIOUS
    <3> HIDE DEF T
    <3> QED
      BY <2>1, <3>1, RankInduction
  <2> QED
    BY <2>2 DEF Below
<1>3. ASSUME NEW g, NEW h, NEW m \in Nat, NEW n \in Nat, Approximates(g, m), Approximates(h, n)
      PROVE  \A x \in Below(m) \cap Below(n) : g[x] = h[x]
  <2> DEFINE T == {x \in S : x \in Below(m) \cap Below(n) => g[x] = h[x]}
  <2>1. ASSUME NEW x \in S, \A y \in S : rank[y] < rank[x] => y \in T
        PROVE  x \in T
    <3>1. SUFFICES ASSUME x \in Below(m) \cap Below(n) PROVE g[x] = h[x]
      OBVIOUS
    <3>2. \A y \in S : rank[y] < rank[x] => y \in Below(m) \cap Below(n)
      BY <3>1 DEF Below
    <3>3. Def(g, x) = Def(h, x)
      BY <1>2, <1>3, <2>1, <3>2
    <3> QED
      BY <1>1, <1>3, <3>1, <3>3
  <2>2. T = S
    <3>1. T \in SUBSET S
      OBVIOUS
    <3> HIDE DEF T
    <3> QED
      BY <2>1, <3>1, RankInduction
  <2> QED
    BY <2>2 DEF Below
<1>4. \A n \in Nat : \E g : Approximates(g, n)
  <2> DEFINE T == {n \in Nat : \E g : Approximates(g, n)}
  <2>1. ASSUME NEW n \in Nat, \A m \in Nat : m < n => m \in T
        PROVE  n \in T
    <3>1. CASE n = 0
      <4>1. Approximates([x \in {} |-> 0], 0)
        <5>1. Below(0) = {}
          BY DEF Below
        <5> QED
          BY <5>1 DEF Approximates
      <4> QED
        BY <3>1, <4>1
    <3>2. CASE n # 0
      <4>1. PICK g : Approximates(g, n - 1)
        BY <2>1, <3>2
      <4> DEFINE h == [x \in Below(n) |-> Def(g, x)]
      <4>2. ASSUME NEW x \in Below(n) PROVE h[x] = Def(h, x)
        <5>1. ASSUME NEW y \in S, rank[y] < rank[x]
              PROVE  g[y] = h[y] /\ (y \in D => g[y] \in Good[y])
          <6>1. y \in Below(n - 1) /\ y \in Below(n) /\ n - 1 \in Nat
            BY <3>2, <5>1 DEF Below
          <6> QED
            BY <1>1, <1>2, <4>1, <6>1
        <5>2. x \in S /\ h[x] = Def(g, x)
          BY DEF Below
        <5> HIDE DEF h
        <5>3. Def(g, x) = Def(h, x)
          BY <5>1, <5>2
        <5> QED
          BY <5>2, <5>3
      <4>3. h = [x \in Below(n) |-> h[x]]
        OBVIOUS
      <4> HIDE DEF h
      <4>4. Approximates(h, n)
        BY <4>2, <4>3 DEF Approximates
      <4> QED
        BY <4>4
    <3> QED
      BY <3>1, <3>2
  <2>2. T \in SUBSET Nat
    OBVIOUS
  <2>3. Nat = T
    <3> HIDE DEF T
    <3> QED
      BY <2>1, <2>2, NatIsLeast
  <2> QED
    BY <2>3
<1> DEFINE G(n) == CHOOSE g : Approximates(g, n)
           f == [x \in S |-> G(rank[x] + 1)[x]]
<1>5. \A n \in Nat : Approximates(G(n), n)
  BY <1>4
<1>6. ASSUME NEW x \in S PROVE f[x] = Def(f, x)
  <2>1. rank[x] + 1 \in Nat /\ x \in Below(rank[x] + 1)
    BY DEF Below
  <2>2. f[x] = G(rank[x] + 1)[x]
    OBVIOUS
  <2> HIDE DEF G
  <2>3. f[x] = Def(G(rank[x] + 1), x)
    <3> HIDE DEF f
    <3> QED
      BY <1>1, <1>2, <1>5, <2>1, <2>2
  <2>4. ASSUME NEW y \in S, rank[y] < rank[x]
        PROVE  G(rank[x] + 1)[y] = f[y] /\ (y \in D => G(rank[x] + 1)[y] \in Good[y])
    <3>1. rank[y] + 1 \in Nat /\ y \in Below(rank[y] + 1) /\ y \in Below(rank[x] + 1)
      BY <2>4 DEF Below
    <3>2. G(rank[x] + 1)[y] = G(rank[y] + 1)[y]
      BY <1>3, <1>5, <2>1, <3>1
    <3>3. y \in D => G(rank[x] + 1)[y] \in Good[y]
      <4> HIDE DEF f
      <4> QED
        BY <1>2, <1>5, <2>1, <3>1
    <3> QED
      BY <3>2, <3>3
  <2>5. Def(G(rank[x] + 1), x) = Def(f, x)
    <3> HIDE DEF f
    <3> QED
      BY <2>4
  <2> QED
    BY <2>3, <2>5
<1>7. f = [x \in S |-> f[x]]
  OBVIOUS
<1>8. f = [x \in S |-> Def(f, x)]
  <2> HIDE DEF f
  <2> QED
    BY <1>6, <1>7
<1> HIDE DEF f
<1> QED
  BY <1>6, <1>8

(* A definition by recursion on a rank defines a function.                  *)
THEOREM Defined ==
  ASSUME rank \in [S -> Nat],
         \A x \in S : \A g, h : (\A y \in S : rank[y] < rank[x] => g[y] = h[y]) => Def(g, x) = Def(h, x)
  PROVE  \E f : f = [x \in S |-> Def(f, x)]
<1>1. PICK D : D = {}
  OBVIOUS
<1>2. \A x \in S : \A g, h :
        (\A y \in S : rank[y] < rank[x] => g[y] = h[y] /\ (y \in D => g[y] \in rank[y])) =>
          Def(g, x) = Def(h, x) /\ (x \in D => Def(g, x) \in rank[x])
  BY <1>1
<1> QED
  BY <1>2, DefinedAndTyped

(* A function that is defined by recursion has the value its definition     *)
(* says.                                                                    *)
THEOREM Unfolds ==
  ASSUME rank \in [S -> Nat],
         \A x \in S : \A g, h : (\A y \in S : rank[y] < rank[x] => g[y] = h[y]) => Def(g, x) = Def(h, x),
         NEW f, f = CHOOSE g : g = [x \in S |-> Def(g, x)]
  PROVE  \A x \in S : f[x] = Def(f, x)
<1>1. \E g : g = [x \in S |-> Def(g, x)]
  BY Defined
<1>2. f = [x \in S |-> Def(f, x)]
  BY <1>1
<1> QED
  BY <1>2

(* The same of one whose step is determined, and its value in the set that  *)
(* belongs to its argument, only if the values it uses are in theirs.       *)
THEOREM UnfoldsTyped ==
  ASSUME rank \in [S -> Nat], NEW Good,
         \A x \in S : \A g, h :
           (\A y \in S : rank[y] < rank[x] => g[y] = h[y] /\ g[y] \in Good[y]) =>
             Def(g, x) = Def(h, x) /\ Def(g, x) \in Good[x],
         NEW f, f = CHOOSE g : g = [x \in S |-> Def(g, x)]
  PROVE  \A x \in S : f[x] = Def(f, x) /\ f[x] \in Good[x]
<1>1. \E g : g = [x \in S |-> Def(g, x)]
  <2>1. \A x \in S : \A g, h :
           (\A y \in S : rank[y] < rank[x] => g[y] = h[y] /\ (y \in S => g[y] \in Good[y])) =>
             Def(g, x) = Def(h, x) /\ (x \in S => Def(g, x) \in Good[x])
    OBVIOUS
  <2> QED
    BY <2>1, DefinedAndTyped
<1>2. f = [x \in S |-> Def(f, x)]
  BY <1>1
<1>3. \A g : g = [x \in S |-> Def(g, x)] => \A x \in S : g[x] = Def(g, x) /\ g[x] \in Good[x]
  <2> SUFFICES ASSUME NEW g, g = [x \in S |-> Def(g, x)]
               PROVE  \A x \in S : g[x] = Def(g, x) /\ g[x] \in Good[x]
    OBVIOUS
  <2>1. \A x \in S : g[x] = Def(g, x)
    OBVIOUS
  <2> DEFINE T == {x \in S : g[x] \in Good[x]}
  <2>2. ASSUME NEW x \in S, \A y \in S : rank[y] < rank[x] => y \in T
        PROVE  x \in T
    <3>1. Def(g, x) \in Good[x]
      BY <2>2
    <3> QED
      BY <2>1, <3>1
  <2>3. T \in SUBSET S
    OBVIOUS
  <2>4. T = S
    <3> HIDE DEF T
    <3> QED
      BY <2>2, <2>3, RankInduction
  <2> QED
    BY <2>1, <2>4
<1> QED
  BY <1>2, <1>3

=============================================================================
