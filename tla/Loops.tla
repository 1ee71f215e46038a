-------------------------------- MODULE Loops --------------------------------
(***************************************************************************)
(* Induction for the proofs about recursive functions: what a loop over a  *)
(* list or over the bits of a byte computes and keeps.                     *)
(*                                                                         *)
(* The induction theorems of the library have an operator as a parameter,  *)
(* which the provers cannot be given.  Each induction is written as the    *)
(* least counterexample instead: a nonempty set of naturals has a least    *)
(* member (NatMin), and that one leads to a smaller one.                   *)
(***************************************************************************)
EXTENDS Integers, TLAPS, WellFoundedInduction

(* A nonempty set of naturals has a least member.                          *)
Below == {ss \in Nat \X Nat : ss[1] < ss[2]}

LEMMA BelowWellFounded == IsWellFoundedOn(Below, Nat)
  BY NatLessThanWellFounded DEF Below, OpToRel

LEMMA NatMin ==
    ASSUME NEW T \in SUBSET Nat, T # {}
    PROVE  \E n \in T : \A m \in T : n <= m
  <1>1. \E x \in T : \A y \in T : <<y, x>> \notin Below
    BY BelowWellFounded, WFMin
  <1>2. PICK n \in T : \A m \in T : <<m, n>> \notin Below
    BY <1>1
  <1>3. ASSUME NEW m \in T, m < n PROVE FALSE
    <2>1. <<m, n>> \in Nat \X Nat
      OBVIOUS
    <2>2. <<m, n>>[1] < <<m, n>>[2]
      BY <1>3
    <2>3. <<m, n>> \in Below
      BY <2>1, <2>2 DEF Below
    <2> QED BY <2>3, <1>2
  <1>4. \A m \in T : n \in Nat /\ m \in Nat /\ ~(m < n)
    BY <1>3
  <1> QED BY <1>4

(* A loop of n turns from e, turn i taking a value x to step[i][x]: it can *)
(* be run (there are values f after each turn), and what every turn keeps  *)
(* in S stays there.                                                       *)
Loop(f, S, n, e, step) ==
    /\ f \in [0 .. n -> S] /\ f[0] = e
    /\ \A i \in 1 .. n : f[i] = step[i][f[i - 1]]

LEMMA LoopRuns ==
    ASSUME NEW S, NEW n \in Nat, NEW e \in S, NEW step \in [1 .. n -> [S -> S]]
    PROVE  \E f : Loop(f, S, n, e, step)
  <1> DEFINE Runs(f, k) == Loop(f, S, k, e, step)
             Bad == {k \in 0 .. n : \A f : ~Runs(f, k)}
  <1> SUFFICES ASSUME n \in Bad PROVE FALSE
    OBVIOUS
  <1>1. PICK k \in Bad : \A m \in Bad : k <= m
    <2>1. Bad \in SUBSET Nat /\ Bad # {}
      OBVIOUS
    <2> HIDE DEF Bad
    <2> QED BY <2>1, NatMin
  <1>2. k # 0
    <2>1. Runs([i \in 0 .. 0 |-> e], 0)
      BY DEF Loop
    <2> HIDE DEF Runs
    <2> QED BY <2>1
  <1>3. k \in 1 .. n /\ k - 1 \in 0 .. n /\ ~(k <= k - 1)
    BY <1>2
  <1>4. PICK f : Runs(f, k - 1)
    <2> HIDE DEF Runs
    <2> QED BY <1>1, <1>3
  <1> DEFINE g == [i \in 0 .. k |-> IF i = k THEN step[k][f[k - 1]] ELSE f[i]]
  <1>5. Runs(g, k)
    <2>1. /\ f \in [0 .. k - 1 -> S] /\ f[0] = e /\ step[k] \in [S -> S]
          /\ \A i \in 1 .. k - 1 : f[i] = step[i][f[i - 1]]
      BY <1>3, <1>4 DEF Loop
    <2>2. \A i \in 0 .. k - 1 : g[i] = f[i] /\ f[i] \in S
      BY <1>3, <2>1
    <2>3. g[k] = step[k][f[k - 1]] /\ k - 1 \in 0 .. k - 1
      BY <1>3
    <2>4. g[k] \in S
      BY <2>1, <2>2, <2>3
    <2>5. g \in [0 .. k -> S]
      BY <1>3, <2>1, <2>4
    <2>6. ASSUME NEW i \in 1 .. k PROVE g[i] = step[i][g[i - 1]]
      <3>1. i - 1 \in 0 .. k - 1 /\ (i # k => i \in 1 .. k - 1 /\ i \in 0 .. k - 1)
        BY <1>3
      <3> HIDE DEF g
      <3> QED BY <2>1, <2>2, <2>3, <3>1
    <2>7. g[0] = e
      BY <1>3, <2>1, <2>2
    <2> HIDE DEF g
    <2> QED BY <2>5, <2>6, <2>7 DEF Loop
  <1>6. ~Runs(g, k)
    <2> HIDE DEF Runs, g
    <2> QED BY <1>1
  <1> QED BY <1>5, <1>6

LEMMA LoopKeeps ==
    ASSUME NEW S, NEW n \in Nat, NEW f, f[0] \in S,
           \A i \in 1 .. n : f[i - 1] \in S => f[i] \in S
    PROVE  \A i \in 0 .. n : f[i] \in S
  <1> DEFINE Bad == {i \in 0 .. n : f[i] \notin S}
  <1> SUFFICES ASSUME Bad # {} PROVE FALSE
    OBVIOUS
  <1>1. PICK k \in Bad : \A m \in Bad : k <= m
    <2>1. Bad \in SUBSET Nat
      OBVIOUS
    <2> HIDE DEF Bad
    <2> QED BY <2>1, NatMin
  <1>2. k \in 1 .. n /\ k - 1 \in 0 .. n /\ ~(k <= k - 1)
    <2>1. k # 0
      OBVIOUS
    <2> QED BY <2>1
  <1>3. f[k - 1] \in S
    BY <1>1, <1>2
  <1> QED BY <1>2, <1>3
=============================================================================
